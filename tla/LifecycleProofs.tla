--------------------------- MODULE LifecycleProofs ---------------------------
(***************************************************************************)
(* Proofs about the life of the program: for any number of instances and   *)
(* interfaces, any definitions and any limit on virtual interfaces,        *)
(* whichever call of the set-up is refused and whenever a signal comes.    *)
(***************************************************************************)
EXTENDS Lifecycle, Induction, SequenceTheorems, TLAPS

(***************************************************************************)
(* The invariant                                                           *)
(***************************************************************************)
Used == {"alive", "stopping", "dying"}
Gone(i) == phase[i] \in {"none", "destroyed"}
Working(i) == /\ phase[i] = "alive" /\ worker[i] \in {"running", "handling"}
              /\ ExitMessage \notin queue[i]

(* How far the main thread is with the instances.                          *)
Stages ==
    /\ main = "configure" => table_number = 0 /\ \A i \in Insts : phase[i] = "none"
    /\ main = "start" => /\ next <= Len(defs) + 1
                         /\ table_number + MaxInsts < MaxTable + next
                         /\ \A i \in Insts : IF i < next THEN Working(i) ELSE phase[i] = "none"
    /\ main = "unwind" => /\ next \in Insts /\ phase[next] \in Used
                          /\ worker[next] = "none" => /\ phase[next] = "stopping"
                                                      /\ vifs[number[next]] = <<>>
    /\ main = "loop" => \A i \in InstSet : Working(i)
    /\ main = "destroy" => \A i \in Insts : i < next => Gone(i)
    /\ main \in {"restore", "ended"} => \A i \in Insts : Gone(i)
    /\ \A i \in Insts : phase[i] # "none" => i \in InstSet

(* A table has one user, and nothing in it when it has none.               *)
TablesApart ==
    /\ \A i, j \in Insts :
          phase[i] \in Used /\ phase[j] \in Used /\ number[i] = number[j] => i = j
    /\ \A t \in Tables : \/ \E i \in Insts : phase[i] \in {"alive", "stopping"} /\ number[i] = t
                         \/ vifs[t] = <<>>

(* The instances whose interfaces have been added and are still needed.    *)
Configured(i) ==
    /\ i \in InstSet
    /\ \/ main = "configure" /\ i < next
       \/ main = "start"
       \/ phase[i] \in Used

(* The flags noted for the interfaces X: all that can be cleared, and that *)
(* of "all" with the first of them.                                        *)
AllNoted(noted, X) ==
    /\ X \ locked \subseteq noted
    /\ X \ locked # {} /\ "all" \notin locked => "all" \in noted

(* The flags noted are those that were cleared.                            *)
FlagsNoted ==
    /\ main # "ended" => \A x \in RpNames :
          IF \E i \in Insts : x \in m_restore_if_state[i] THEN rp_filter[x] = 0
                                                          ELSE rp_filter[x] = rp_before[x]
    /\ main = "ended" => \A x \in RpNames : rp_filter[x] \in {1, rp_before[x]}
    /\ m_reset_reverse_path_filter =>
          \A i \in Insts : Configured(i) => AllNoted(m_restore_if_state[i], UsedIfs(i))
    /\ ~m_reset_reverse_path_filter =>
          (\A i \in Insts : m_restore_if_state[i] = {}) /\ rp_filter = rp_before

(* The two maps of virtual interfaces are inverse to each other.           *)
InverseMaps(to, from, X) ==
    /\ DOMAIN to = X /\ \A x \in X : to[x] \in DOMAIN from /\ from[to[x]] = x
    /\ \A v \in DOMAIN from : from[v] \in X /\ to[from[v]] = v
MapsOK == \A i \in Insts : Configured(i) => InverseMaps(m_if_vif[i], m_vif_if[i], UsedIfs(i))

(* What handling the message m was for has been done.                      *)
Done(i, m) ==
    /\ m.type = "ADD_UPSTREAM" => is_upstream(i, m.if)
    /\ m.type = "ADD_DOWNSTREAM" => is_downstream(i, m.if)
    /\ /\ m.type = "SET_GLOBAL_RULE_BINDING" /\ m.if_type = "IT_UPSTREAM"
       /\ \A r \in UpstreamSettings(i) : r[2] = m.direction => r[3] = m.rule
       => rule[i][m.direction] = m.rule

(* The state of instance i after the messages that are no longer pending.  *)
Messages(i) ==
    /\ queue[i] \subseteq ConfigMessages(defs[i]) \cup {ExitMessage}
    /\ current[i] \subseteq ConfigMessages(defs[i])
    /\ \A m, n \in current[i] : m = n
    /\ worker[i] = "running" => current[i] = {}
    /\ Started(i) =>
          \A m \in ConfigMessages(defs[i]) : m \in queue[i] \cup current[i] \/ Done(i, m)
Roles(i) ==
    /\ \A u \in m_upstreams[i] :
          \E k \in DOMAIN defs[i].up : u.if = defs[i].up[k] /\ u.priority = 100 * (k - 1)
    /\ \A u, w \in m_upstreams[i] : u.if = w.if => u = w
    /\ \A x \in m_downstreams[i] : \E k \in DOMAIN defs[i].down : x = defs[i].down[k]
Registered(i) ==
    /\ \A x \in Ifs : x \in m_relevant_if_index[i] <=> is_upstream(i, x) \/ is_downstream(i, x)
    /\ vifs[number[i]] = [v \in {m_if_vif[i][x] : x \in m_relevant_if_index[i] \ refused_vifs[i]}
                             |-> m_vif_if[i][v]]
Progress == \A i \in Insts : phase[i] = "alive" => Messages(i) /\ Roles(i) /\ Registered(i)

(* An instance that has not been started has no state.                     *)
NotStarted ==
    /\ main \in {"configure", "start"} =>
          \A i \in Insts : phase[i] = "none" =>
             /\ worker[i] = "none" /\ current[i] = {} /\ m_upstreams[i] = {}
             /\ m_downstreams[i] = {} /\ m_relevant_if_index[i] = {}
    /\ main = "configure" => \A i \in Insts : i >= next => m_restore_if_state[i] = {}

IInv == TypeOK /\ Stages /\ TablesApart /\ FlagsNoted /\ MapsOK /\ Progress
(***************************************************************************)
(* Definitions of instances                                                *)
(***************************************************************************)
(* A configuration has a definition for each instance, with a downstream.  *)
LEMMA DefinitionFacts ==
    ASSUME defs \in Definitions
    PROVE  /\ Len(defs) \in Nat /\ Len(defs) <= MaxInsts
           /\ InstSet = 1 .. Len(defs) /\ InstSet \subseteq Insts
           /\ \A i \in InstSet : /\ defs[i] \in Definition
                                 /\ defs[i].up \in Seq(Ifs) /\ defs[i].down \in Seq(Ifs)
                                 /\ defs[i].down # <<>>
                                 /\ defs[i].selected \in BOOLEAN
                                 /\ defs[i].settings \subseteq IfTypes \X Directions \X Rules
                                 /\ defs[i].number \in Nat
                                 /\ defs[i].number + MaxInsts <= MaxTable
<1>1. /\ defs \in Seq(Definition) /\ Len(defs) <= MaxInsts
      /\ \A i \in DOMAIN defs : defs[i].down # <<>> /\ defs[i].number + MaxInsts <= MaxTable
  BY LifecycleAssumption
<1>2. Len(defs) \in Nat /\ DOMAIN defs = 1 .. Len(defs)
  BY <1>1
<1>3. InstSet = 1 .. Len(defs) /\ InstSet \subseteq Insts
  BY <1>1, <1>2, LifecycleAssumption DEF InstSet, Insts
<1>4. ASSUME NEW i \in InstSet PROVE defs[i] \in Definition
  <2> DEFINE D == Definition
  <2>1. defs \in Seq(D) /\ i \in 1 .. Len(defs)
    BY <1>1, <1>3
  <2> HIDE DEF D
  <2>2. QED
    BY <2>1, ElementOfSeq DEF D
<1>5. \A i \in InstSet : /\ defs[i].up \in Seq(Ifs) /\ defs[i].down \in Seq(Ifs)
                         /\ defs[i].selected \in BOOLEAN
                         /\ defs[i].settings \subseteq IfTypes \X Directions \X Rules
                         /\ defs[i].number \in Nat
  BY <1>4 DEF Definition, Tables
<1>6. QED
  BY <1>1, <1>2, <1>3, <1>4, <1>5 DEF InstSet

(* Its messages are well formed, and none of them is the exit command.     *)
LEMMA MessageFacts ==
    ASSUME defs \in Definitions, NEW i \in InstSet
    PROVE  /\ ConfigMessages(defs[i]) \subseteq Message
           /\ ExitMessage \notin ConfigMessages(defs[i])
           /\ ExitMessage \notin Message
           /\ \A m \in ConfigMessages(defs[i]) :
                \/ /\ m.type = "ADD_UPSTREAM"
                   /\ \E k \in DOMAIN defs[i].up :
                         m.if = defs[i].up[k] /\ m.priority = 100 * (k - 1)
                \/ /\ m.type = "ADD_DOWNSTREAM"
                   /\ \E k \in DOMAIN defs[i].down : m.if = defs[i].down[k]
                \/ /\ m.type = "SET_GLOBAL_RULE_BINDING"
                   /\ <<m.if_type, m.direction, m.rule>> \in defs[i].settings
           /\ \A n : QueuedMessages(defs[i], n) \subseteq ConfigMessages(defs[i])
<1> DEFINE d == defs[i]
<1>1. /\ d.up \in Seq(Ifs) /\ d.down \in Seq(Ifs)
      /\ d.settings \subseteq IfTypes \X Directions \X Rules
  BY DefinitionFacts
<1>2. /\ \A k \in DOMAIN d.up : d.up[k] \in Ifs /\ 100 * (k - 1) \in Nat
      /\ \A k \in DOMAIN d.down : d.down[k] \in Ifs
  BY <1>1
<1> HIDE DEF d
<1>6. ConfigMessages(d) =
        {[type |-> "SET_GLOBAL_RULE_BINDING", if_type |-> s[1], direction |-> s[2],
          rule |-> s[3]] : s \in d.settings}
        \cup {[type |-> "ADD_UPSTREAM", if |-> d.up[k], priority |-> 100 * (k - 1)] :
                 k \in DOMAIN d.up}
        \cup {[type |-> "ADD_DOWNSTREAM", if |-> d.down[k]] : k \in DOMAIN d.down}
  <2>1. /\ Len(d.up) \in Nat /\ Len(d.down) \in Nat
        /\ DOMAIN d.up = 1 .. Len(d.up) /\ DOMAIN d.down = 1 .. Len(d.down)
    BY <1>1
  <2>2. {j \in DOMAIN d.up : j <= Interfaces(d)} = DOMAIN d.up
    <3>1. \A a, b \in Nat : \A j \in 1 .. a : j <= a + b
      OBVIOUS
    <3>2. \A j \in DOMAIN d.up : j <= Interfaces(d)
      BY <2>1, <3>1, Zenon DEF Interfaces
    <3>3. QED
      BY <3>2, Zenon
  <2>3. {j \in DOMAIN d.down : Len(d.up) + j <= Interfaces(d)} = DOMAIN d.down
    <3>1. \A a, b \in Nat : \A j \in 1 .. b : a + j <= a + b
      OBVIOUS
    <3>2. \A j \in DOMAIN d.down : Len(d.up) + j <= Interfaces(d)
      BY <2>1, <3>1, Zenon DEF Interfaces
    <3>3. QED
      BY <3>2, Zenon
  <2> DEFINE M(J, K) ==
        {[type |-> "SET_GLOBAL_RULE_BINDING", if_type |-> s[1], direction |-> s[2],
          rule |-> s[3]] : s \in d.settings}
        \cup {[type |-> "ADD_UPSTREAM", if |-> d.up[k], priority |-> 100 * (k - 1)] : k \in J}
        \cup {[type |-> "ADD_DOWNSTREAM", if |-> d.down[k]] : k \in K}
  <2> DEFINE J == {j \in DOMAIN d.up : j <= Interfaces(d)}
             K == {j \in DOMAIN d.down : Len(d.up) + j <= Interfaces(d)}
  <2>4. ConfigMessages(d) = M(J, K)
    BY Zenon DEF ConfigMessages, QueuedMessages
  <2>5. J = DOMAIN d.up /\ K = DOMAIN d.down
    BY <2>2, <2>3
  <2>6. ConfigMessages(d) = M(DOMAIN d.up, DOMAIN d.down)
    <3> HIDE DEF J, K, M
    <3>1. QED
      BY <2>4, <2>5, Zenon
  <2>7. QED
    BY <2>6, Zenon
<1>7. \A n : QueuedMessages(d, n) \subseteq ConfigMessages(d)
  <2> SUFFICES ASSUME NEW n, NEW m \in QueuedMessages(d, n) PROVE m \in ConfigMessages(d)
    OBVIOUS
  <2>1. \/ m \in {[type |-> "SET_GLOBAL_RULE_BINDING", if_type |-> s[1], direction |-> s[2],
                   rule |-> s[3]] : s \in d.settings}
        \/ \E k \in {j \in DOMAIN d.up : j <= n} :
              m = [type |-> "ADD_UPSTREAM", if |-> d.up[k], priority |-> 100 * (k - 1)]
        \/ \E k \in {j \in DOMAIN d.down : Len(d.up) + j <= n} :
              m = [type |-> "ADD_DOWNSTREAM", if |-> d.down[k]]
    BY Zenon DEF QueuedMessages
  <2>2. \/ m \in {[type |-> "SET_GLOBAL_RULE_BINDING", if_type |-> s[1], direction |-> s[2],
                   rule |-> s[3]] : s \in d.settings}
        \/ \E k \in DOMAIN d.up :
              m = [type |-> "ADD_UPSTREAM", if |-> d.up[k], priority |-> 100 * (k - 1)]
        \/ \E k \in DOMAIN d.down : m = [type |-> "ADD_DOWNSTREAM", if |-> d.down[k]]
    BY <2>1, Zenon
  <2>3. QED
    BY <1>6, <2>2, Zenon
<1>3. ASSUME NEW m \in ConfigMessages(d)
      PROVE  /\ m \in Message
             /\ \/ /\ m.type = "ADD_UPSTREAM"
                   /\ \E k \in DOMAIN d.up : m.if = d.up[k] /\ m.priority = 100 * (k - 1)
                \/ m.type = "ADD_DOWNSTREAM" /\ \E k \in DOMAIN d.down : m.if = d.down[k]
                \/ /\ m.type = "SET_GLOBAL_RULE_BINDING"
                   /\ <<m.if_type, m.direction, m.rule>> \in d.settings
  <2>1. \/ \E s \in d.settings :
              m = [type |-> "SET_GLOBAL_RULE_BINDING", if_type |-> s[1], direction |-> s[2],
                   rule |-> s[3]]
        \/ \E k \in DOMAIN d.up :
              m = [type |-> "ADD_UPSTREAM", if |-> d.up[k], priority |-> 100 * (k - 1)]
        \/ \E k \in DOMAIN d.down : m = [type |-> "ADD_DOWNSTREAM", if |-> d.down[k]]
    BY <1>6
  <2>2. CASE \E s \in d.settings :
              m = [type |-> "SET_GLOBAL_RULE_BINDING", if_type |-> s[1], direction |-> s[2],
                   rule |-> s[3]]
    <3>1. PICK s \in d.settings :
              m = [type |-> "SET_GLOBAL_RULE_BINDING", if_type |-> s[1], direction |-> s[2],
                   rule |-> s[3]]
      BY <2>2
    <3>2. s \in IfTypes \X Directions \X Rules
      BY <1>1
    <3>3. s[1] \in IfTypes /\ s[2] \in Directions /\ s[3] \in Rules /\ s = <<s[1], s[2], s[3]>>
      BY <3>2
    <3>4. QED
      BY <3>1, <3>3 DEF Message
  <2>3. CASE \E k \in DOMAIN d.up :
              m = [type |-> "ADD_UPSTREAM", if |-> d.up[k], priority |-> 100 * (k - 1)]
    BY <1>2, <2>3 DEF Message
  <2>4. CASE \E k \in DOMAIN d.down : m = [type |-> "ADD_DOWNSTREAM", if |-> d.down[k]]
    BY <1>2, <2>4 DEF Message
  <2>5. QED
    BY <2>1, <2>2, <2>3, <2>4
<1>4. ExitMessage \notin Message
  BY DEF ExitMessage, Message
<1>5. QED
  BY <1>3, <1>4, <1>7 DEF d

(***************************************************************************)
(* The interfaces of an instance                                           *)
(***************************************************************************)
Vifs == 0 .. MaxVifs - 1
Added == [ok : BOOLEAN, if_vif : VifMaps, vif_if : IfMaps, rp : [RpNames -> 0 .. 2],
          noted : SUBSET RpNames]

(* Maps of virtual interfaces with one more entry.                         *)
LEMMA AddType ==
    ASSUME NEW x \in Ifs, NEW v \in Vifs
    PROVE  /\ \A map \in VifMaps : Add(map, x, v) \in VifMaps
           /\ \A map \in IfMaps : Add(map, v, x) \in IfMaps
<1>1. ASSUME NEW map \in VifMaps PROVE Add(map, x, v) \in VifMaps
  <2>1. PICK X \in SUBSET Ifs : map \in [X -> Vifs]
    BY DEF VifMaps, Vifs
  <2>2. X \cup {x} \in SUBSET Ifs /\ Add(map, x, v) \in [X \cup {x} -> Vifs]
    BY <2>1 DEF Add
  <2>3. QED
    BY <2>2 DEF VifMaps, Vifs
<1>2. ASSUME NEW map \in IfMaps PROVE Add(map, v, x) \in IfMaps
  <2>1. PICK V \in SUBSET Vifs : map \in [V -> Ifs]
    BY DEF IfMaps, Vifs
  <2>2. V \cup {v} \in SUBSET Vifs /\ Add(map, v, x) \in [V \cup {v} -> Ifs]
    BY <2>1 DEF Add
  <2>3. QED
    BY <2>2 DEF IfMaps, Vifs
<1>3. QED
  BY <1>1, <1>2

(* The number found is free, if one is.                                    *)
LEMMA FreeVif ==
    ASSUME NEW map, get_free_vif_number(map) # -1
    PROVE  get_free_vif_number(map) \in Vifs \ InUse(map)
<1> DEFINE free == 0 .. MaxVifs - 1 \ InUse(map)
<1>1. free # {} /\ free \in SUBSET Nat
  BY LifecycleAssumption DEF get_free_vif_number
<1>2. \E v \in free : \A w \in free : v <= w
  <2> HIDE DEF free
  <2>1. QED
    BY <1>1, LeastNumber
<1>3. get_free_vif_number(map) = CHOOSE v \in free : \A w \in free : v <= w
  BY <1>1 DEF get_free_vif_number
<1>4. get_free_vif_number(map) \in free
  <2> HIDE DEF free
  <2>1. QED
    BY <1>2, <1>3
<1>5. QED
  BY <1>4 DEF Vifs

(* What is known after the interfaces X have been added: the maps belong   *)
(* together, and the flags cleared are those noted.                        *)
GoodMaps(a, X) == a.ok => InverseMaps(a.if_vif, a.vif_if, X)
GoodFlags(a, X, rp) ==
    /\ \A y \in RpNames : a.rp[y] = IF y \in a.noted THEN 0 ELSE rp[y]
    /\ m_reset_reverse_path_filter => /\ a.ok => AllNoted(a.noted, X)
                                      /\ a.noted # {} /\ "all" \notin locked => "all" \in a.noted
    /\ ~m_reset_reverse_path_filter => a.noted = {}

(* A new entry keeps the two maps inverse to each other.                   *)
LEMMA InverseAdd ==
    ASSUME NEW to, NEW from, NEW X, InverseMaps(to, from, X),
           NEW x, x \notin X, NEW v, v \notin InUse(to)
    PROVE  InverseMaps(Add(to, x, v), Add(from, v, x), X \cup {x})
<1>1. DOMAIN to = X /\ \A y \in X : to[y] \in DOMAIN from /\ from[to[y]] = y /\ to[y] # v
  BY DEF InverseMaps, InUse
<1>2. \A w \in DOMAIN from : from[w] \in X /\ to[from[w]] = w
  BY DEF InverseMaps
<1>3. v \notin DOMAIN from
  BY <1>1, <1>2
<1>4. /\ DOMAIN Add(to, x, v) = X \cup {x} /\ Add(to, x, v)[x] = v
      /\ \A y \in X : Add(to, x, v)[y] = to[y]
  BY <1>1 DEF Add
<1>5. /\ DOMAIN Add(from, v, x) = DOMAIN from \cup {v} /\ Add(from, v, x)[v] = x
      /\ \A w \in DOMAIN from : Add(from, v, x)[w] = from[w]
  BY <1>3 DEF Add
<1>6. QED
  BY <1>1, <1>2, <1>4, <1>5 DEF InverseMaps

(* interfaces::add_interface with any flags and numbers in use.            *)
LEMMA AddNextEffect ==
    ASSUME m_reset_reverse_path_filter \in BOOLEAN, NEW a \in Added, NEW x \in Ifs,
           NEW b, b = AddNext(a, x)
    PROVE  /\ b \in Added
           /\ \A X : GoodMaps(a, X) => GoodMaps(b, X \cup {x})
           /\ \A X, rp : GoodFlags(a, X, rp) /\ (a.ok => DOMAIN a.if_vif = X)
                            => GoodFlags(b, X \cup {x}, rp)
<1> DEFINE v == get_free_vif_number(a.if_vif)
           r == reset_rp_filter(a.rp, a.noted, x)
           cleared == IF x \in locked THEN {}
                      ELSE IF a.noted = {} THEN {x, "all"} \ locked ELSE {x}
<1>1. /\ a.ok \in BOOLEAN /\ a.if_vif \in VifMaps /\ a.vif_if \in IfMaps
      /\ a.rp \in [RpNames -> 0 .. 2] /\ a.noted \in SUBSET RpNames
  BY DEF Added
<1>2. CASE ~a.ok
  BY <1>2 DEF AddNext, GoodMaps, GoodFlags
<1>3. CASE a.ok /\ (v = -1 \/ x \notin UpIfs)
  <2>1. b = [a EXCEPT !.ok = FALSE]
    BY <1>3 DEF AddNext, add_interface
  <2>2. /\ b.ok = FALSE /\ b.if_vif = a.if_vif /\ b.vif_if = a.vif_if /\ b.rp = a.rp
        /\ b.noted = a.noted /\ b \in Added
    BY <2>1 DEF Added
  <2>3. QED
    BY <2>2 DEF GoodMaps, GoodFlags
<1>4. CASE a.ok /\ ~(v = -1 \/ x \notin UpIfs) /\ x \in DOMAIN a.if_vif
  <2>1. b = a
    BY <1>4 DEF AddNext, add_interface
  <2>2. \A X : DOMAIN a.if_vif = X => X \cup {x} = X
    BY <1>4
  <2>3. QED
    BY <1>4, <2>1, <2>2 DEF GoodMaps, GoodFlags, InverseMaps
<1>5. CASE a.ok /\ ~(v = -1 \/ x \notin UpIfs) /\ x \notin DOMAIN a.if_vif
  <2>1. b = [ok |-> a.ok, if_vif |-> Add(a.if_vif, x, v), vif_if |-> Add(a.vif_if, v, x),
             rp |-> IF m_reset_reverse_path_filter THEN r.rp ELSE a.rp,
             noted |-> IF m_reset_reverse_path_filter THEN r.noted ELSE a.noted]
    BY <1>5 DEF AddNext, add_interface
  <2>2. v \in Vifs \ InUse(a.if_vif)
    BY <1>5, FreeVif
  <2> HIDE DEF v
  <2>3. /\ b.ok = TRUE /\ b.if_vif = Add(a.if_vif, x, v) /\ b.vif_if = Add(a.vif_if, v, x)
        /\ b.rp = (IF m_reset_reverse_path_filter THEN r.rp ELSE a.rp)
        /\ b.noted = (IF m_reset_reverse_path_filter THEN r.noted ELSE a.noted)
    BY <1>5, <2>1
  <2>4. /\ r.rp = [y \in RpNames |-> IF y \in cleared THEN 0 ELSE a.rp[y]]
        /\ r.noted = a.noted \cup cleared
    BY <1>1 DEF reset_rp_filter
  <2>5. x \in RpNames /\ "all" \in RpNames
    BY DEF RpNames
  <2>12. cleared \in SUBSET RpNames
    BY <2>5
  <2> HIDE DEF cleared
  <2>6. r.rp \in [RpNames -> 0 .. 2] /\ r.noted \in SUBSET RpNames
    BY <1>1, <2>4, <2>12
  <2>7. Add(a.if_vif, x, v) \in VifMaps /\ Add(a.vif_if, v, x) \in IfMaps
    BY <1>1, <2>2, AddType
  <2> HIDE DEF r
  <2>8. b \in Added
    BY <1>1, <1>5, <2>1, <2>6, <2>7 DEF Added
  <2>9. ASSUME NEW X, GoodMaps(a, X) PROVE GoodMaps(b, X \cup {x})
    <3>1. InverseMaps(a.if_vif, a.vif_if, X)
      BY <1>5, <2>9 DEF GoodMaps
    <3>2. x \notin X
      BY <1>5, <3>1 DEF InverseMaps
    <3>3. InverseMaps(Add(a.if_vif, x, v), Add(a.vif_if, v, x), X \cup {x})
      BY <2>2, <3>1, <3>2, InverseAdd
    <3>4. QED
      BY <2>3, <3>3 DEF GoodMaps
  <2>10. ASSUME NEW X, NEW rp, GoodFlags(a, X, rp) PROVE GoodFlags(b, X \cup {x}, rp)
    <3>1. CASE m_reset_reverse_path_filter
      <4>1. b.rp = r.rp /\ b.noted = a.noted \cup cleared
        BY <2>3, <2>4, <3>1
      <4>2. \A y \in RpNames : b.rp[y] = IF y \in b.noted THEN 0 ELSE rp[y]
        BY <2>4, <2>10, <4>1 DEF GoodFlags
      <4>3. AllNoted(a.noted, X) /\ (a.noted # {} /\ "all" \notin locked => "all" \in a.noted)
        BY <1>5, <2>10, <3>1 DEF GoodFlags
      <4>4. /\ AllNoted(b.noted, X \cup {x})
            /\ b.noted # {} /\ "all" \notin locked => "all" \in b.noted
        <5>1. CASE x \in locked
          BY <4>1, <4>3, <5>1 DEF AllNoted, cleared
        <5>2. CASE x \notin locked /\ a.noted = {}
          BY <4>1, <4>3, <5>2 DEF AllNoted, cleared
        <5>3. CASE x \notin locked /\ a.noted # {}
          BY <4>1, <4>3, <5>3 DEF AllNoted, cleared
        <5>4. QED
          BY <5>1, <5>2, <5>3
      <4>5. QED
        BY <3>1, <4>2, <4>4 DEF GoodFlags
    <3>2. CASE ~m_reset_reverse_path_filter
      BY <2>3, <2>10, <3>2 DEF GoodFlags
    <3>3. QED
      BY <3>1, <3>2
  <2>11. QED
    BY <2>8, <2>9, <2>10
<1>6. QED
  BY <1>1, <1>2, <1>3, <1>4, <1>5

(* The steps of the loop over the interfaces of an instance.               *)
AddSteps(list, rp, step) ==
    /\ step \in [0 .. Len(list) -> Added]
    /\ step[0] = Empty(rp)
    /\ \A n \in 1 .. Len(list) : step[n] = AddNext(step[n - 1], list[n])
    /\ AddAll(list, rp) = step[Len(list)]

(* The loop has such steps.                                                *)
LEMMA AddLoop ==
    ASSUME m_reset_reverse_path_filter \in BOOLEAN, NEW list \in Seq(Ifs),
           NEW rp \in [RpNames -> 0 .. 2]
    PROVE  \E step : AddSteps(list, rp, step)
<1> DEFINE N == Len(list)
           T == Added
           e == Empty(rp)
           G == [p \in (1 .. N) \X T |-> AddNext(p[2], list[p[1]])]
           Body(f) == [k \in 0 .. Len(list) |->
                          IF k = 0 THEN Empty(rp) ELSE AddNext(f[k - 1], list[k])]
           step == CHOOSE f : f = Body(f)
<1>1. N \in Nat /\ \A n \in 1 .. N : list[n] \in Ifs
  OBVIOUS
<1>2. \A n \in 1 .. N : \A a \in T : AddNext(a, list[n]) \in T
  BY <1>1, AddNextEffect
<1>3. e \in T
  <2>1. <<>> \in VifMaps
    <3>1. <<>> \in [{} -> 0 .. MaxVifs - 1] /\ {} \in SUBSET Ifs
      OBVIOUS
    <3>2. QED
      BY <3>1 DEF VifMaps
  <2>2. <<>> \in IfMaps
    <3>1. <<>> \in [{} -> Ifs] /\ {} \in SUBSET (0 .. MaxVifs - 1)
      OBVIOUS
    <3>2. QED
      BY <3>1 DEF IfMaps
  <2>3. QED
    BY <2>1, <2>2 DEF Empty, Added
<1>4. G \in [(1 .. N) \X T -> T]
  <2> HIDE DEF T
  <2>1. QED
    BY <1>2
<1>5. PICK f \in [0 .. N -> T] : DefinedBy(f, e, G, N)
  <2> HIDE DEF N, T, G, e
  <2>1. QED
    BY <1>1, <1>3, <1>4, TypedRecursion
<1>6. f[0] = e /\ \A n \in 1 .. N : f[n] = AddNext(f[n - 1], list[n])
  <2> HIDE DEF T, e
  <2>1. f[0] = e /\ \A n \in 1 .. N : f[n] = G[<<n, f[n - 1]>>]
    <3> HIDE DEF G
    <3>1. QED
      BY <1>5 DEF DefinedBy
  <2>2. \A n \in 1 .. N : n - 1 \in 0 .. N
    BY <1>1
  <2>3. \A n \in 1 .. N : f[n - 1] \in T
    BY <2>2
  <2>4. QED
    BY <2>1, <2>3
<1> HIDE DEF T, G
<1>7. f = Body(f)
  <2>1. \A n \in 0 .. N : n # 0 => n \in 1 .. N
    BY <1>1
  <2>2. \A n \in 0 .. N : f[n] = Body(f)[n]
    BY <1>6, <2>1
  <2>3. QED
    BY <2>2
<1>8. step = Body(step)
  <2> HIDE DEF Body
  <2>1. QED
    BY <1>7
<1>9. step[0] = e /\ \A n \in 1 .. N : step[n] = AddNext(step[n - 1], list[n])
  <2> HIDE DEF step
  <2>1. 0 \in 0 .. N /\ \A n \in 1 .. N : n \in 0 .. N /\ n # 0
    BY <1>1
  <2>2. \A n \in 0 .. N : Body(step)[n] = IF n = 0 THEN e ELSE AddNext(step[n - 1], list[n])
    OBVIOUS
  <2> HIDE DEF Body, e
  <2>3. QED
    BY <1>8, <2>1, <2>2
<1>10. \A n \in 0 .. N - 1 : step[n] \in T => step[n + 1] \in T
  <2> TAKE n \in 0 .. N - 1
  <2>1. n + 1 \in 1 .. N /\ (n + 1) - 1 = n
    BY <1>1
  <2> HIDE DEF step
  <2>2. QED
    BY <1>2, <1>9, <2>1
<1>11. \A n \in 0 .. N : step[n] \in T
  <2> HIDE DEF step, e, N
  <2>1. QED
    BY <1>1, <1>3, <1>9, <1>10, RecursionType
<1>12. step \in [0 .. N -> T]
  <2> HIDE DEF step
  <2>1. QED
    BY <1>8, <1>11
<1>13. AddAll(list, rp) = step[N]
  BY DEF AddAll
<1>14. AddSteps(list, rp, step)
  <2> HIDE DEF step
  <2>1. QED
    BY <1>9, <1>12, <1>13 DEF T, AddSteps
<1>15. QED
  BY <1>14

(* configuration::initalize_interfaces for one instance: whatever is used  *)
(* already and whatever is refused, and for lists of any length.           *)
LEMMA AddAllEffect ==
    ASSUME m_reset_reverse_path_filter \in BOOLEAN, NEW list \in Seq(Ifs),
           NEW rp \in [RpNames -> 0 .. 2], NEW a, a = AddAll(list, rp)
    PROVE  /\ a \in Added
           /\ GoodMaps(a, {list[k] : k \in DOMAIN list})
           /\ GoodFlags(a, {list[k] : k \in DOMAIN list}, rp)
<1> DEFINE N == Len(list)
           X(n) == {list[k] : k \in 1 .. n}
<1>1. N \in Nat /\ DOMAIN list = 1 .. N /\ \A n \in 1 .. N : list[n] \in Ifs
  OBVIOUS
<1>2. PICK step : AddSteps(list, rp, step)
  BY AddLoop
<1>3. /\ step \in [0 .. N -> Added] /\ step[0] = Empty(rp) /\ a = step[N]
      /\ \A n \in 1 .. N : step[n] = AddNext(step[n - 1], list[n])
  BY <1>2 DEF AddSteps
<1> DEFINE P == {n \in 0 .. N : GoodMaps(step[n], X(n)) /\ GoodFlags(step[n], X(n), rp)}
<1>4. 0 \in P
  <2>1. X(0) = {}
    OBVIOUS
  <2>2. /\ step[0].if_vif = <<>> /\ step[0].vif_if = <<>> /\ step[0].rp = rp
        /\ step[0].noted = {}
    BY <1>3 DEF Empty
  <2>3. InverseMaps(<<>>, <<>>, {})
    BY DEF InverseMaps
  <2> HIDE DEF X
  <2>4. GoodMaps(step[0], X(0)) /\ GoodFlags(step[0], X(0), rp)
    BY <2>1, <2>2, <2>3 DEF GoodMaps, GoodFlags, AllNoted
  <2>5. QED
    BY <1>1, <2>4
<1>5. ASSUME NEW n \in 0 .. N - 1, n \in P PROVE n + 1 \in P
  <2>1. n \in 0 .. N /\ n + 1 \in 1 .. N /\ (n + 1) - 1 = n /\ n + 1 \in 0 .. N
    BY <1>1
  <2>2. /\ step[n] \in Added /\ list[n + 1] \in Ifs
        /\ step[n + 1] = AddNext(step[n], list[n + 1])
    BY <1>1, <1>3, <2>1
  <2>3. X(n + 1) = X(n) \cup {list[n + 1]}
    BY <2>1
  <2>4. GoodMaps(step[n], X(n)) /\ GoodFlags(step[n], X(n), rp)
    BY <1>5
  <2> HIDE DEF X
  <2>5. step[n].ok => DOMAIN step[n].if_vif = X(n)
    BY <2>4 DEF GoodMaps, InverseMaps
  <2>6. /\ GoodMaps(step[n + 1], X(n) \cup {list[n + 1]})
        /\ GoodFlags(step[n + 1], X(n) \cup {list[n + 1]}, rp)
    BY <2>2, <2>4, <2>5, AddNextEffect
  <2>7. QED
    BY <2>1, <2>3, <2>6
<1>6. \A n \in 0 .. N : n \in P
  <2> HIDE DEF P, N
  <2>1. QED
    BY <1>1, <1>4, <1>5, IntervalInduction
<1>7. N \in P /\ X(N) = {list[k] : k \in DOMAIN list}
  <2>1. N \in P
    <3> HIDE DEF N, P
    <3>1. QED
      BY <1>1, <1>6
  <2>2. X(N) = {list[k] : k \in DOMAIN list}
    BY <1>1
  <2>3. QED
    BY <2>1, <2>2
<1>8. a \in Added
  BY <1>1, <1>3
<1>9. QED
  <2> HIDE DEF X
  <2>1. QED
    BY <1>3, <1>7, <1>8
(***************************************************************************)
(* What a step leaves alone                                                *)
(***************************************************************************)
(* The flags, when neither they nor the instances configured change.       *)
LEMMA FlagsFrame ==
    ASSUME FlagsNoted, UNCHANGED <<conf, rp_filter, m_restore_if_state>>,
           main' = main \/ (main # "ended" /\ main' # "ended"),
           \A i \in Insts : Configured(i)' => Configured(i)
    PROVE  FlagsNoted'
<1>1. /\ defs' = defs /\ m_reset_rp_filter' = m_reset_rp_filter /\ rp_before' = rp_before
      /\ rp_filter' = rp_filter /\ m_restore_if_state' = m_restore_if_state
      /\ family' = family /\ locked' = locked
  BY DEF conf
<1>2. m_reset_reverse_path_filter' = m_reset_reverse_path_filter
  BY <1>1 DEF m_reset_reverse_path_filter
<1>3. \A i \in Insts : UsedIfs(i)' = UsedIfs(i)
  BY <1>1 DEF UsedIfs
<1>4. \A i \in Insts : AllNoted(m_restore_if_state[i], UsedIfs(i))'
                         = AllNoted(m_restore_if_state[i], UsedIfs(i))
  BY <1>1, <1>3 DEF AllNoted
<1>5. QED
  BY <1>1, <1>2, <1>4 DEF FlagsNoted

(* So the maps of virtual interfaces.                                      *)
LEMMA MapsFrame ==
    ASSUME MapsOK, UNCHANGED <<conf, m_if_vif, m_vif_if>>,
           \A i \in Insts : Configured(i)' => Configured(i)
    PROVE  MapsOK'
<1>1. \A i \in Insts : UsedIfs(i)' = UsedIfs(i)
  BY DEF UsedIfs, conf
<1>2. QED
  BY <1>1 DEF MapsOK

(* No instance starts, and the main thread goes on.                        *)
LEMMA ConfiguredFrame ==
    ASSUME UNCHANGED conf, (main' = main /\ next' = next) \/ main' \notin {"configure", "start"},
           \A i \in Insts : phase'[i] \in Used => phase[i] \in Used
    PROVE  \A i \in Insts : Configured(i)' => Configured(i)
<1> SUFFICES ASSUME NEW i \in Insts, Configured(i)' PROVE Configured(i)
  OBVIOUS
<1>1. InstSet' = InstSet
  BY DEF conf, InstSet
<1>2. QED
  BY <1>1 DEF Configured

(* The state of instance i stays as it is.                                 *)
Kept(i) ==
    /\ queue'[i] = queue[i] /\ current'[i] = current[i] /\ worker'[i] = worker[i]
    /\ m_upstreams'[i] = m_upstreams[i] /\ m_downstreams'[i] = m_downstreams[i]
    /\ rule'[i] = rule[i] /\ m_relevant_if_index'[i] = m_relevant_if_index[i]
    /\ vifs'[number'[i]] = vifs[number[i]] /\ refused_vifs'[i] = refused_vifs[i]
    /\ Started(i)' => Started(i)

(* And so does what is known of it.                                        *)
LEMMA InstanceKept ==
    ASSUME UNCHANGED <<conf, m_if_vif, m_vif_if>>, NEW i \in Insts,
           Messages(i), Roles(i), Registered(i), Kept(i)
    PROVE  Messages(i)' /\ Roles(i)' /\ Registered(i)'
<1>1. defs' = defs /\ m_if_vif' = m_if_vif /\ m_vif_if' = m_vif_if
  BY DEF conf
<1>2. \A x : is_upstream(i, x)' = is_upstream(i, x) /\ is_downstream(i, x)' = is_downstream(i, x)
  BY DEF is_upstream, is_downstream, Kept
<1>3. \A m : Done(i, m)' = Done(i, m)
  BY <1>1, <1>2 DEF Done, Kept, UpstreamSettings
<1>4. Messages(i)'
  BY <1>1, <1>3 DEF Messages, Kept
<1>5. Roles(i)'
  BY <1>1 DEF Roles, Kept
<1>6. Registered(i)'
  BY <1>1, <1>2 DEF Registered, Kept
<1>7. QED
  BY <1>4, <1>5, <1>6

(* All instances alive were so before and stay as they were.               *)
LEMMA ProgressFrame ==
    ASSUME Progress, UNCHANGED <<conf, m_if_vif, m_vif_if>>,
           \A i \in Insts : phase'[i] = "alive" => phase[i] = "alive" /\ Kept(i)
    PROVE  Progress'
<1> SUFFICES ASSUME NEW i \in Insts, phase'[i] = "alive"
             PROVE  Messages(i)' /\ Roles(i)' /\ Registered(i)'
  BY DEF Progress
<1>1. Messages(i) /\ Roles(i) /\ Registered(i) /\ Kept(i)
  BY DEF Progress
<1>2. QED
  BY <1>1, InstanceKept

(***************************************************************************)
(* Steps of the main thread and of the receivers                           *)
(***************************************************************************)
(* A signal changes nothing but m_running.                                 *)
LEMMA SignalStep == ASSUME IInv, signal_handler PROVE IInv'
<1>1. /\ UNCHANGED <<conf, main, next, table_number, ifaces, kernel, inst, crashed>>
      /\ signals' \in 0 .. MaxSignals /\ m_running' = FALSE /\ main # "ended"
  BY LifecycleAssumption DEF signal_handler, IInv, TypeOK
<1>2. TypeOK'
  BY <1>1 DEF IInv, TypeOK, conf, ifaces, kernel, inst
<1>3. Stages'
  BY <1>1 DEF IInv, Stages, Working, Gone, InstSet, conf, kernel, inst
<1>4. TablesApart'
  BY <1>1 DEF IInv, TablesApart, kernel, inst
<1>5. \A i \in Insts : Configured(i)' => Configured(i)
  BY <1>1, ConfiguredFrame DEF inst
<1>6. FlagsNoted'
  BY <1>1, <1>5, FlagsFrame DEF IInv, kernel, ifaces
<1>7. MapsOK'
  BY <1>1, <1>5, MapsFrame DEF IInv, ifaces
<1>8. Progress'
  <2>1. \A i \in Insts : phase'[i] = "alive" => phase[i] = "alive" /\ Kept(i)
    BY <1>1 DEF Kept, Started, inst, kernel
  <2>2. QED
    BY <1>1, <2>1, ProgressFrame DEF IInv, ifaces
<1>9. QED
  BY <1>2, <1>3, <1>4, <1>6, <1>7, <1>8 DEF IInv

(* The main thread goes on to wait, with every instance at work.           *)
LEMMA StartLoopStep == ASSUME IInv, StartLoop PROVE IInv'
<1>1. /\ UNCHANGED <<conf, next, table_number, ifaces, kernel, inst, crashed, signals>>
      /\ m_running' = TRUE /\ main = "start" /\ main' = "loop" /\ next \notin InstSet
  BY DEF StartLoop
<1>2. TypeOK'
  BY <1>1 DEF IInv, TypeOK, conf, ifaces, kernel, inst, MainStates
<1>3. Stages'
  <2>1. InstSet' = InstSet /\ \A i \in Insts : Working(i)' = Working(i)
    BY <1>1 DEF Working, conf, inst, InstSet
  <2>2. InstSet = 1 .. Len(defs) /\ InstSet \subseteq Insts /\ next \in 1 .. MaxInsts + 1
    BY DefinitionFacts DEF IInv, TypeOK
  <2>3. \A i \in InstSet : i < next
    BY <1>1, <2>2, LifecycleAssumption, DefinitionFacts DEF IInv, Stages, TypeOK
  <2>4. \A i \in InstSet : Working(i)'
    BY <1>1, <2>1, <2>2, <2>3 DEF IInv, Stages
  <2>5. \A i \in Insts : phase'[i] # "none" => i \in InstSet'
    BY <1>1, <2>1 DEF IInv, Stages, inst
  <2>6. QED
    BY <1>1, <2>1, <2>4, <2>5 DEF Stages
<1>4. TablesApart'
  BY <1>1 DEF IInv, TablesApart, kernel, inst
<1>5. \A i \in Insts : Configured(i)' => Configured(i)
  BY <1>1, ConfiguredFrame DEF inst
<1>6. FlagsNoted'
  BY <1>1, <1>5, FlagsFrame DEF IInv, kernel, ifaces
<1>7. MapsOK'
  BY <1>1, <1>5, MapsFrame DEF IInv, ifaces
<1>8. Progress'
  <2>1. \A i \in Insts : phase'[i] = "alive" => phase[i] = "alive" /\ Kept(i)
    BY <1>1 DEF Kept, Started, inst, kernel
  <2>2. QED
    BY <1>1, <2>1, ProgressFrame DEF IInv, ifaces
<1>9. QED
  BY <1>2, <1>3, <1>4, <1>6, <1>7, <1>8 DEF IInv

(* What an instance that was not finished had opened is closed again.      *)
LEMMA UnwindStep == ASSUME IInv, Unwind PROVE IInv'
<1>1. /\ UNCHANGED <<conf, m_running, signals, table_number, ifaces, kernel, number, worker,
                     receiver, queue, current, m_upstreams, m_downstreams, rule, m_added_ifs,
                     m_relevant_if_index, crashed>>
      /\ main = "unwind" /\ main' = "destroy" /\ next' = 1 /\ worker[next] = "none"
      /\ phase' = [phase EXCEPT ![next] = "none"]
  BY DEF Unwind
<1>2. TypeOK'
  <2>1. phase' \in [Insts -> Phases]
    BY <1>1 DEF IInv, TypeOK, Phases
  <2>2. next' \in 1 .. MaxInsts + 1 /\ main' \in MainStates
    BY <1>1, LifecycleAssumption DEF MainStates
  <2>3. QED
    BY <1>1, <2>1, <2>2 DEF IInv, TypeOK, conf, ifaces, kernel
<1>3. /\ \A i \in Insts : i # next => phase'[i] = phase[i]
      /\ next \in Insts => phase'[next] = "none"
  BY <1>1 DEF IInv, TypeOK
<1>4. Stages'
  <2>1. InstSet' = InstSet
    BY <1>1 DEF conf, InstSet
  <2>2. \A i \in Insts : ~(i < 1)
    BY DEF Insts
  <2>3. QED
    BY <1>1, <1>3, <2>1, <2>2 DEF IInv, Stages
<1>5. TablesApart'
  <2>1. vifs' = vifs /\ number' = number /\ number \in [Insts -> Tables]
    BY <1>1 DEF kernel, IInv, TypeOK
  <2>2. \A i \in Insts : phase'[i] # "none" => phase'[i] = phase[i] /\ i # next
    BY <1>3
  <2>3. \A i, j \in Insts :
           phase'[i] \in Used /\ phase'[j] \in Used /\ number'[i] = number'[j] => i = j
    BY <2>1, <2>2 DEF IInv, TablesApart, Used
  <2>4. ASSUME NEW t \in Tables
        PROVE  \/ \E i \in Insts : phase'[i] \in {"alive", "stopping"} /\ number'[i] = t
               \/ vifs'[t] = <<>>
    <3>1. CASE next \in Insts /\ t = number[next]
      BY <1>1, <2>1, <3>1 DEF IInv, Stages
    <3>2. CASE ~(next \in Insts /\ t = number[next])
      <4>1. CASE vifs[t] = <<>>
        BY <2>1, <4>1
      <4>2. CASE \E i \in Insts : phase[i] \in {"alive", "stopping"} /\ number[i] = t
        BY <1>3, <2>1, <3>2, <4>2
      <4>3. QED
        BY <4>1, <4>2 DEF IInv, TablesApart
    <3>3. QED
      BY <3>1, <3>2
  <2>5. QED
    BY <2>3, <2>4 DEF TablesApart
<1>6. \A i \in Insts : Configured(i)' => Configured(i)
  <2>1. \A i \in Insts : phase'[i] \in Used => phase[i] \in Used
    BY <1>3 DEF Used
  <2>2. QED
    BY <1>1, <2>1, ConfiguredFrame
<1>7. FlagsNoted'
  BY <1>1, <1>6, FlagsFrame DEF IInv, kernel, ifaces
<1>8. MapsOK'
  BY <1>1, <1>6, MapsFrame DEF IInv, ifaces
<1>9. Progress'
  <2>1. \A i \in Insts : phase'[i] = "alive" => phase[i] = "alive" /\ Kept(i)
    BY <1>1, <1>3 DEF Kept, Started, kernel
  <2>2. QED
    BY <1>1, <2>1, ProgressFrame DEF IInv, ifaces
<1>10. QED
  BY <1>2, <1>4, <1>5, <1>7, <1>8, <1>9 DEF IInv

(* The end of proxy::start: exit commands go to the instances alive.       *)
LEMMA LeaveLoopStep == ASSUME IInv, LeaveLoop PROVE IInv'
<1>1. /\ UNCHANGED <<conf, m_running, signals, table_number, ifaces, kernel, phase, number,
                     worker, receiver, current, m_upstreams, m_downstreams, rule, m_added_ifs,
                     m_relevant_if_index, crashed>>
      /\ main = "loop" /\ main' = "destroy" /\ next' = 1
      /\ queue' = [i \in Insts |-> IF phase[i] = "alive" THEN queue[i] \cup {ExitMessage}
                                                         ELSE queue[i]]
  BY DEF LeaveLoop
<1>2. TypeOK'
  <2>1. queue' \in [Insts -> SUBSET (Message \cup {ExitMessage})]
    BY <1>1 DEF IInv, TypeOK
  <2>2. next' \in 1 .. MaxInsts + 1 /\ main' \in MainStates
    BY <1>1, LifecycleAssumption DEF MainStates
  <2>3. QED
    BY <1>1, <2>1, <2>2 DEF IInv, TypeOK, conf, ifaces, kernel
<1>3. Stages'
  <2>1. InstSet' = InstSet
    BY <1>1 DEF conf, InstSet
  <2>2. \A i \in Insts : ~(i < 1)
    BY DEF Insts
  <2>3. QED
    BY <1>1, <2>1, <2>2 DEF IInv, Stages
<1>4. TablesApart'
  BY <1>1 DEF IInv, TablesApart, kernel
<1>5. \A i \in Insts : Configured(i)' => Configured(i)
  BY <1>1, ConfiguredFrame
<1>6. FlagsNoted'
  BY <1>1, <1>5, FlagsFrame DEF IInv, kernel, ifaces
<1>7. MapsOK'
  BY <1>1, <1>5, MapsFrame DEF IInv, ifaces
<1>8. Progress'
  <2> SUFFICES ASSUME NEW i \in Insts, phase'[i] = "alive"
               PROVE  Messages(i)' /\ Roles(i)' /\ Registered(i)'
    BY DEF Progress
  <2>1. phase[i] = "alive" /\ Messages(i) /\ Roles(i) /\ Registered(i)
    BY <1>1 DEF IInv, Progress
  <2>2. /\ defs' = defs /\ m_if_vif' = m_if_vif /\ m_vif_if' = m_vif_if /\ vifs' = vifs
        /\ refused_vifs' = refused_vifs
        /\ queue'[i] = queue[i] \cup {ExitMessage}
    BY <1>1, <2>1 DEF conf, ifaces, kernel
  <2>3. \A x : is_upstream(i, x)' = is_upstream(i, x) /\ is_downstream(i, x)' = is_downstream(i, x)
    BY <1>1 DEF is_upstream, is_downstream
  <2>4. \A m : Done(i, m)' = Done(i, m)
    BY <1>1, <2>2, <2>3 DEF Done, UpstreamSettings
  <2>5. Messages(i)'
    BY <1>1, <2>1, <2>2, <2>4 DEF Messages, Started
  <2>6. Roles(i)'
    BY <1>1, <2>1, <2>2 DEF Roles
  <2>7. Registered(i)'
    BY <1>1, <2>1, <2>2, <2>3 DEF Registered
  <2>8. QED
    BY <2>5, <2>6, <2>7
<1>9. QED
  BY <1>2, <1>3, <1>4, <1>6, <1>7, <1>8 DEF IInv

(* The receiver of an instance that is destroyed, or given up, ends.       *)
LEMMA ReceiverStep ==
    ASSUME IInv, NEW i \in Insts, receive_timeout(i) \/ receive_packet(i)
    PROVE  IInv'
<1>1. /\ UNCHANGED <<conf, main, next, m_running, signals, table_number, ifaces, kernel,
                     phase, number, worker, queue, current, m_upstreams, m_downstreams, rule,
                     m_added_ifs, m_relevant_if_index>>
      /\ receiver' = [receiver EXCEPT ![i] = "ended"]
      /\ crashed' \in BOOLEAN
      /\ phase[i] = "stopping"
  BY DEF receive_timeout, receive_packet, IInv, TypeOK
<1>2. TypeOK'
  <2>1. receiver' \in [Insts -> {"none", "running", "ended"}]
    BY <1>1 DEF IInv, TypeOK
  <2>2. QED
    BY <1>1, <2>1 DEF IInv, TypeOK, conf, ifaces, kernel
<1>3. Stages'
  BY <1>1 DEF IInv, Stages, Working, Gone, InstSet, conf, kernel
<1>4. TablesApart'
  BY <1>1 DEF IInv, TablesApart, kernel
<1>5. \A j \in Insts : Configured(j)' => Configured(j)
  BY <1>1, ConfiguredFrame
<1>6. main # "ended"
  BY <1>1 DEF IInv, Stages, Gone
<1>7. FlagsNoted'
  BY <1>1, <1>5, <1>6, FlagsFrame DEF IInv, kernel, ifaces
<1>8. MapsOK'
  BY <1>1, <1>5, MapsFrame DEF IInv, ifaces
<1>9. Progress'
  <2>1. \A j \in Insts : phase'[j] = "alive" => phase[j] = "alive" /\ Kept(j)
    BY <1>1 DEF Kept, Started, kernel
  <2>2. QED
    BY <1>1, <2>1, ProgressFrame DEF IInv, ifaces
<1>10. QED
  BY <1>2, <1>3, <1>4, <1>7, <1>8, <1>9 DEF IInv

(* The main thread finds no instance, or has destroyed them all.           *)
LEMMA SkipStep == ASSUME IInv, SkipInstance PROVE IInv'
<1>1. /\ UNCHANGED <<conf, m_running, signals, table_number, ifaces, kernel, inst, crashed>>
      /\ main = "destroy" /\ main' \in {"destroy", "restore"}
      /\ next \in Insts => /\ phase[next] \in {"none", "destroyed"}
                           /\ next' = next + 1 /\ main' = main
      /\ next \notin Insts => next' = next /\ main' = "restore"
  BY DEF SkipInstance
<1>2. MaxInsts \in Nat /\ next \in 1 .. MaxInsts + 1 /\ next' \in 1 .. MaxInsts + 1
  BY <1>1, LifecycleAssumption DEF IInv, TypeOK, Insts
<1>3. TypeOK'
  BY <1>1, <1>2 DEF IInv, TypeOK, conf, ifaces, kernel, inst, MainStates
<1>4. Stages'
  <2>1. InstSet' = InstSet /\ \A i \in Insts : Gone(i)' = Gone(i)
    BY <1>1 DEF conf, InstSet, inst, Gone
  <2>2. CASE next \in Insts
    <3>1. \A i \in Insts : i < next + 1 => i < next \/ i = next
      BY <1>2 DEF Insts
    <3>2. \A i \in Insts : i < next' => Gone(i)
      BY <1>1, <2>2, <3>1 DEF IInv, Stages, Gone
    <3>3. QED
      BY <1>1, <2>1, <2>2, <3>2 DEF IInv, Stages, inst
  <2>3. CASE next \notin Insts
    <3>1. \A i \in Insts : i < next
      BY <1>2, <2>3 DEF Insts
    <3>2. \A i \in Insts : Gone(i)'
      BY <1>1, <2>1, <3>1 DEF IInv, Stages
    <3>3. QED
      BY <1>1, <2>1, <2>3, <3>2 DEF IInv, Stages, inst
  <2>4. QED
    BY <2>2, <2>3
<1>5. TablesApart'
  BY <1>1 DEF IInv, TablesApart, kernel, inst
<1>6. \A i \in Insts : Configured(i)' => Configured(i)
  BY <1>1, ConfiguredFrame DEF inst
<1>7. FlagsNoted'
  BY <1>1, <1>6, FlagsFrame DEF IInv, kernel, ifaces
<1>8. MapsOK'
  BY <1>1, <1>6, MapsFrame DEF IInv, ifaces
<1>9. Progress'
  <2>1. \A i \in Insts : phase'[i] = "alive" => phase[i] = "alive" /\ Kept(i)
    BY <1>1 DEF Kept, Started, inst, kernel
  <2>2. QED
    BY <1>1, <2>1, ProgressFrame DEF IInv, ifaces
<1>10. QED
  BY <1>3, <1>4, <1>5, <1>7, <1>8, <1>9 DEF IInv

(* The flags that were noted are set, the others are as they were before.  *)
LEMMA RestoreStep == ASSUME IInv, restore_rp_filter PROVE IInv'
<1> DEFINE noted == UNION {m_restore_if_state[i] : i \in Insts}
<1>1. /\ UNCHANGED <<conf, next, m_running, signals, table_number, m_if_vif, m_vif_if,
                     vifs, mrules, refused_vifs, inst, crashed>>
      /\ main = "restore" /\ main' = "ended"
      /\ rp_filter' = [x \in DOMAIN rp_filter |-> IF x \in noted THEN 1 ELSE rp_filter[x]]
      /\ m_restore_if_state' = [i \in Insts |-> {}]
  BY DEF restore_rp_filter
<1>2. TypeOK'
  <2>1. rp_filter' \in [RpNames -> 0 .. 2]
    BY <1>1 DEF IInv, TypeOK
  <2>2. m_restore_if_state' \in [Insts -> SUBSET RpNames]
    BY <1>1
  <2>3. QED
    BY <1>1, <2>1, <2>2 DEF IInv, TypeOK, conf, inst, MainStates
<1>3. \A i \in Insts : Gone(i) /\ phase'[i] = phase[i]
  BY <1>1 DEF IInv, Stages, inst
<1>4. Stages'
  <2>1. InstSet' = InstSet /\ \A i \in Insts : Gone(i)'
    BY <1>1, <1>3 DEF conf, InstSet, inst, Gone
  <2>2. QED
    BY <1>1, <1>3, <2>1 DEF IInv, Stages
<1>5. TablesApart'
  BY <1>1 DEF IInv, TablesApart, inst
<1>6. \A i \in Insts : ~Configured(i)'
  BY <1>1, <1>3 DEF Configured, Gone, Used
<1>7. FlagsNoted'
  <2>1. ASSUME NEW x \in RpNames PROVE rp_filter'[x] \in {1, rp_before'[x]}
    <3>1. rp_filter'[x] = IF x \in noted THEN 1 ELSE rp_filter[x]
      BY <1>1 DEF IInv, TypeOK
    <3>2. ASSUME x \notin noted PROVE rp_filter[x] = rp_before[x]
      <4>1. ~ \E i \in Insts : x \in m_restore_if_state[i]
        BY <3>2
      <4>2. QED
        BY <1>1, <4>1 DEF IInv, FlagsNoted
    <3>3. rp_before' = rp_before
      BY <1>1 DEF conf
    <3>4. QED
      BY <3>1, <3>2, <3>3
  <2>2. m_reset_reverse_path_filter' = m_reset_reverse_path_filter /\ rp_before' = rp_before
    BY <1>1 DEF conf, m_reset_reverse_path_filter
  <2>3. ASSUME ~m_reset_reverse_path_filter PROVE rp_filter' = rp_before'
    <3>1. noted = {} /\ rp_filter = rp_before
      BY <2>3 DEF IInv, FlagsNoted
    <3>2. rp_filter' = rp_filter
      BY <1>1, <3>1 DEF IInv, TypeOK
    <3>3. QED
      BY <2>2, <3>1, <3>2
  <2>4. QED
    BY <1>1, <1>6, <2>1, <2>2, <2>3 DEF FlagsNoted
<1>8. MapsOK'
  BY <1>6 DEF MapsOK
<1>9. Progress'
  BY <1>3 DEF Progress, Gone
<1>10. QED
  BY <1>2, <1>4, <1>5, <1>7, <1>8, <1>9 DEF IInv

(***************************************************************************)
(* Destruction                                                             *)
(***************************************************************************)
(* A step changes at most the table of instance i, a living one.           *)
LEMMA OthersKept ==
    ASSUME IInv, NEW i \in Insts, phase[i] \in Used,
           \A t \in Tables : t # number[i] => vifs'[t] = vifs[t], number' = number,
           NEW j \in Insts, j # i, phase[j] \in Used
    PROVE  vifs'[number'[j]] = vifs[number[j]]
<1>1. number[j] \in Tables
  BY DEF IInv, TypeOK
<1>2. number[j] # number[i]
  BY DEF IInv, TablesApart
<1>3. QED
  BY <1>1, <1>2

(* ~proxy_instance: of the table only what remains is left.                *)
LEMMA DestroyStep == ASSUME IInv, NEW i \in Insts, DestroyMembers(i) PROVE IInv'
<1>1. /\ UNCHANGED <<conf, main, next, m_running, signals, table_number, ifaces, rp_filter,
                     refused_vifs, number, worker, receiver, current, rule, crashed>>
      /\ Destroying(i) /\ phase[i] = "alive"
      /\ phase' = [phase EXCEPT ![i] = "stopping"]
      /\ queue' = [queue EXCEPT ![i] = @ \cup {ExitMessage}]
      /\ m_upstreams' = [m_upstreams EXCEPT ![i] = {}]
      /\ m_downstreams' = [m_downstreams EXCEPT ![i] = {}]
      /\ m_added_ifs' = [m_added_ifs EXCEPT ![i] = {}]
      /\ m_relevant_if_index' = [m_relevant_if_index EXCEPT ![i] = {}]
  BY DEF DestroyMembers, destroy_members
<1>14. /\ i = next /\ main \in {"destroy", "unwind"}
       /\ main = "unwind" => worker[i] # "none"
  BY <1>1 DEF Destroying
<1>2. PICK deleted \in SUBSET m_added_ifs[i] : del_vif(i, deleted)
  BY DEF DestroyMembers
<1> DEFINE old == vifs[number[i]]
           rest == [v \in {w \in DOMAIN old : old[w] \notin deleted} |-> old[v]]
<1>3. /\ vifs' = [vifs EXCEPT ![number[i]] = rest]
      /\ mrules' \subseteq mrules
  BY <1>2 DEF del_vif, unbind_vif_form_table
<1>4. rest \in IfMaps
  <2>1. old \in IfMaps
    BY DEF IInv, TypeOK
  <2> HIDE DEF old
  <2>2. PICK V \in SUBSET (0 .. MaxVifs - 1) : old \in [V -> Ifs]
    BY <2>1 DEF IfMaps
  <2> DEFINE W == {w \in DOMAIN old : old[w] \notin deleted}
  <2>3. W \in SUBSET (0 .. MaxVifs - 1) /\ rest \in [W -> Ifs]
    BY <2>2
  <2>4. QED
    <3> HIDE DEF rest, W
    <3>1. QED
      BY <2>3 DEF IfMaps
<1> HIDE DEF rest
<1>5. TypeOK'
  <2>1. phase' \in [Insts -> Phases]
    BY <1>1 DEF IInv, TypeOK, Phases
  <2>2. queue' \in [Insts -> SUBSET (Message \cup {ExitMessage})]
    BY <1>1 DEF IInv, TypeOK
  <2>3. /\ m_upstreams' \in [Insts -> SUBSET [if : Ifs, priority : Nat]]
        /\ m_downstreams' \in [Insts -> SUBSET Ifs]
        /\ m_added_ifs' \in [Insts -> SUBSET Ifs]
        /\ m_relevant_if_index' \in [Insts -> SUBSET Ifs]
    BY <1>1 DEF IInv, TypeOK
  <2>4. vifs' \in [Tables -> IfMaps] /\ mrules' \subseteq Ifs \X Tables
    BY <1>3, <1>4 DEF IInv, TypeOK
  <2>5. QED
    BY <1>1, <2>1, <2>2, <2>3, <2>4 DEF IInv, TypeOK, conf, ifaces
<1>6. phase'[i] = "stopping" /\ \A j \in Insts : j # i => phase'[j] = phase[j]
  BY <1>1 DEF IInv, TypeOK
<1>7. Stages'
  <2>1. InstSet' = InstSet
    BY <1>1 DEF conf, InstSet
  <2>2. \A j \in Insts : j < next => j # i
    BY <1>14 DEF Insts
  <2>3. main = "destroy" => \A j \in Insts : j < next' => Gone(j)'
    BY <1>1, <1>6, <2>2 DEF IInv, Stages, Gone
  <2>4. \A j \in Insts : phase'[j] # "none" => j \in InstSet'
    BY <1>1, <1>6, <2>1 DEF IInv, Stages
  <2>5. QED
    BY <1>1, <1>14, <1>6, <2>1, <2>3, <2>4 DEF Stages, Used
<1>8. TablesApart'
  <2>1. \A j \in Insts : phase'[j] \in Used => phase[j] \in Used
    BY <1>1, <1>6 DEF Used
  <2>2. \A t \in Tables : t # number[i] => vifs'[t] = vifs[t]
    BY <1>3 DEF IInv, TypeOK
  <2>3. \A j \in Insts : phase[j] \in {"alive", "stopping"} => phase'[j] \in {"alive", "stopping"}
    BY <1>6
  <2>4. QED
    BY <1>1, <1>6, <2>1, <2>2, <2>3 DEF IInv, TablesApart
<1>9. \A j \in Insts : Configured(j)' => Configured(j)
  <2>1. \A j \in Insts : phase'[j] \in Used => phase[j] \in Used
    BY <1>1, <1>6 DEF Used
  <2>2. QED
    BY <1>1, <2>1, ConfiguredFrame
<1>10. FlagsNoted'
  BY <1>1, <1>9, FlagsFrame DEF IInv, ifaces
<1>11. MapsOK'
  BY <1>1, <1>9, MapsFrame DEF IInv, ifaces
<1>12. Progress'
  <2>1. ASSUME NEW j \in Insts, phase'[j] = "alive" PROVE phase[j] = "alive" /\ Kept(j)
    <3>1. j # i /\ phase[j] = "alive"
      BY <1>6, <2>1
    <3>2. \A t \in Tables : t # number[i] => vifs'[t] = vifs[t]
      BY <1>3 DEF IInv, TypeOK
    <3>3. phase[i] \in Used /\ phase[j] \in Used
      BY <1>1, <3>1 DEF Used
    <3>4. vifs'[number'[j]] = vifs[number[j]]
      BY <1>1, <3>1, <3>2, <3>3, OthersKept
    <3>5. QED
      BY <1>1, <3>1, <3>4 DEF Kept, Started, IInv, TypeOK
  <2>2. QED
    BY <1>1, <2>1, ProgressFrame DEF IInv, ifaces
<1>13. QED
  BY <1>5, <1>7, <1>8, <1>10, <1>11, <1>12 DEF IInv

(* The sockets close: the table is empty and free for others soon.         *)
LEMMA JoinReceiverStep == ASSUME IInv, NEW i \in Insts, JoinReceiver(i) PROVE IInv'
<1>1. /\ UNCHANGED <<conf, main, next, m_running, signals, table_number, ifaces, rp_filter,
                     mrules, refused_vifs, number, worker, receiver, queue, current,
                     m_upstreams, m_downstreams, rule, m_added_ifs, m_relevant_if_index, crashed>>
      /\ Destroying(i) /\ phase[i] = "stopping"
      /\ phase' = [phase EXCEPT ![i] = "dying"]
      /\ vifs' = [vifs EXCEPT ![number[i]] = <<>>]
  BY DEF JoinReceiver
<1>14. /\ i = next /\ main \in {"destroy", "unwind"}
       /\ main = "unwind" => worker[i] # "none"
  BY <1>1 DEF Destroying
<1>2. phase'[i] = "dying" /\ \A j \in Insts : j # i => phase'[j] = phase[j]
  BY <1>1 DEF IInv, TypeOK
<1>3. /\ number[i] \in Tables /\ vifs'[number[i]] = <<>>
      /\ \A t \in Tables : t # number[i] => vifs'[t] = vifs[t]
  BY <1>1 DEF IInv, TypeOK
<1>4. TypeOK'
  <2>1. phase' \in [Insts -> Phases]
    BY <1>1 DEF IInv, TypeOK, Phases
  <2>2. <<>> \in IfMaps
    <3>1. <<>> \in [{} -> Ifs] /\ {} \in SUBSET (0 .. MaxVifs - 1)
      OBVIOUS
    <3>2. QED
      BY <3>1 DEF IfMaps
  <2>3. vifs' \in [Tables -> IfMaps]
    BY <1>1, <2>2 DEF IInv, TypeOK
  <2>4. QED
    BY <1>1, <2>1, <2>3 DEF IInv, TypeOK, conf, ifaces
<1>5. Stages'
  <2>1. InstSet' = InstSet
    BY <1>1 DEF conf, InstSet
  <2>2. \A j \in Insts : j < next => j # i
    BY <1>14 DEF Insts
  <2>3. main = "destroy" => \A j \in Insts : j < next' => Gone(j)'
    BY <1>1, <1>2, <2>2 DEF IInv, Stages, Gone
  <2>4. \A j \in Insts : phase'[j] # "none" => j \in InstSet'
    BY <1>1, <1>2, <2>1 DEF IInv, Stages
  <2>5. QED
    BY <1>1, <1>14, <1>2, <2>1, <2>3, <2>4 DEF Stages, Used
<1>6. \A j \in Insts : phase'[j] \in Used => phase[j] \in Used
  BY <1>1, <1>2 DEF Used
<1>7. TablesApart'
  <2>1. ASSUME NEW t \in Tables
        PROVE  \/ \E j \in Insts : phase'[j] \in {"alive", "stopping"} /\ number'[j] = t
               \/ vifs'[t] = <<>>
    <3>1. CASE t = number[i]
      BY <1>3, <3>1
    <3>2. CASE t # number[i] /\ vifs[t] = <<>>
      BY <1>3, <3>2
    <3>3. CASE t # number[i] /\ \E j \in Insts : phase[j] \in {"alive", "stopping"} /\ number[j] = t
      BY <1>1, <1>2, <3>3
    <3>4. QED
      BY <3>1, <3>2, <3>3 DEF IInv, TablesApart
  <2>2. QED
    BY <1>1, <1>6, <2>1 DEF IInv, TablesApart
<1>8. \A j \in Insts : Configured(j)' => Configured(j)
  BY <1>1, <1>6, ConfiguredFrame
<1>9. FlagsNoted'
  BY <1>1, <1>8, FlagsFrame DEF IInv, ifaces
<1>10. MapsOK'
  BY <1>1, <1>8, MapsFrame DEF IInv, ifaces
<1>11. Progress'
  <2>1. ASSUME NEW j \in Insts, phase'[j] = "alive" PROVE phase[j] = "alive" /\ Kept(j)
    <3>1. j # i /\ phase[j] = "alive"
      BY <1>2, <2>1
    <3>2. phase[i] \in Used /\ phase[j] \in Used
      BY <1>1, <3>1 DEF Used
    <3>3. vifs'[number'[j]] = vifs[number[j]]
      BY <1>1, <1>3, <3>1, <3>2, OthersKept
    <3>4. QED
      BY <1>1, <3>1, <3>3 DEF Kept, Started
  <2>2. QED
    BY <1>1, <2>1, ProgressFrame DEF IInv, ifaces
<1>12. QED
  BY <1>4, <1>5, <1>7, <1>9, <1>10, <1>11 DEF IInv

(* The worker has ended, and so does the instance.                         *)
LEMMA JoinWorkerStep == ASSUME IInv, NEW i \in Insts, JoinWorker(i) PROVE IInv'
<1>1. /\ UNCHANGED <<conf, m_running, signals, table_number, ifaces, kernel, number,
                     worker, receiver, queue, current, m_upstreams, m_downstreams, rule,
                     m_added_ifs, m_relevant_if_index, crashed>>
      /\ i = next /\ main \in {"destroy", "unwind"} /\ main' = "destroy"
      /\ phase[i] = "dying"
      /\ phase' = [phase EXCEPT ![i] = "destroyed"]
      /\ next' = IF main = "unwind" THEN 1 ELSE next + 1
  BY DEF JoinWorker, Destroying
<1>2. phase'[i] = "destroyed" /\ \A j \in Insts : j # i => phase'[j] = phase[j]
  BY <1>1 DEF IInv, TypeOK
<1>3. MaxInsts \in Nat /\ next \in Insts
  BY <1>1, LifecycleAssumption
<1>4. TypeOK'
  <2>1. phase' \in [Insts -> Phases]
    BY <1>1 DEF IInv, TypeOK, Phases
  <2>2. next' \in 1 .. MaxInsts + 1
    BY <1>1, <1>3 DEF Insts
  <2>3. QED
    BY <1>1, <2>1, <2>2 DEF IInv, TypeOK, conf, ifaces, kernel, MainStates
<1>5. Stages'
  <2>1. InstSet' = InstSet
    BY <1>1 DEF conf, InstSet
  <2>2. \A j \in Insts : (j < next + 1 => j < next \/ j = i) /\ ~(j < 1)
    BY <1>1, <1>3 DEF Insts
  <2>3. \A j \in Insts : j < next' => Gone(j)'
    BY <1>1, <1>2, <2>2 DEF IInv, Stages, Gone
  <2>4. QED
    BY <1>1, <1>2, <2>1, <2>3 DEF IInv, Stages
<1>6. \A j \in Insts : phase'[j] \in Used => phase[j] \in Used
  BY <1>1, <1>2 DEF Used
<1>7. TablesApart'
  <2>1. \A j \in Insts : phase[j] \in {"alive", "stopping"} => phase'[j] \in {"alive", "stopping"}
    BY <1>1, <1>2
  <2>2. QED
    BY <1>1, <1>6, <2>1 DEF IInv, TablesApart, kernel
<1>8. \A j \in Insts : Configured(j)' => Configured(j)
  BY <1>1, <1>6, ConfiguredFrame
<1>9. FlagsNoted'
  BY <1>1, <1>8, FlagsFrame DEF IInv, ifaces, kernel
<1>10. MapsOK'
  BY <1>1, <1>8, MapsFrame DEF IInv, ifaces
<1>11. Progress'
  <2>1. \A j \in Insts : phase'[j] = "alive" => phase[j] = "alive" /\ Kept(j)
    BY <1>1, <1>2 DEF Kept, Started, kernel
  <2>2. QED
    BY <1>1, <2>1, ProgressFrame DEF IInv, ifaces
<1>12. QED
  BY <1>4, <1>5, <1>7, <1>9, <1>10, <1>11 DEF IInv

(***************************************************************************)
(* The workers                                                             *)
(***************************************************************************)
(* dequeue of anything but an exit command.                                *)
LEMMA TakeStep ==
    ASSUME IInv, NEW i \in Insts, NEW msg \in queue[i], TakeMessage(i, msg)
    PROVE  IInv'
<1>1. /\ UNCHANGED <<conf, main, next, m_running, signals, table_number, ifaces, kernel,
                     phase, number, receiver, m_upstreams, m_downstreams, rule, m_added_ifs,
                     m_relevant_if_index, crashed>>
      /\ worker[i] = "running" /\ ExitMessage \notin queue[i]
      /\ queue' = [queue EXCEPT ![i] = @ \ {msg}]
      /\ current' = [current EXCEPT ![i] = {msg}]
      /\ worker' = [worker EXCEPT ![i] = "handling"]
  BY DEF TakeMessage
<1>2. /\ queue'[i] = queue[i] \ {msg} /\ current'[i] = {msg} /\ worker'[i] = "handling"
      /\ \A j \in Insts : j # i => /\ queue'[j] = queue[j] /\ current'[j] = current[j]
                                  /\ worker'[j] = worker[j]
  BY <1>1 DEF IInv, TypeOK
<1>3. TypeOK'
  <2>1. msg \in Message
    BY <1>1 DEF IInv, TypeOK
  <2>2. queue' \in [Insts -> SUBSET (Message \cup {ExitMessage})]
    BY <1>1 DEF IInv, TypeOK
  <2>3. current' \in [Insts -> SUBSET Message]
    BY <1>1, <2>1 DEF IInv, TypeOK
  <2>4. worker' \in [Insts -> {"none", "running", "handling", "ended"}]
    BY <1>1 DEF IInv, TypeOK
  <2>5. QED
    BY <1>1, <2>2, <2>3, <2>4 DEF IInv, TypeOK, conf, ifaces, kernel
<1>4. Stages'
  <2>1. InstSet' = InstSet /\ \A j \in Insts : Working(j) => Working(j)'
    BY <1>1, <1>2 DEF conf, InstSet, Working
  <2>2. \A j \in Insts : Gone(j)' = Gone(j)
    BY <1>1 DEF Gone
  <2>3. \A j \in InstSet : j \in Insts
    BY DefinitionFacts DEF IInv, TypeOK
  <2>4. defs' = defs /\ vifs' = vifs
    BY <1>1 DEF conf, kernel
  <2>5. \A j \in Insts : worker'[j] = "none" => worker[j] = "none"
    BY <1>2
  <2>6. QED
    BY <1>1, <2>1, <2>2, <2>3, <2>4, <2>5 DEF IInv, Stages
<1>5. TablesApart'
  BY <1>1 DEF IInv, TablesApart, kernel
<1>6. \A j \in Insts : Configured(j)' => Configured(j)
  BY <1>1, ConfiguredFrame
<1>7. FlagsNoted'
  BY <1>1, <1>6, FlagsFrame DEF IInv, kernel, ifaces
<1>8. MapsOK'
  BY <1>1, <1>6, MapsFrame DEF IInv, ifaces
<1>9. Progress'
  <2> SUFFICES ASSUME NEW j \in Insts, phase'[j] = "alive"
               PROVE  Messages(j)' /\ Roles(j)' /\ Registered(j)'
    BY DEF Progress
  <2>1. phase[j] = "alive" /\ Messages(j) /\ Roles(j) /\ Registered(j)
    BY <1>1 DEF IInv, Progress
  <2>2. CASE j # i
    <3>1. Kept(j)
      BY <1>1, <1>2, <2>2 DEF Kept, Started, kernel
    <3>2. QED
      BY <1>1, <2>1, <3>1, InstanceKept DEF ifaces
  <2>3. CASE j = i
    <3>1. /\ defs' = defs /\ m_if_vif' = m_if_vif /\ m_vif_if' = m_vif_if /\ vifs' = vifs
          /\ refused_vifs' = refused_vifs
      BY <1>1 DEF conf, ifaces, kernel
    <3>2. \A x : is_upstream(i, x)' = is_upstream(i, x) /\ is_downstream(i, x)' = is_downstream(i, x)
      BY <1>1 DEF is_upstream, is_downstream
    <3>3. \A m : Done(i, m)' = Done(i, m)
      BY <1>1, <3>1, <3>2 DEF Done, UpstreamSettings
    <3>4. Messages(i)'
      BY <1>1, <1>2, <2>1, <2>3, <3>1, <3>3 DEF Messages, Started
    <3>5. Roles(i)'
      BY <1>1, <2>1, <2>3, <3>1 DEF Roles
    <3>6. Registered(i)'
      BY <1>1, <2>1, <2>3, <3>1, <3>2 DEF Registered
    <3>7. QED
      BY <2>3, <3>4, <3>5, <3>6
  <2>4. QED
    BY <2>2, <2>3
<1>10. QED
  BY <1>3, <1>4, <1>5, <1>7, <1>8, <1>9 DEF IInv

(* No worker ends before the main thread has left its loop.                *)
LEMMA ExitStep == ASSUME IInv, NEW i \in Insts, HandleExit(i) PROVE IInv'
<1>1. /\ UNCHANGED <<conf, main, next, m_running, signals, table_number, ifaces, kernel,
                     phase, number, receiver, current, m_upstreams, m_downstreams, rule,
                     m_added_ifs, m_relevant_if_index, crashed>>
      /\ worker[i] = "running" /\ ExitMessage \in queue[i]
      /\ queue' = [queue EXCEPT ![i] = @ \ {ExitMessage}]
      /\ worker' = [worker EXCEPT ![i] = "ended"]
  BY DEF HandleExit
<1>2. /\ queue'[i] = queue[i] \ {ExitMessage} /\ worker'[i] = "ended"
      /\ \A j \in Insts : j # i => queue'[j] = queue[j] /\ worker'[j] = worker[j]
  BY <1>1 DEF IInv, TypeOK
<1>3. TypeOK'
  <2>1. queue' \in [Insts -> SUBSET (Message \cup {ExitMessage})]
    BY <1>1 DEF IInv, TypeOK
  <2>2. worker' \in [Insts -> {"none", "running", "handling", "ended"}]
    BY <1>1 DEF IInv, TypeOK
  <2>3. QED
    BY <1>1, <2>1, <2>2 DEF IInv, TypeOK, conf, ifaces, kernel
<1>4. Stages'
  <2>1. InstSet' = InstSet /\ \A j \in Insts : Working(j) => Working(j)'
    BY <1>1, <1>2 DEF conf, InstSet, Working
  <2>2. \A j \in Insts : Gone(j)' = Gone(j)
    BY <1>1 DEF Gone
  <2>3. \A j \in InstSet : j \in Insts
    BY DefinitionFacts DEF IInv, TypeOK
  <2>4. defs' = defs /\ vifs' = vifs
    BY <1>1 DEF conf, kernel
  <2>5. \A j \in Insts : worker'[j] = "none" => worker[j] = "none"
    BY <1>2
  <2>6. QED
    BY <1>1, <2>1, <2>2, <2>3, <2>4, <2>5 DEF IInv, Stages
<1>5. TablesApart'
  BY <1>1 DEF IInv, TablesApart, kernel
<1>6. \A j \in Insts : Configured(j)' => Configured(j)
  BY <1>1, ConfiguredFrame
<1>7. FlagsNoted'
  BY <1>1, <1>6, FlagsFrame DEF IInv, kernel, ifaces
<1>8. MapsOK'
  BY <1>1, <1>6, MapsFrame DEF IInv, ifaces
<1>9. Progress'
  <2> SUFFICES ASSUME NEW j \in Insts, phase'[j] = "alive"
               PROVE  Messages(j)' /\ Roles(j)' /\ Registered(j)'
    BY DEF Progress
  <2>1. phase[j] = "alive" /\ Messages(j) /\ Roles(j) /\ Registered(j) /\ j \in InstSet
    BY <1>1 DEF IInv, Progress, Stages
  <2>2. CASE j # i
    <3>1. Kept(j)
      BY <1>1, <1>2, <2>2 DEF Kept, Started, kernel
    <3>2. QED
      BY <1>1, <2>1, <3>1, InstanceKept DEF ifaces
  <2>3. CASE j = i
    <3>1. /\ defs' = defs /\ m_if_vif' = m_if_vif /\ m_vif_if' = m_vif_if /\ vifs' = vifs
          /\ refused_vifs' = refused_vifs
      BY <1>1 DEF conf, ifaces, kernel
    <3>2. \A x : is_upstream(i, x)' = is_upstream(i, x) /\ is_downstream(i, x)' = is_downstream(i, x)
      BY <1>1 DEF is_upstream, is_downstream
    <3>3. \A m : Done(i, m)' = Done(i, m)
      BY <1>1, <3>1, <3>2 DEF Done, UpstreamSettings
    <3>4. ExitMessage \notin ConfigMessages(defs[i])
      BY <2>1, <2>3, MessageFacts DEF IInv, TypeOK
    <3>5. Messages(i)'
      BY <1>1, <1>2, <2>1, <2>3, <3>1, <3>3, <3>4 DEF Messages, Started
    <3>6. Roles(i)'
      BY <1>1, <2>1, <2>3, <3>1 DEF Roles
    <3>7. Registered(i)'
      BY <1>1, <2>1, <2>3, <3>1, <3>2 DEF Registered
    <3>8. QED
      BY <2>3, <3>5, <3>6, <3>7
  <2>4. QED
    BY <2>2, <2>3
<1>10. QED
  BY <1>3, <1>4, <1>5, <1>7, <1>8, <1>9 DEF IInv

(* What Register has to achieve: the interface x of instance i is known to *)
(* the receiver and has its virtual interface, and no other table changed. *)
Registers(i, x) ==
    /\ vifs' \in [Tables -> IfMaps]
    /\ mrules' \subseteq Ifs \X Tables
    /\ m_added_ifs' \in [Insts -> SUBSET Ifs]
    /\ m_relevant_if_index' = [m_relevant_if_index EXCEPT ![i] = @ \cup {x}]
    /\ \A t \in Tables : t # number[i] => vifs'[t] = vifs[t]
    /\ refused_vifs' \in [Insts -> SUBSET Ifs]
    /\ \A j \in Insts : j # i => refused_vifs'[j] = refused_vifs[j]
    /\ vifs'[number[i]] =
          [v \in {m_if_vif[i][y] : y \in (m_relevant_if_index[i] \cup {x}) \ refused_vifs'[i]}
               |-> m_vif_if[i][v]]

(* Register: an interface with another role has been registered for it.    *)
LEMMA RegisterEffect ==
    ASSUME IInv, NEW i \in Insts, phase[i] = "alive", NEW x \in UsedIfs(i),
           NEW other_role \in BOOLEAN, other_role <=> x \in m_relevant_if_index[i],
           Register(i, x, other_role)
    PROVE  Registers(i, x)
<1>1. i \in InstSet /\ Configured(i) /\ Registered(i)
  BY DEF IInv, Stages, Configured, Used, Progress
<1>2. InverseMaps(m_if_vif[i], m_vif_if[i], UsedIfs(i))
  BY <1>1 DEF IInv, MapsOK
<1> DEFINE v0 == m_if_vif[i][x]
           R == m_relevant_if_index[i]
           D == {m_if_vif[i][y] : y \in R \ refused_vifs[i]}
<1>3. v0 \in DOMAIN m_vif_if[i] /\ m_vif_if[i][v0] = x
  BY <1>2 DEF InverseMaps
<1>4. /\ number[i] \in Tables /\ vifs \in [Tables -> IfMaps] /\ mrules \subseteq Ifs \X Tables
      /\ m_added_ifs \in [Insts -> SUBSET Ifs] /\ refused_vifs \in [Insts -> SUBSET Ifs]
      /\ m_relevant_if_index \in [Insts -> SUBSET Ifs] /\ m_vif_if[i] \in IfMaps
  BY DEF IInv, TypeOK
<1>5. v0 \in Vifs /\ x \in Ifs
  <2> DEFINE f == m_vif_if[i]
  <2>1. PICK V \in SUBSET (0 .. MaxVifs - 1) : f \in [V -> Ifs]
    <3> HIDE DEF f
    <3>1. QED
      BY <1>4 DEF IfMaps, f
  <2>2. v0 \in V /\ f[v0] = x
    BY <1>3, <2>1
  <2>3. QED
    BY <2>1, <2>2 DEF Vifs
<1>6. vifs[number[i]] = [v \in D |-> m_vif_if[i][v]]
  BY <1>1 DEF Registered
<1>7. CASE other_role
  <2>1. UNCHANGED <<vifs, m_added_ifs, mrules, refused_vifs, m_relevant_if_index>>
    BY <1>7 DEF Register, registered
  <2>2. m_relevant_if_index[i] \cup {x} = m_relevant_if_index[i]
    BY <1>7
  <2>3. m_relevant_if_index' = [m_relevant_if_index EXCEPT ![i] = @ \cup {x}]
    BY <1>4, <2>1, <2>2
  <2>4. QED
    BY <1>4, <1>6, <2>1, <2>2, <2>3 DEF Registers
<1>8. CASE ~other_role
  <2>1. add_vif(i, x) /\ registrate_interface(i, x)
    BY <1>8 DEF Register
  <2>2. PICK result \in {"added", "unbound", "refused"} :
        /\ vifs' = IF result = "refused" THEN vifs ELSE [vifs EXCEPT ![number[i]] = Add(@, v0, x)]
        /\ m_added_ifs' = [m_added_ifs EXCEPT ![i] =
                              IF result = "refused" \/ x \in Tunnels THEN @ ELSE @ \cup {x}]
        /\ mrules' = IF number[i] > 0 /\ result = "added" THEN mrules \cup {<<x, number[i]>>}
                     ELSE mrules
        /\ refused_vifs' = [refused_vifs EXCEPT ![i] =
                               IF result = "refused" THEN @ \cup {x} ELSE @ \ {x}]
    BY <2>1 DEF add_vif, kernel_add_vif, bind_vif_to_table
  <2>3. m_relevant_if_index' = [m_relevant_if_index EXCEPT ![i] = @ \cup {x}]
    BY <2>1 DEF registrate_interface
  <2>4. /\ m_added_ifs' \in [Insts -> SUBSET Ifs] /\ refused_vifs' \in [Insts -> SUBSET Ifs]
        /\ \A j \in Insts : j # i => refused_vifs'[j] = refused_vifs[j]
        /\ refused_vifs'[i] = IF result = "refused" THEN refused_vifs[i] \cup {x}
                              ELSE refused_vifs[i] \ {x}
    BY <1>4, <1>5, <2>2
  <2>5. mrules' \subseteq Ifs \X Tables
    BY <1>4, <1>5, <2>2
  <2> DEFINE old == vifs[number[i]]
  <2>6. old \in IfMaps
    BY <1>4
  <2>7. CASE result = "refused"
    <3>1. (R \cup {x}) \ refused_vifs'[i] = R \ refused_vifs[i]
      BY <1>8, <2>4, <2>7
    <3>2. vifs' = vifs
      BY <2>2, <2>7
    <3>3. QED
      BY <1>4, <1>6, <2>3, <2>4, <2>5, <3>1, <3>2 DEF Registers
  <2>8. CASE result # "refused"
    <3>1. (R \cup {x}) \ refused_vifs'[i] = (R \ refused_vifs[i]) \cup {x}
      BY <2>4, <2>8
    <3>2. {m_if_vif[i][y] : y \in (R \cup {x}) \ refused_vifs'[i]} = D \cup {v0}
      BY <3>1
    <3>3. vifs' = [vifs EXCEPT ![number[i]] = Add(old, v0, x)]
      BY <2>2, <2>8
    <3>4. DOMAIN old = D /\ \A v \in D : old[v] = m_vif_if[i][v]
      BY <1>6
    <3> HIDE DEF D, old, v0, R
    <3>5. Add(old, v0, x) = [v \in D \cup {v0} |-> m_vif_if[i][v]]
      <4>1. \A v \in D \cup {v0} : (IF v = v0 THEN x ELSE old[v]) = m_vif_if[i][v]
        BY <1>3, <3>4
      <4>2. QED
        BY <3>4, <4>1 DEF Add
    <3>6. Add(old, v0, x) \in IfMaps
      BY <1>5, <2>6, AddType
    <3>7. /\ vifs'[number[i]] = Add(old, v0, x) /\ vifs' \in [Tables -> IfMaps]
          /\ \A t \in Tables : t # number[i] => vifs'[t] = vifs[t]
      BY <1>4, <3>3, <3>6
    <3>8. QED
      BY <2>3, <2>4, <2>5, <3>2, <3>5, <3>7 DEF Registers, R
  <2>9. QED
    BY <2>7, <2>8
<1>9. QED
  BY <1>7, <1>8

(* The message msg of instance i has been handled.                         *)
Handles(i, msg) ==
    /\ vifs' \in [Tables -> IfMaps]
    /\ mrules' \subseteq Ifs \X Tables
    /\ m_added_ifs' \in [Insts -> SUBSET Ifs]
    /\ m_relevant_if_index' \in [Insts -> SUBSET Ifs]
    /\ m_upstreams' \in [Insts -> SUBSET [if : Ifs, priority : Nat]]
    /\ m_downstreams' \in [Insts -> SUBSET Ifs]
    /\ rule' \in [Insts -> [Directions -> Rules]]
    /\ \A t \in Tables : t # number[i] => vifs'[t] = vifs[t]
    /\ \A j \in Insts : j # i => /\ m_upstreams'[j] = m_upstreams[j]
                                /\ m_downstreams'[j] = m_downstreams[j]
                                /\ rule'[j] = rule[j]
                                /\ m_relevant_if_index'[j] = m_relevant_if_index[j]
                                /\ refused_vifs'[j] = refused_vifs[j]
    /\ refused_vifs' \in [Insts -> SUBSET Ifs]
    /\ Roles(i)' /\ Registered(i)' /\ Done(i, msg)'
    /\ \A m \in ConfigMessages(defs[i]) : Done(i, m) => Done(i, m)'

(* Nothing to do, since the interface has the role already.                *)
LEMMA AlreadyDone ==
    ASSUME IInv, NEW i \in Insts, phase[i] = "alive", NEW msg, Done(i, msg),
           UNCHANGED <<conf, ifaces, number, m_upstreams, m_downstreams, rule, vifs, m_added_ifs,
                       mrules, refused_vifs, m_relevant_if_index>>
    PROVE  Handles(i, msg)
<1>1. Roles(i) /\ Registered(i)
  BY DEF IInv, Progress
<1>2. defs' = defs /\ m_if_vif' = m_if_vif /\ m_vif_if' = m_vif_if
  BY DEF conf, ifaces
<1>3. \A x : is_upstream(i, x)' = is_upstream(i, x) /\ is_downstream(i, x)' = is_downstream(i, x)
  BY DEF is_upstream, is_downstream
<1>4. \A m : Done(i, m)' = Done(i, m)
  BY <1>2, <1>3 DEF Done, UpstreamSettings
<1>5. Roles(i)'
  BY <1>1, <1>2 DEF Roles
<1>6. Registered(i)'
  BY <1>1, <1>2, <1>3 DEF Registered
<1>7. QED
  BY <1>4, <1>5, <1>6 DEF Handles, IInv, TypeOK

(* A new upstream; it may be a downstream already.                         *)
LEMMA UpstreamHandled ==
    ASSUME IInv, NEW i \in Insts, phase[i] = "alive", NEW msg \in ConfigMessages(defs[i]),
           msg.type = "ADD_UPSTREAM", AddUpstream(i, msg), UNCHANGED <<conf, ifaces, number>>
    PROVE  Handles(i, msg)
<1>1. i \in InstSet /\ Roles(i) /\ Registered(i)
  BY DEF IInv, Progress, Stages
<1>2. defs' = defs /\ m_if_vif' = m_if_vif /\ m_vif_if' = m_vif_if
  BY DEF conf, ifaces
<1>3. PICK k \in DOMAIN defs[i].up : msg.if = defs[i].up[k] /\ msg.priority = 100 * (k - 1)
  BY <1>1, MessageFacts DEF IInv, TypeOK
<1> DEFINE x == msg.if
           u0 == [if |-> msg.if, priority |-> msg.priority]
<1>4. x \in UsedIfs(i)
  BY <1>3 DEF UsedIfs
<1>5. x \in Ifs /\ msg.priority \in Nat
  <2>1. defs[i].up \in Seq(Ifs)
    BY <1>1, DefinitionFacts DEF IInv, TypeOK
  <2>2. k \in Nat \ {0} /\ defs[i].up[k] \in Ifs
    BY <2>1
  <2>3. QED
    BY <1>3, <2>2
<1>6. CASE is_upstream(i, x)
  <2>1. UNCHANGED <<m_upstreams, m_downstreams, rule, vifs, m_added_ifs, mrules,
                    refused_vifs, m_relevant_if_index>>
    BY <1>6 DEF AddUpstream, registered
  <2>2. Done(i, msg)
    BY <1>6 DEF Done
  <2>3. QED
    BY <2>1, <2>2, AlreadyDone
<1>7. CASE ~is_upstream(i, x)
  <2>1. /\ Register(i, x, is_downstream(i, x))
        /\ m_upstreams' = [m_upstreams EXCEPT ![i] = @ \cup {u0}]
        /\ m_downstreams' = m_downstreams /\ rule' = rule
    BY <1>7 DEF AddUpstream
  <2>2. is_downstream(i, x) <=> x \in m_relevant_if_index[i]
    BY <1>1, <1>5, <1>7 DEF Registered
  <2>3. Registers(i, x)
    <3>1. PICK o \in BOOLEAN : o = is_downstream(i, x)
      <4>1. is_downstream(i, x) \in BOOLEAN
        BY DEF is_downstream
      <4>2. QED
        BY <4>1
    <3>2. Register(i, x, o) /\ (o <=> x \in m_relevant_if_index[i])
      BY <2>1, <2>2, <3>1
    <3>3. QED
      BY <1>4, <3>2, RegisterEffect
  <2>4. /\ m_upstreams'[i] = m_upstreams[i] \cup {u0}
        /\ \A j \in Insts : j # i => m_upstreams'[j] = m_upstreams[j]
        /\ m_upstreams' \in [Insts -> SUBSET [if : Ifs, priority : Nat]]
    BY <1>5, <2>1 DEF IInv, TypeOK
  <2>5. /\ m_relevant_if_index'[i] = m_relevant_if_index[i] \cup {x}
        /\ \A j \in Insts : j # i => m_relevant_if_index'[j] = m_relevant_if_index[j]
        /\ m_relevant_if_index' \in [Insts -> SUBSET Ifs]
    BY <1>5, <2>3 DEF IInv, TypeOK, Registers
  <2>6. /\ u0.if = x /\ u0.priority = msg.priority
        /\ \A u \in m_upstreams[i] : u.if # x
    BY <1>7 DEF is_upstream
  <2> HIDE DEF u0, x
  <2>7. \A y : /\ is_upstream(i, y)' <=> is_upstream(i, y) \/ y = x
               /\ is_downstream(i, y)' <=> is_downstream(i, y)
    BY <2>1, <2>4, <2>6 DEF is_upstream, is_downstream
  <2>8. Roles(i)'
    <3>1. \A u \in m_upstreams'[i] :
             \E n \in DOMAIN defs[i].up : u.if = defs[i].up[n] /\ u.priority = 100 * (n - 1)
      BY <1>1, <1>3, <2>4, <2>6 DEF Roles, x
    <3>2. \A u, w \in m_upstreams'[i] : u.if = w.if => u = w
      BY <1>1, <2>4, <2>6 DEF Roles
    <3>3. QED
      BY <1>1, <1>2, <2>1, <3>1, <3>2 DEF Roles
  <2>9. Registered(i)'
    <3>1. \A y \in Ifs : y \in m_relevant_if_index'[i] <=> is_upstream(i, y)' \/ is_downstream(i, y)'
      BY <1>1, <2>5, <2>7 DEF Registered
    <3>2. QED
      BY <1>2, <2>3, <2>5, <3>1 DEF Registered, Registers
  <2>10. Done(i, msg)'
    BY <2>7 DEF Done, x
  <2>11. \A m \in ConfigMessages(defs[i]) : Done(i, m) => Done(i, m)'
    BY <1>2, <2>1, <2>7 DEF Done, UpstreamSettings
  <2>12. QED
    BY <2>1, <2>3, <2>4, <2>5, <2>8, <2>9, <2>10, <2>11 DEF Handles, Registers, IInv, TypeOK
<1>8. QED
  BY <1>6, <1>7

(* A new downstream with its querier; it may be an upstream already.       *)
LEMMA DownstreamHandled ==
    ASSUME IInv, NEW i \in Insts, phase[i] = "alive", NEW msg \in ConfigMessages(defs[i]),
           msg.type = "ADD_DOWNSTREAM", AddDownstream(i, msg), UNCHANGED <<conf, ifaces, number>>
    PROVE  Handles(i, msg)
<1>1. i \in InstSet /\ Roles(i) /\ Registered(i)
  BY DEF IInv, Progress, Stages
<1>2. defs' = defs /\ m_if_vif' = m_if_vif /\ m_vif_if' = m_vif_if
  BY DEF conf, ifaces
<1>3. PICK k \in DOMAIN defs[i].down : msg.if = defs[i].down[k]
  BY <1>1, MessageFacts DEF IInv, TypeOK
<1> DEFINE x == msg.if
<1>4. x \in UsedIfs(i)
  BY <1>3 DEF UsedIfs
<1>5. x \in Ifs
  <2>1. defs[i].down \in Seq(Ifs)
    BY <1>1, DefinitionFacts DEF IInv, TypeOK
  <2>2. QED
    BY <1>3, <2>1
<1>6. CASE is_downstream(i, x)
  <2>1. UNCHANGED <<m_upstreams, m_downstreams, rule, vifs, m_added_ifs, mrules,
                    refused_vifs, m_relevant_if_index>>
    BY <1>6 DEF AddDownstream, registered
  <2>2. Done(i, msg)
    BY <1>6 DEF Done
  <2>3. QED
    BY <2>1, <2>2, AlreadyDone
<1>7. CASE ~is_downstream(i, x)
  <2>1. /\ Register(i, x, is_upstream(i, x))
        /\ m_downstreams' = [m_downstreams EXCEPT ![i] = @ \cup {x}]
        /\ m_upstreams' = m_upstreams /\ rule' = rule
    BY <1>7 DEF AddDownstream
  <2>2. is_upstream(i, x) <=> x \in m_relevant_if_index[i]
    BY <1>1, <1>5, <1>7 DEF Registered
  <2>3. Registers(i, x)
    <3>1. PICK o \in BOOLEAN : o = is_upstream(i, x)
      <4>1. is_upstream(i, x) \in BOOLEAN
        BY DEF is_upstream
      <4>2. QED
        BY <4>1
    <3>2. Register(i, x, o) /\ (o <=> x \in m_relevant_if_index[i])
      BY <2>1, <2>2, <3>1
    <3>3. QED
      BY <1>4, <3>2, RegisterEffect
  <2>4. /\ m_downstreams'[i] = m_downstreams[i] \cup {x}
        /\ \A j \in Insts : j # i => m_downstreams'[j] = m_downstreams[j]
        /\ m_downstreams' \in [Insts -> SUBSET Ifs]
    BY <1>5, <2>1 DEF IInv, TypeOK
  <2>5. /\ m_relevant_if_index'[i] = m_relevant_if_index[i] \cup {x}
        /\ \A j \in Insts : j # i => m_relevant_if_index'[j] = m_relevant_if_index[j]
        /\ m_relevant_if_index' \in [Insts -> SUBSET Ifs]
    BY <1>5, <2>3 DEF IInv, TypeOK, Registers
  <2> HIDE DEF x
  <2>6. \A y : /\ is_downstream(i, y)' <=> is_downstream(i, y) \/ y = x
               /\ is_upstream(i, y)' <=> is_upstream(i, y)
    BY <2>1, <2>4 DEF is_upstream, is_downstream
  <2>7. Roles(i)'
    <3>1. \A y \in m_downstreams'[i] : \E n \in DOMAIN defs[i].down : y = defs[i].down[n]
      BY <1>1, <1>3, <2>4 DEF Roles, x
    <3>2. QED
      BY <1>1, <1>2, <2>1, <3>1 DEF Roles
  <2>8. Registered(i)'
    <3>1. \A y \in Ifs : y \in m_relevant_if_index'[i] <=> is_upstream(i, y)' \/ is_downstream(i, y)'
      BY <1>1, <2>5, <2>6 DEF Registered
    <3>2. QED
      BY <1>2, <2>3, <2>5, <3>1 DEF Registered, Registers
  <2>9. Done(i, msg)'
    BY <2>6 DEF Done, x
  <2>10. \A m \in ConfigMessages(defs[i]) : Done(i, m) => Done(i, m)'
    BY <1>2, <2>1, <2>6 DEF Done, UpstreamSettings
  <2>11. QED
    BY <2>1, <2>3, <2>4, <2>5, <2>7, <2>8, <2>9, <2>10 DEF Handles, Registers, IInv, TypeOK
<1>8. QED
  BY <1>6, <1>7

(* A rule: where the definition has one for the direction it stays.        *)
LEMMA RuleHandled ==
    ASSUME IInv, NEW i \in Insts, phase[i] = "alive", NEW msg \in ConfigMessages(defs[i]),
           msg.type = "SET_GLOBAL_RULE_BINDING", SetGlobalRuleBinding(i, msg),
           UNCHANGED <<conf, ifaces, number>>
    PROVE  Handles(i, msg)
<1>1. i \in InstSet /\ Roles(i) /\ Registered(i)
  BY DEF IInv, Progress, Stages
<1>2. defs' = defs /\ m_if_vif' = m_if_vif /\ m_vif_if' = m_vif_if
  BY DEF conf, ifaces
<1>3. <<msg.if_type, msg.direction, msg.rule>> \in defs[i].settings
  BY <1>1, MessageFacts DEF IInv, TypeOK
<1>4. msg.direction \in Directions /\ msg.rule \in Rules
  <2>1. defs[i].settings \subseteq IfTypes \X Directions \X Rules
    BY <1>1, DefinitionFacts DEF IInv, TypeOK
  <2>2. QED
    BY <1>3, <2>1
<1>5. /\ rule' = IF msg.if_type = "IT_UPSTREAM"
                 THEN [rule EXCEPT ![i][msg.direction] = msg.rule] ELSE rule
      /\ UNCHANGED <<m_upstreams, m_downstreams, vifs, m_added_ifs, mrules, refused_vifs,
                     m_relevant_if_index>>
  BY DEF SetGlobalRuleBinding, registered
<1>6. /\ rule' \in [Insts -> [Directions -> Rules]]
      /\ \A j \in Insts : j # i => rule'[j] = rule[j]
  BY <1>4, <1>5 DEF IInv, TypeOK
<1>7. \A d \in Directions : rule'[i][d] = IF msg.if_type = "IT_UPSTREAM" /\ d = msg.direction
                                          THEN msg.rule ELSE rule[i][d]
  BY <1>4, <1>5 DEF IInv, TypeOK
<1>8. \A x : is_upstream(i, x)' = is_upstream(i, x) /\ is_downstream(i, x)' = is_downstream(i, x)
  BY <1>5 DEF is_upstream, is_downstream
<1>9. Roles(i)'
  BY <1>1, <1>2, <1>5 DEF Roles
<1>10. Registered(i)'
  BY <1>1, <1>2, <1>5, <1>8 DEF Registered
<1>11. Done(i, msg)'
  BY <1>4, <1>7, <1>8 DEF Done
<1>12. ASSUME NEW m \in ConfigMessages(defs[i]), Done(i, m) PROVE Done(i, m)'
  <2>1. CASE m.type = "SET_GLOBAL_RULE_BINDING" /\ m.if_type = "IT_UPSTREAM"
    <3>1. m.direction \in Directions
      <4>1. <<m.if_type, m.direction, m.rule>> \in defs[i].settings
        BY <1>1, <2>1, MessageFacts DEF IInv, TypeOK
      <4>2. defs[i].settings \subseteq IfTypes \X Directions \X Rules
        BY <1>1, DefinitionFacts DEF IInv, TypeOK
      <4>3. QED
        BY <4>1, <4>2
    <3>2. ASSUME \A r \in UpstreamSettings(i) : r[2] = m.direction => r[3] = m.rule
          PROVE  rule'[i][m.direction] = m.rule
      <4>1. msg.if_type = "IT_UPSTREAM" /\ m.direction = msg.direction => msg.rule = m.rule
        <5> DEFINE s == <<msg.if_type, msg.direction, msg.rule>>
        <5>1. s \in defs[i].settings /\ s[1] = msg.if_type /\ s[2] = msg.direction /\ s[3] = msg.rule
          BY <1>3
        <5> HIDE DEF s
        <5>2. QED
          BY <3>2, <5>1 DEF UpstreamSettings
      <4>2. rule[i][m.direction] = m.rule
        BY <1>12, <2>1, <3>2 DEF Done
      <4>3. QED
        BY <1>7, <3>1, <4>1, <4>2
    <3>3. UpstreamSettings(i)' = UpstreamSettings(i)
      BY <1>2 DEF UpstreamSettings
    <3>4. QED
      BY <2>1, <3>2, <3>3 DEF Done
  <2>2. CASE ~(m.type = "SET_GLOBAL_RULE_BINDING" /\ m.if_type = "IT_UPSTREAM")
    BY <1>8, <1>12, <2>2 DEF Done
  <2>3. QED
    BY <2>1, <2>2
<1>13. QED
  BY <1>5, <1>6, <1>9, <1>10, <1>11, <1>12 DEF Handles, IInv, TypeOK

(* A message is handled, or comes too late for an instance being destroyed. *)
LEMMA HandleStep ==
    ASSUME IInv, NEW i \in Insts, NEW msg \in current[i], HandleMessage(i, msg)
    PROVE  IInv'
<1>1. /\ UNCHANGED <<conf, main, next, m_running, signals, table_number, ifaces, rp_filter,
                     phase, number, receiver, queue>>
      /\ worker[i] = "handling"
      /\ current' = [current EXCEPT ![i] = {}]
      /\ worker' = [worker EXCEPT ![i] = "running"]
  BY DEF HandleMessage
<1>2. /\ current'[i] = {} /\ worker'[i] = "running"
      /\ \A j \in Insts : j # i => current'[j] = current[j] /\ worker'[j] = worker[j]
      /\ current' \in [Insts -> SUBSET Message]
      /\ worker' \in [Insts -> {"none", "running", "handling", "ended"}]
  BY <1>1 DEF IInv, TypeOK
<1>3. phase[i] \in Used /\ crashed' \in BOOLEAN
  BY DEF HandleMessage, Used, IInv, TypeOK
<1>4. CASE phase[i] = "alive"
  <2>1. handle_config(i, msg)
    BY <1>4 DEF HandleMessage
  <2>2. i \in InstSet /\ Messages(i)
    BY <1>4 DEF IInv, Progress, Stages
  <2>3. msg \in ConfigMessages(defs[i])
    BY <2>2 DEF Messages
  <2>4. msg.type \in {"ADD_UPSTREAM", "ADD_DOWNSTREAM", "SET_GLOBAL_RULE_BINDING"}
    BY <2>2, <2>3, MessageFacts DEF IInv, TypeOK
  <2>5. UNCHANGED <<conf, ifaces, number>>
    BY <1>1
  <2>6. Handles(i, msg)
    <3>1. CASE msg.type = "ADD_UPSTREAM"
      <4>1. AddUpstream(i, msg)
        BY <2>1, <3>1 DEF handle_config
      <4>2. QED
        BY <1>4, <2>3, <2>5, <3>1, <4>1, UpstreamHandled
    <3>2. CASE msg.type = "ADD_DOWNSTREAM"
      <4>1. AddDownstream(i, msg)
        BY <2>1, <3>2 DEF handle_config
      <4>2. QED
        BY <1>4, <2>3, <2>5, <3>2, <4>1, DownstreamHandled
    <3>3. CASE msg.type = "SET_GLOBAL_RULE_BINDING"
      <4>1. SetGlobalRuleBinding(i, msg)
        BY <2>1, <3>3 DEF handle_config
      <4>2. QED
        BY <1>4, <2>3, <2>5, <3>3, <4>1, RuleHandled
    <3>4. QED
      BY <2>4, <3>1, <3>2, <3>3
  <2>7. TypeOK'
    BY <1>1, <1>2, <1>3, <2>6 DEF Handles, IInv, TypeOK, conf, ifaces
  <2>8. \A j \in Insts : j # i /\ phase[j] \in Used => vifs'[number'[j]] = vifs[number[j]]
    BY <1>1, <1>3, <2>6, OthersKept DEF Handles
  <2>9. Stages'
    <3>1. InstSet' = InstSet /\ \A j \in Insts : Working(j) => Working(j)'
      BY <1>1, <1>2 DEF conf, InstSet, Working
    <3>2. \A j \in Insts : Gone(j)' = Gone(j)
      BY <1>1 DEF Gone
    <3>3. \A j \in InstSet : j \in Insts
      BY DefinitionFacts DEF IInv, TypeOK
    <3>4. ASSUME main = "unwind", worker'[next] = "none"
          PROVE  worker[next] = "none" /\ vifs'[number'[next]] = <<>>
      <4>1. next \in Insts /\ phase[next] \in Used
        BY <3>4 DEF IInv, Stages
      <4>2. next # i /\ worker[next] = "none"
        BY <1>2, <3>4, <4>1
      <4>3. vifs[number[next]] = <<>>
        BY <3>4, <4>2 DEF IInv, Stages
      <4>4. QED
        BY <2>8, <4>1, <4>2, <4>3
    <3>5. defs' = defs
      BY <1>1 DEF conf
    <3>6. QED
      BY <1>1, <3>1, <3>2, <3>3, <3>4, <3>5 DEF IInv, Stages
  <2>10. TablesApart'
    BY <1>1, <1>4, <2>6 DEF IInv, TablesApart, Handles
  <2>11. Progress'
    <3> SUFFICES ASSUME NEW j \in Insts, phase'[j] = "alive"
                 PROVE  Messages(j)' /\ Roles(j)' /\ Registered(j)'
      BY DEF Progress
    <3>1. phase[j] = "alive" /\ Messages(j) /\ Roles(j) /\ Registered(j)
      BY <1>1 DEF IInv, Progress
    <3>2. CASE j # i
      <4>1. vifs'[number'[j]] = vifs[number[j]]
        BY <2>8, <3>1, <3>2 DEF Used
      <4>2. Kept(j)
        BY <1>1, <1>2, <2>6, <3>2, <4>1 DEF Kept, Started, Handles
      <4>3. QED
        BY <1>1, <3>1, <4>2, InstanceKept DEF ifaces
    <3>3. CASE j = i
      <4>1. defs' = defs
        BY <1>1 DEF conf
      <4>2. \A m \in current[i] : m = msg
        BY <2>2 DEF Messages
      <4>3. Started(i) => \A m \in ConfigMessages(defs[i]) : m \in queue[i] \/ Done(i, m)'
        BY <2>2, <2>6, <4>2 DEF Messages, Handles
      <4>4. Messages(i)'
        BY <1>1, <1>2, <2>2, <4>1, <4>3 DEF Messages, Started
      <4>5. QED
        BY <2>6, <3>3, <4>4 DEF Handles
    <3>4. QED
      BY <3>2, <3>3
  <2>12. \A j \in Insts : Configured(j)' => Configured(j)
    BY <1>1, ConfiguredFrame
  <2>13. main # "ended"
    BY <1>3 DEF IInv, Stages, Gone, Used
  <2>14. FlagsNoted' /\ MapsOK'
    BY <1>1, <2>12, <2>13, FlagsFrame, MapsFrame DEF IInv, ifaces
  <2>15. QED
    BY <2>7, <2>9, <2>10, <2>11, <2>14 DEF IInv
<1>5. CASE phase[i] # "alive"
  <2>1. UNCHANGED <<m_upstreams, m_downstreams, rule, vifs, m_added_ifs, mrules,
                    refused_vifs, m_relevant_if_index>>
    BY <1>5 DEF HandleMessage, registered
  <2>2. TypeOK'
    BY <1>1, <1>2, <1>3, <2>1 DEF IInv, TypeOK, conf, ifaces
  <2>3. Stages'
    <3>1. InstSet' = InstSet /\ \A j \in Insts : Working(j) => Working(j)'
      BY <1>1, <1>2 DEF conf, InstSet, Working
    <3>2. \A j \in Insts : Gone(j)' = Gone(j)
      BY <1>1 DEF Gone
    <3>3. \A j \in InstSet : j \in Insts
      BY DefinitionFacts DEF IInv, TypeOK
    <3>4. defs' = defs
      BY <1>1 DEF conf
    <3>5. \A j \in Insts : worker'[j] = "none" => worker[j] = "none"
      BY <1>2
    <3>6. QED
      BY <1>1, <2>1, <3>1, <3>2, <3>3, <3>4, <3>5 DEF IInv, Stages
  <2>4. TablesApart'
    BY <1>1, <2>1 DEF IInv, TablesApart
  <2>5. \A j \in Insts : Configured(j)' => Configured(j)
    BY <1>1, ConfiguredFrame
  <2>6. main # "ended"
    BY <1>3 DEF IInv, Stages, Gone, Used
  <2>7. FlagsNoted' /\ MapsOK'
    BY <1>1, <2>5, <2>6, FlagsFrame, MapsFrame DEF IInv, ifaces
  <2>8. Progress'
    <3>1. \A j \in Insts : phase'[j] = "alive" => phase[j] = "alive" /\ Kept(j)
      BY <1>1, <1>2, <1>5, <2>1 DEF Kept, Started
    <3>2. QED
      BY <1>1, <3>1, ProgressFrame DEF IInv, ifaces
  <2>9. QED
    BY <2>2, <2>3, <2>4, <2>7, <2>8 DEF IInv
<1>6. QED
  BY <1>4, <1>5

(* An exception that nobody catches ends the program where it is.          *)
LEMMA ThrowStep ==
    ASSUME IInv, NotStarted, crashed' = TRUE,
           UNCHANGED <<conf, main, next, m_running, signals, table_number, ifaces, kernel, inst>>
    PROVE  IInv' /\ NotStarted'
<1>1. UNCHANGED <<defs, vifs, phase, number, worker, queue, current, m_upstreams, m_downstreams,
                  m_relevant_if_index, m_restore_if_state>>
  BY DEF conf, kernel, inst, ifaces
<1>2. TypeOK'
  BY DEF IInv, TypeOK, conf, ifaces, kernel, inst
<1>3. Stages'
  <2>1. \A i : Working(i)' = Working(i) /\ Gone(i)' = Gone(i)
    BY <1>1 DEF Working, Gone
  <2>2. QED
    BY <1>1, <2>1 DEF IInv, Stages, InstSet
<1>4. TablesApart' /\ NotStarted'
  BY <1>1 DEF IInv, TablesApart, NotStarted
<1>5. \A i \in Insts : Configured(i)' => Configured(i)
  BY <1>1, ConfiguredFrame
<1>6. FlagsNoted' /\ MapsOK'
  BY <1>5, FlagsFrame, MapsFrame DEF IInv, kernel, ifaces
<1>7. Progress'
  <2>1. \A i \in Insts : phase'[i] = "alive" => phase[i] = "alive" /\ Kept(i)
    BY DEF Kept, Started, inst, kernel
  <2>2. QED
    BY <2>1, ProgressFrame DEF IInv, ifaces
<1>8. QED
  BY <1>2, <1>3, <1>4, <1>6, <1>7 DEF IInv

(***************************************************************************)
(* Configuration and start-up                                              *)
(***************************************************************************)
(* The interfaces of a definition, in the order they are added.            *)
LEMMA InterfaceList ==
    ASSUME defs \in Definitions, NEW i \in InstSet,
           NEW list, list = defs[i].down \o defs[i].up
    PROVE  /\ list \in Seq(Ifs)
           /\ {list[k] : k \in DOMAIN list} = UsedIfs(i)
           /\ UsedIfs(i) # {} /\ UsedIfs(i) \subseteq Ifs
<1> DEFINE d == defs[i].down
           u == defs[i].up
<1>1. d \in Seq(Ifs) /\ u \in Seq(Ifs) /\ d # <<>>
  BY DefinitionFacts
<1>2. UsedIfs(i) = {u[k] : k \in DOMAIN u} \cup {d[k] : k \in DOMAIN d}
  BY DEF UsedIfs
<1>3. list = d \o u
  OBVIOUS
<1> HIDE DEF d, u
<1>4. /\ list \in Seq(Ifs) /\ Len(list) = Len(d) + Len(u)
      /\ Len(d) \in Nat /\ Len(u) \in Nat /\ Len(d) > 0
      /\ DOMAIN d = 1 .. Len(d) /\ DOMAIN u = 1 .. Len(u) /\ DOMAIN list = 1 .. Len(list)
  BY <1>1, <1>3
<1>5. /\ \A k \in 1 .. Len(d) : k \in DOMAIN list /\ list[k] = d[k]
      /\ \A k \in 1 .. Len(u) : k + Len(d) \in DOMAIN list /\ list[k + Len(d)] = u[k]
  BY <1>1, <1>3, <1>4
<1>6. \A k \in DOMAIN list : k \in DOMAIN d \/ k - Len(d) \in DOMAIN u
  BY <1>4
<1>7. \A k \in DOMAIN list : \/ k \in DOMAIN d /\ list[k] = d[k]
                             \/ k - Len(d) \in DOMAIN u /\ list[k] = u[k - Len(d)]
  <2> TAKE k \in DOMAIN list
  <2>1. CASE k \in DOMAIN d
    BY <1>4, <1>5, <2>1
  <2>2. CASE k - Len(d) \in DOMAIN u
    <3>1. (k - Len(d)) + Len(d) = k
      BY <1>4
    <3>2. QED
      BY <1>4, <1>5, <2>2, <3>1
  <2>3. QED
    BY <1>6, <2>1, <2>2
<1>8. ASSUME NEW x \in {list[k] : k \in DOMAIN list} PROVE x \in UsedIfs(i)
  BY <1>2, <1>7, <1>8
<1>9. ASSUME NEW x \in UsedIfs(i) PROVE x \in {list[k] : k \in DOMAIN list}
  BY <1>2, <1>4, <1>5, <1>9
<1>10. UsedIfs(i) \subseteq Ifs
  <2>1. (\A k \in DOMAIN u : u[k] \in Ifs) /\ \A k \in DOMAIN d : d[k] \in Ifs
    BY <1>1
  <2>2. QED
    BY <1>2, <2>1
<1>11. d[1] \in UsedIfs(i)
  <2>1. 1 \in DOMAIN d
    BY <1>4
  <2>2. QED
    BY <1>2, <2>1
<1>12. list \in Seq(Ifs)
  BY <1>4
<1> HIDE DEF d
<1>13. QED
  BY <1>8, <1>9, <1>10, <1>11, <1>12

(* The interfaces of the next instance, or a refusal.                      *)
LEMMA InterfacesStep == ASSUME IInv, NotStarted, initalize_interfaces PROVE IInv'
<1>1. /\ UNCHANGED <<conf, m_running, signals, table_number, vifs, mrules, refused_vifs, inst,
                     crashed>>
      /\ main = "configure"
  BY DEF initalize_interfaces
<1>2. /\ MaxInsts \in Nat /\ next \in 1 .. MaxInsts + 1 /\ MaxInsts <= MaxTable /\ MaxTable \in Nat
      /\ InstSet = 1 .. Len(defs) /\ Len(defs) \in Nat /\ InstSet \subseteq Insts
      /\ Len(defs) <= MaxInsts
  BY LifecycleAssumption, DefinitionFacts DEF IInv, TypeOK
<1>3. /\ InstSet' = InstSet /\ defs' = defs /\ phase' = phase /\ number' = number
      /\ table_number = 0 /\ \A i \in Insts : phase[i] = "none"
  BY <1>1 DEF conf, InstSet, inst, IInv, Stages
<1>4. TablesApart'
  BY <1>1, <1>3 DEF IInv, TablesApart
<1>5. Progress'
  BY <1>3 DEF Progress
<1>6. CASE next \in InstSet
  <2> DEFINE list == defs[next].down \o defs[next].up
             a == AddAll(list, rp_filter)
  <2>1. /\ m_if_vif' = [m_if_vif EXCEPT ![next] = a.if_vif]
        /\ m_vif_if' = [m_vif_if EXCEPT ![next] = a.vif_if]
        /\ rp_filter' = a.rp
        /\ m_restore_if_state' = [m_restore_if_state EXCEPT ![next] = a.noted]
        /\ \/ a.ok /\ next' = next + 1 /\ main' = main
           \/ ~a.ok /\ next' = 1 /\ main' = "destroy"
    BY <1>6 DEF initalize_interfaces
  <2>2. /\ list \in Seq(Ifs) /\ {list[k] : k \in DOMAIN list} = UsedIfs(next)
        /\ UsedIfs(next) # {}
    BY <1>6, InterfaceList DEF IInv, TypeOK
  <2>3. m_reset_reverse_path_filter \in BOOLEAN /\ rp_filter \in [RpNames -> 0 .. 2]
    BY DEF IInv, TypeOK, m_reset_reverse_path_filter
  <2> HIDE DEF list
  <2>4. /\ a \in Added /\ GoodMaps(a, UsedIfs(next)) /\ GoodFlags(a, UsedIfs(next), rp_filter)
    BY <2>2, <2>3, AddAllEffect
  <2> HIDE DEF a
  <2>5. /\ a.ok \in BOOLEAN /\ a.if_vif \in VifMaps /\ a.vif_if \in IfMaps
        /\ a.rp \in [RpNames -> 0 .. 2] /\ a.noted \in SUBSET RpNames
    BY <2>4 DEF Added
  <2>6. next \in Insts
    BY <1>2, <1>6
  <2>7. next' \in 1 .. MaxInsts + 1 /\ main' \in {"configure", "destroy"}
    BY <1>1, <1>2, <2>1, <2>6 DEF Insts
  <2>8. TypeOK'
    <3>1. /\ m_if_vif' \in [Insts -> VifMaps] /\ m_vif_if' \in [Insts -> IfMaps]
          /\ m_restore_if_state' \in [Insts -> SUBSET RpNames]
          /\ rp_filter' \in [RpNames -> 0 .. 2]
      BY <2>1, <2>5 DEF IInv, TypeOK
    <3>2. main' \in MainStates
      BY <2>7 DEF MainStates
    <3>3. QED
      BY <1>1, <2>7, <3>1, <3>2 DEF IInv, TypeOK, conf, inst
  <2>9. Stages'
    <3>1. \A i \in Insts : Gone(i)'
      BY <1>3 DEF Gone
    <3>2. table_number' = 0
      BY <1>1, <1>3
    <3>3. QED
      BY <1>3, <2>7, <3>1, <3>2 DEF Stages
  <2>10. /\ m_restore_if_state'[next] = a.noted /\ m_restore_if_state[next] = {}
         /\ m_if_vif'[next] = a.if_vif /\ m_vif_if'[next] = a.vif_if
         /\ \A i \in Insts : i # next => /\ m_restore_if_state'[i] = m_restore_if_state[i]
                                        /\ m_if_vif'[i] = m_if_vif[i]
                                        /\ m_vif_if'[i] = m_vif_if[i]
    BY <1>1, <1>2, <2>1, <2>6 DEF IInv, TypeOK, NotStarted
  <2>11. \A i \in Insts : Configured(i)' => a.ok /\ (i = next \/ Configured(i))
    <3> SUFFICES ASSUME NEW i \in Insts, Configured(i)' PROVE a.ok /\ (i = next \/ Configured(i))
      OBVIOUS
    <3>1. i \in InstSet /\ main' = "configure" /\ i < next'
      BY <1>3, <2>7 DEF Configured, Used
    <3>2. a.ok /\ next' = next + 1
      BY <2>1, <3>1
    <3>3. i = next \/ i < next
      BY <1>2, <3>1, <3>2
    <3>4. QED
      BY <1>1, <3>1, <3>2, <3>3 DEF Configured
  <2>12. \A i : UsedIfs(i)' = UsedIfs(i)
    BY <1>3 DEF UsedIfs
  <2>13. MapsOK'
    <3> SUFFICES ASSUME NEW i \in Insts, Configured(i)'
                 PROVE  InverseMaps(m_if_vif'[i], m_vif_if'[i], UsedIfs(i))
      BY <2>12 DEF MapsOK
    <3>1. CASE i = next
      BY <2>4, <2>10, <2>11, <3>1 DEF GoodMaps
    <3>2. CASE i # next
      BY <2>10, <2>11, <3>2 DEF IInv, MapsOK
    <3>3. QED
      BY <3>1, <3>2
  <2>14. FlagsNoted'
    <3>1. ASSUME NEW x \in RpNames
          PROVE  IF \E i \in Insts : x \in m_restore_if_state'[i] THEN rp_filter'[x] = 0
                                                                 ELSE rp_filter'[x] = rp_before'[x]
      <4>1. rp_filter'[x] = IF x \in a.noted THEN 0 ELSE rp_filter[x]
        BY <2>1, <2>4 DEF GoodFlags
      <4>2. IF \E i \in Insts : x \in m_restore_if_state[i] THEN rp_filter[x] = 0
                                                           ELSE rp_filter[x] = rp_before[x]
        BY <1>1 DEF IInv, FlagsNoted
      <4>3. rp_before' = rp_before
        BY <1>1 DEF conf
      <4>4. (\E i \in Insts : x \in m_restore_if_state'[i])
               <=> x \in a.noted \/ \E i \in Insts : x \in m_restore_if_state[i]
        BY <2>6, <2>10
      <4>5. QED
        BY <4>1, <4>2, <4>3, <4>4
    <3>2. /\ m_reset_reverse_path_filter' = m_reset_reverse_path_filter
          /\ locked' = locked /\ rp_before' = rp_before
      BY <1>1 DEF conf, m_reset_reverse_path_filter
    <3>3. ASSUME m_reset_reverse_path_filter, NEW i \in Insts, Configured(i)'
          PROVE  AllNoted(m_restore_if_state'[i], UsedIfs(i))
      <4>1. CASE i = next
        BY <2>4, <2>10, <2>11, <3>3, <4>1 DEF GoodFlags
      <4>2. CASE i # next
        BY <2>10, <2>11, <3>3, <4>2 DEF IInv, FlagsNoted
      <4>3. QED
        BY <4>1, <4>2
    <3>4. \A i \in Insts : AllNoted(m_restore_if_state[i], UsedIfs(i))'
                             = AllNoted(m_restore_if_state'[i], UsedIfs(i))
      BY <2>12, <3>2 DEF AllNoted
    <3>5. ASSUME ~m_reset_reverse_path_filter
          PROVE  (\A i \in Insts : m_restore_if_state'[i] = {}) /\ rp_filter' = rp_before'
      <4>1. a.noted = {} /\ (\A i \in Insts : m_restore_if_state[i] = {}) /\ rp_filter = rp_before
        BY <2>4, <3>5 DEF GoodFlags, IInv, FlagsNoted
      <4>2. \A i \in Insts : m_restore_if_state'[i] = {}
        BY <2>10, <4>1
      <4>3. \A y \in RpNames : a.rp[y] = rp_filter[y]
        BY <2>4, <4>1 DEF GoodFlags
      <4>4. rp_filter' = rp_filter
        BY <2>1, <2>3, <2>5, <4>3
      <4>5. QED
        BY <3>2, <4>1, <4>2, <4>4
    <3>6. QED
      BY <2>7, <3>1, <3>2, <3>3, <3>4, <3>5 DEF FlagsNoted
  <2>15. QED
    BY <1>4, <1>5, <2>8, <2>9, <2>13, <2>14 DEF IInv
<1>7. CASE next \notin InstSet
  <2>1. main' = "start" /\ next' = 1 /\ UNCHANGED <<ifaces, rp_filter>>
    BY <1>7 DEF initalize_interfaces
  <2>2. TypeOK'
    <3>1. next' \in 1 .. MaxInsts + 1 /\ main' \in MainStates
      BY <1>2, <2>1 DEF MainStates
    <3>2. QED
      BY <1>1, <2>1, <3>1 DEF IInv, TypeOK, conf, inst, ifaces
  <2>3. Stages'
    <3>1. next' <= Len(defs') + 1 /\ table_number' + MaxInsts < MaxTable + next'
      BY <1>1, <1>2, <1>3, <2>1
    <3>2. \A i \in Insts : ~(i < next') /\ phase'[i] = "none"
      BY <1>3, <2>1 DEF Insts
    <3>3. QED
      BY <2>1, <3>1, <3>2 DEF Stages
  <2>4. \A i \in Insts : Configured(i)' => Configured(i)
    <3>1. \A i \in InstSet : i < next
      BY <1>2, <1>7
    <3>2. QED
      BY <1>1, <1>3, <3>1 DEF Configured
  <2>5. FlagsNoted' /\ MapsOK'
    BY <1>1, <2>1, <2>4, FlagsFrame, MapsFrame DEF IInv, ifaces
  <2>6. QED
    BY <1>4, <1>5, <2>2, <2>3, <2>5 DEF IInv
<1>8. QED
  BY <1>6, <1>7

(* The number of the next table is one the kernel has.                     *)
LEMMA NextTable ==
    ASSUME IInv, main = "start", next \in InstSet
    PROVE  /\ TableNumber(next) \in Tables
           /\ TableNumber(next) + MaxInsts < MaxTable + (next + 1)
<1>1. /\ MaxInsts \in Nat /\ MaxTable \in Nat /\ MaxInsts <= MaxTable
      /\ table_number \in Nat /\ table_number + MaxInsts < MaxTable + next
  BY LifecycleAssumption DEF IInv, TypeOK, Stages, Tables
<1>2. /\ next \in Nat /\ next >= 1 /\ next <= MaxInsts
      /\ defs[next].number \in Nat /\ defs[next].number + MaxInsts <= MaxTable
  <2>1. /\ Len(defs) \in Nat /\ Len(defs) <= MaxInsts /\ next \in 1 .. Len(defs)
        /\ defs[next].number \in Nat /\ defs[next].number + MaxInsts <= MaxTable
    BY DefinitionFacts DEF IInv, TypeOK
  <2>2. QED
    BY <1>1, <2>1
<1>3. \/ TableNumber(next) = defs[next].number
      \/ TableNumber(next) = 0
      \/ TableNumber(next) = table_number + 1
  BY DEF TableNumber
<1>4. QED
  BY <1>1, <1>2, <1>3 DEF Tables

(* The next instance gets phase p and the table t, which nobody uses when  *)
(* it has become a user of it.                                             *)
LEMMA StartTables ==
    ASSUME IInv, NEW n \in Insts, phase[n] = "none", NEW p, NEW t \in Tables,
           p \in {"none", "alive", "stopping"}, p # "none" => t \notin InUseTables,
           phase' = [phase EXCEPT ![n] = p], number' = [number EXCEPT ![n] = t], vifs' = vifs
    PROVE  /\ TablesApart'
           /\ p # "none" => vifs[t] = <<>>
<1>1. /\ phase'[n] = p /\ number'[n] = t
      /\ \A j \in Insts : j # n => phase'[j] = phase[j] /\ number'[j] = number[j]
  BY DEF IInv, TypeOK
<1>2. ASSUME p # "none" PROVE \A j \in Insts : phase[j] \in Used => number[j] # t
  <2> SUFFICES ASSUME NEW j \in Insts, phase[j] \in Used, number[j] = t PROVE FALSE
    OBVIOUS
  <2>1. j \in InstSet /\ phase[j] \notin {"none", "destroyed"}
    BY DEF IInv, Stages, Used
  <2>2. t \in InUseTables
    BY <2>1 DEF InUseTables
  <2>3. QED
    BY <1>2, <2>2
<1>3. p # "none" => vifs[t] = <<>>
  BY <1>2 DEF IInv, TablesApart, Used
<1>4. ASSUME NEW i \in Insts, NEW j \in Insts, phase'[i] \in Used, phase'[j] \in Used,
             number'[i] = number'[j]
      PROVE  i = j
  <2>1. CASE i # n /\ j # n
    BY <1>1, <1>4, <2>1 DEF IInv, TablesApart
  <2>2. CASE i = n /\ j # n
    BY <1>1, <1>2, <1>4, <2>2 DEF Used
  <2>3. CASE i # n /\ j = n
    BY <1>1, <1>2, <1>4, <2>3 DEF Used
  <2>4. QED
    BY <2>1, <2>2, <2>3
<1>5. ASSUME NEW s \in Tables
      PROVE  \/ \E i \in Insts : phase'[i] \in {"alive", "stopping"} /\ number'[i] = s
             \/ vifs'[s] = <<>>
  <2>1. CASE vifs[s] = <<>>
    BY <2>1
  <2>2. CASE \E i \in Insts : phase[i] \in {"alive", "stopping"} /\ number[i] = s
    BY <1>1, <2>2
  <2>3. QED
    BY <2>1, <2>2 DEF IInv, TablesApart
<1>6. QED
  BY <1>3, <1>4, <1>5 DEF TablesApart

(* start_proxy_instances: an instance starts, is given up half-way with a  *)
(* receiver to be stopped, or fails at once.                               *)
LEMMA StartStep == ASSUME IInv, NotStarted, start_proxy_instances PROVE IInv'
<1> DEFINE t == TableNumber(next)
<1>1. /\ UNCHANGED <<conf, m_running, signals, ifaces, kernel, current, m_upstreams,
                     m_downstreams, rule, m_added_ifs, m_relevant_if_index, crashed>>
      /\ main = "start" /\ next \in InstSet
      /\ table_number' = t /\ number' = [number EXCEPT ![next] = t]
      /\ \/ /\ t \notin InUseTables
            /\ phase' = [phase EXCEPT ![next] = "alive"]
            /\ receiver' = [receiver EXCEPT ![next] = "running"]
            /\ worker' = [worker EXCEPT ![next] = "running"]
            /\ \E n : /\ queue' = [queue EXCEPT ![next] = QueuedMessages(defs[next], n)]
                      /\ \/ /\ n = Interfaces(defs[next])
                            /\ next' = next + 1 /\ main' = main
                         \/ main' = "unwind" /\ next' = next
         \/ /\ t \notin InUseTables
            /\ phase' = [phase EXCEPT ![next] = "stopping"]
            /\ receiver' = [receiver EXCEPT ![next] = "running"]
            /\ main' = "unwind" /\ next' = next /\ UNCHANGED <<worker, queue>>
         \/ main' = "destroy" /\ next' = 1 /\ UNCHANGED <<phase, receiver, worker, queue>>
  BY DEF start_proxy_instances, init_mrt_socket
<1>2. t \in Tables /\ t + MaxInsts < MaxTable + (next + 1)
  BY <1>1, NextTable
<1> HIDE DEF t
<1>3. /\ MaxInsts \in Nat /\ InstSet = 1 .. Len(defs) /\ Len(defs) \in Nat /\ InstSet \subseteq Insts
      /\ Len(defs) <= MaxInsts /\ next \in Insts /\ next \in Nat
  BY <1>1, LifecycleAssumption, DefinitionFacts DEF IInv, TypeOK
<1>4. /\ InstSet' = InstSet /\ defs' = defs /\ vifs' = vifs /\ m_if_vif' = m_if_vif
      /\ m_vif_if' = m_vif_if
  BY <1>1 DEF conf, InstSet, ifaces, kernel
<1>5. phase[next] = "none" /\ \A i \in Insts : i # next /\ phase[i] # "none" => i < next
  BY <1>1, <1>3 DEF IInv, Stages, Insts
<1>6. /\ number'[next] = t /\ number' \in [Insts -> Tables]
      /\ \A j \in Insts : j # next => number'[j] = number[j]
  BY <1>1, <1>2, <1>3 DEF IInv, TypeOK
<1>7. CASE /\ t \notin InUseTables
           /\ phase' = [phase EXCEPT ![next] = "alive"]
           /\ receiver' = [receiver EXCEPT ![next] = "running"]
           /\ worker' = [worker EXCEPT ![next] = "running"]
           /\ \E n : /\ queue' = [queue EXCEPT ![next] = QueuedMessages(defs[next], n)]
                     /\ \/ /\ n = Interfaces(defs[next])
                           /\ next' = next + 1 /\ main' = main
                        \/ main' = "unwind" /\ next' = next
  <2> DEFINE M == ConfigMessages(defs[next])
  <2>2. /\ M \subseteq Message /\ ExitMessage \notin M
        /\ \A n : QueuedMessages(defs[next], n) \subseteq M
    BY <1>1, MessageFacts DEF IInv, TypeOK
  <2>10. PICK Q \in SUBSET M : /\ queue' = [queue EXCEPT ![next] = Q]
                               /\ \/ Q = M /\ next' = next + 1 /\ main' = main
                                  \/ main' = "unwind" /\ next' = next
    BY <1>7, <2>2 DEF ConfigMessages
  <2> HIDE DEF M
  <2>1. /\ phase'[next] = "alive" /\ worker'[next] = "running"
        /\ queue'[next] = Q
        /\ \A j \in Insts : j # next => /\ phase'[j] = phase[j] /\ worker'[j] = worker[j]
                                       /\ queue'[j] = queue[j]
    BY <1>3, <1>7, <2>10 DEF IInv, TypeOK
  <2>3. TypeOK'
    <3>1. phase' \in [Insts -> Phases]
      BY <1>7 DEF IInv, TypeOK, Phases
    <3>2. /\ receiver' \in [Insts -> {"none", "running", "ended"}]
          /\ worker' \in [Insts -> {"none", "running", "handling", "ended"}]
      BY <1>7 DEF IInv, TypeOK
    <3>3. queue' \in [Insts -> SUBSET (Message \cup {ExitMessage})]
      BY <2>2, <2>10 DEF IInv, TypeOK
    <3>4. next' \in 1 .. MaxInsts + 1 /\ main' \in MainStates
      BY <1>1, <1>3, <2>10 DEF Insts, MainStates
    <3>5. table_number' \in Tables
      BY <1>1, <1>2
    <3>6. QED
      BY <1>1, <1>6, <1>7, <3>1, <3>2, <3>3, <3>4, <3>5 DEF IInv, TypeOK, conf, ifaces, kernel
  <2>4. Stages'
    <3>1. \A i \in Insts : phase'[i] # "none" => i \in InstSet'
      BY <1>1, <1>4, <2>1 DEF IInv, Stages
    <3>2. CASE main' = "unwind" /\ next' = next
      BY <1>3, <2>1, <3>1, <3>2 DEF Stages, Used
    <3>3. CASE Q = M /\ next' = next + 1 /\ main' = main
      <4>1. next' <= Len(defs') + 1 /\ table_number' + MaxInsts < MaxTable + next'
        BY <1>1, <1>2, <1>3, <1>4, <3>3
      <4>2. ASSUME NEW i \in Insts PROVE IF i < next' THEN Working(i)' ELSE phase'[i] = "none"
        <5>1. CASE i = next
          <6>1. i < next'
            BY <1>3, <3>3, <5>1
          <6>2. Working(i)'
            BY <2>1, <2>2, <5>1 DEF Working
          <6>3. QED
            BY <6>1, <6>2
        <5>2. CASE i # next
          <6>1. i < next' <=> i < next
            BY <1>3, <3>3, <5>2 DEF Insts
          <6>2. IF i < next THEN Working(i) ELSE phase[i] = "none"
            BY <1>1 DEF IInv, Stages
          <6>3. QED
            BY <2>1, <5>2, <6>1, <6>2 DEF Working
        <5>3. QED
          BY <5>1, <5>2
      <4>3. QED
        BY <1>1, <3>1, <3>3, <4>1, <4>2 DEF Stages
    <3>4. QED
      BY <2>10, <3>2, <3>3
  <2>5. TablesApart' /\ vifs[t] = <<>>
    <3>1. PICK p \in {"none", "alive", "stopping"} : p = "alive"
      OBVIOUS
    <3>2. QED
      BY <1>1, <1>2, <1>3, <1>4, <1>5, <1>7, <3>1, StartTables
  <2>6. \A i \in Insts : Configured(i)' => Configured(i)
    BY <1>1, <1>4 DEF Configured
  <2>7. FlagsNoted' /\ MapsOK'
    BY <1>1, <2>10, <2>6, FlagsFrame, MapsFrame DEF IInv, ifaces, kernel
  <2>8. Progress'
    <3> SUFFICES ASSUME NEW i \in Insts, phase'[i] = "alive"
                 PROVE  Messages(i)' /\ Roles(i)' /\ Registered(i)'
      BY DEF Progress
    <3>1. CASE i # next
      <4>1. phase[i] = "alive" /\ Kept(i)
        BY <1>1, <1>4, <1>6, <2>1, <3>1 DEF Kept, Started, kernel
      <4>2. Messages(i) /\ Roles(i) /\ Registered(i)
        BY <4>1 DEF IInv, Progress
      <4>3. QED
        BY <1>1, <4>1, <4>2, InstanceKept DEF ifaces
    <3>2. CASE i = next
      <4>1. /\ current'[i] = {} /\ m_upstreams'[i] = {} /\ m_downstreams'[i] = {}
            /\ m_relevant_if_index'[i] = {}
        BY <1>1, <1>3, <1>5, <3>2 DEF NotStarted
      <4>2. Messages(i)'
        <5>1. defs' = defs /\ Q \subseteq ConfigMessages(defs[i]) /\ (Started(i)' => Q = M)
          BY <1>4, <2>10, <3>2 DEF M, Started
        <5>2. QED
          BY <2>1, <3>2, <4>1, <5>1 DEF Messages, M
      <4>3. Roles(i)'
        BY <4>1 DEF Roles
      <4>4. Registered(i)'
        <5>1. \A x : ~is_upstream(i, x)' /\ ~is_downstream(i, x)'
          BY <4>1 DEF is_upstream, is_downstream
        <5>2. vifs'[number'[i]] = <<>>
          BY <1>4, <1>6, <2>5, <3>2
        <5>3. QED
          BY <4>1, <5>1, <5>2 DEF Registered
      <4>5. QED
        BY <4>2, <4>3, <4>4
    <3>3. QED
      BY <3>1, <3>2
  <2>9. QED
    BY <2>3, <2>4, <2>5, <2>7, <2>8 DEF IInv
<1>8. CASE /\ t \notin InUseTables
           /\ phase' = [phase EXCEPT ![next] = "stopping"]
           /\ receiver' = [receiver EXCEPT ![next] = "running"]
           /\ main' = "unwind" /\ next' = next /\ UNCHANGED <<worker, queue>>
  <2>1. phase'[next] = "stopping" /\ \A j \in Insts : j # next => phase'[j] = phase[j]
    BY <1>3, <1>8 DEF IInv, TypeOK
  <2>2. TypeOK'
    <3>1. phase' \in [Insts -> Phases]
      BY <1>8 DEF IInv, TypeOK, Phases
    <3>2. receiver' \in [Insts -> {"none", "running", "ended"}]
      BY <1>8 DEF IInv, TypeOK
    <3>3. table_number' \in Tables /\ main' \in MainStates
      BY <1>1, <1>2, <1>8 DEF MainStates
    <3>4. QED
      BY <1>1, <1>6, <1>8, <3>1, <3>2, <3>3 DEF IInv, TypeOK, conf, ifaces, kernel
  <2>3. TablesApart' /\ vifs[t] = <<>>
    <3>1. PICK p \in {"none", "alive", "stopping"} : p = "stopping"
      OBVIOUS
    <3>2. QED
      BY <1>1, <1>2, <1>3, <1>4, <1>5, <1>8, <3>1, StartTables
  <2>4. Stages'
    <3>1. \A i \in Insts : phase'[i] # "none" => i \in InstSet'
      BY <1>1, <1>4, <2>1 DEF IInv, Stages
    <3>2. QED
      BY <1>3, <1>4, <1>6, <1>8, <2>1, <2>3, <3>1 DEF Stages, Used
  <2>5. \A i \in Insts : Configured(i)' => Configured(i)
    BY <1>1, <1>4 DEF Configured
  <2>6. FlagsNoted' /\ MapsOK'
    BY <1>1, <1>8, <2>5, FlagsFrame, MapsFrame DEF IInv, ifaces, kernel
  <2>7. Progress'
    <3>1. \A i \in Insts : phase'[i] = "alive" => phase[i] = "alive" /\ Kept(i)
      BY <1>1, <1>4, <1>6, <1>8, <2>1 DEF Kept, Started, kernel
    <3>2. QED
      BY <1>1, <3>1, ProgressFrame DEF IInv, ifaces
  <2>8. QED
    BY <2>2, <2>3, <2>4, <2>6, <2>7 DEF IInv
<1>9. CASE main' = "destroy" /\ next' = 1 /\ UNCHANGED <<phase, receiver, worker, queue>>
  <2>1. TypeOK'
    <3>1. next' \in 1 .. MaxInsts + 1 /\ table_number' \in Tables /\ main' \in MainStates
      BY <1>1, <1>2, <1>3, <1>9 DEF MainStates
    <3>2. QED
      BY <1>1, <1>6, <1>9, <3>1 DEF IInv, TypeOK, conf, ifaces, kernel
  <2>2. TablesApart'
    <3>1. PICK p \in {"none", "alive", "stopping"} : p = "none"
      OBVIOUS
    <3>2. phase' = [phase EXCEPT ![next] = p]
      BY <1>3, <1>5, <1>9, <3>1 DEF IInv, TypeOK
    <3>3. QED
      BY <1>1, <1>2, <1>3, <1>4, <1>5, <3>1, <3>2, StartTables
  <2>3. Stages'
    <3>1. \A i \in Insts : ~(i < next')
      BY <1>9 DEF Insts
    <3>2. QED
      BY <1>4, <1>9, <3>1 DEF IInv, Stages
  <2>4. \A i \in Insts : Configured(i)' => Configured(i)
    BY <1>1, <1>4 DEF Configured
  <2>5. FlagsNoted' /\ MapsOK'
    BY <1>1, <1>9, <2>4, FlagsFrame, MapsFrame DEF IInv, ifaces, kernel
  <2>6. Progress'
    <3>1. \A i \in Insts : phase'[i] = "alive" => phase[i] = "alive" /\ Kept(i)
      BY <1>1, <1>4, <1>5, <1>6, <1>9 DEF Kept, Started, kernel
    <3>2. QED
      BY <1>1, <3>1, ProgressFrame DEF IInv, ifaces
  <2>7. QED
    BY <2>1, <2>2, <2>3, <2>5, <2>6 DEF IInv
<1>10. QED
  BY <1>1, <1>7, <1>8, <1>9
(***************************************************************************)
(* The invariant holds                                                     *)
(***************************************************************************)
(* Instances that have not been started are left alone.                    *)
LEMMA NotStartedNext == ASSUME IInv, NotStarted, Next PROVE NotStarted'
<1>1. CASE initalize_interfaces
  <2>1. /\ UNCHANGED inst /\ main = "configure"
        /\ \/ next \in InstSet /\ main' = "destroy"
           \/ /\ next \in InstSet /\ main' = main /\ next' = next + 1
              /\ \E n : m_restore_if_state' = [m_restore_if_state EXCEPT ![next] = n]
           \/ main' = "start"
    BY <1>1 DEF initalize_interfaces
  <2>2. /\ phase' = phase /\ worker' = worker /\ current' = current /\ m_upstreams' = m_upstreams
        /\ m_downstreams' = m_downstreams /\ m_relevant_if_index' = m_relevant_if_index
    BY <2>1 DEF inst
  <2>3. ASSUME main' = "configure", NEW i \in Insts, i >= next' PROVE m_restore_if_state'[i] = {}
    <3>1. /\ next \in InstSet /\ next' = next + 1
          /\ \E n : m_restore_if_state' = [m_restore_if_state EXCEPT ![next] = n]
      BY <2>1, <2>3
    <3>2. next \in Nat /\ i \in Nat
      BY LifecycleAssumption DEF IInv, TypeOK, Insts
    <3>3. i # next /\ i >= next
      BY <2>3, <3>1, <3>2
    <3>4. QED
      BY <2>1, <3>1, <3>3 DEF IInv, TypeOK, NotStarted
  <2>4. QED
    BY <2>1, <2>2, <2>3 DEF NotStarted
<1>2. CASE start_proxy_instances
  <2>1. CASE main' = "start"
    <3>1. /\ phase' = [phase EXCEPT ![next] = "alive"]
          /\ worker' = [worker EXCEPT ![next] = "running"] /\ main = "start"
          /\ UNCHANGED <<current, m_upstreams, m_downstreams, m_relevant_if_index>>
      BY <1>2, <2>1 DEF start_proxy_instances
    <3>2. QED
      BY <2>1, <3>1 DEF NotStarted, IInv, TypeOK
  <2>2. CASE main' # "start"
    <3>1. main' # "configure"
      BY <1>2 DEF start_proxy_instances
    <3>2. QED
      BY <2>2, <3>1 DEF NotStarted
  <2>3. QED
    BY <2>1, <2>2
<1>7. CASE receiver_throws \/ \E i \in Insts : \E msg : handle_config_throws(i, msg)
  BY <1>7, ThrowStep DEF receiver_throws, handle_config_throws
<1>3. CASE \/ Unwind \/ StartLoop \/ LeaveLoop \/ SkipInstance \/ restore_rp_filter
           \/ \E i \in Insts : DestroyMembers(i) \/ JoinReceiver(i) \/ JoinWorker(i)
  <2>1. main' \notin {"configure", "start"}
    BY <1>3 DEF Unwind, StartLoop, LeaveLoop, SkipInstance, restore_rp_filter, DestroyMembers,
                JoinReceiver, JoinWorker, Destroying
  <2>2. QED
    BY <2>1 DEF NotStarted
<1>4. CASE signal_handler \/ \E i \in Insts : receive_timeout(i) \/ receive_packet(i)
  BY <1>4 DEF signal_handler, receive_timeout, receive_packet, inst, ifaces, NotStarted
<1>5. CASE /\ \E i \in Insts : WorkerStep(i)
           /\ ~ \E i \in Insts : \E msg : handle_config_throws(i, msg)
  <2>1. PICK i \in Insts : WorkerStep(i)
    BY <1>5
  <2>8. ~ \E msg : handle_config_throws(i, msg)
    BY <1>5
  <2>2. /\ UNCHANGED <<main, next, phase, ifaces>> /\ worker[i] # "none"
        /\ worker' = [worker EXCEPT ![i] = worker'[i]]
    BY <2>1, <2>8 DEF WorkerStep, HandleExit, TakeMessage, HandleMessage, IInv, TypeOK
  <2>3. /\ \A j \in Insts : j # i => worker'[j] = worker[j] /\ current'[j] = current[j]
        /\ phase[i] = "none" => UNCHANGED <<m_upstreams, m_downstreams, m_relevant_if_index>>
    BY <2>1, <2>8 DEF WorkerStep, HandleExit, TakeMessage, HandleMessage, IInv, TypeOK
  <2>4. \A j \in Insts : j # i /\ phase[j] = "none" =>
             /\ m_upstreams'[j] = m_upstreams[j] /\ m_downstreams'[j] = m_downstreams[j]
             /\ m_relevant_if_index'[j] = m_relevant_if_index[j]
    <3>1. CASE HandleExit(i) \/ \E msg \in queue[i] : TakeMessage(i, msg)
      BY <3>1 DEF HandleExit, TakeMessage
    <3>2. CASE \E msg \in current[i] : HandleMessage(i, msg)
      <4>1. PICK msg \in current[i] : HandleMessage(i, msg)
        BY <3>2
      <4>2. CASE handle_config(i, msg) /\ phase[i] = "alive"
        <5>1. \/ AddUpstream(i, msg) \/ AddDownstream(i, msg) \/ SetGlobalRuleBinding(i, msg)
          <6>1. i \in InstSet /\ msg \in ConfigMessages(defs[i])
            BY <4>2 DEF IInv, Progress, Messages, Stages
          <6>2. msg.type \in {"ADD_UPSTREAM", "ADD_DOWNSTREAM", "SET_GLOBAL_RULE_BINDING"}
            BY <6>1, MessageFacts DEF IInv, TypeOK
          <6>3. QED
            BY <4>2, <6>2 DEF handle_config
        <5>2. QED
          <6>1. CASE AddUpstream(i, msg)
            BY <6>1 DEF AddUpstream, Register, registrate_interface, registered, IInv, TypeOK
          <6>2. CASE AddDownstream(i, msg)
            BY <6>2 DEF AddDownstream, Register, registrate_interface, registered, IInv, TypeOK
          <6>3. CASE SetGlobalRuleBinding(i, msg)
            BY <6>3 DEF SetGlobalRuleBinding, registered
          <6>4. QED
            BY <5>1, <6>1, <6>2, <6>3
      <4>3. CASE UNCHANGED <<m_upstreams, m_downstreams, m_relevant_if_index>>
        BY <4>3
      <4>4. QED
        BY <4>1, <4>2, <4>3 DEF HandleMessage, registered
    <3>3. QED
      BY <2>1, <2>8, <3>1, <3>2 DEF WorkerStep
  <2>5. m_restore_if_state' = m_restore_if_state
    BY <2>2 DEF ifaces
  <2>6. main \in {"configure", "start"} /\ phase[i] = "none" => FALSE
    BY <2>2 DEF NotStarted
  <2>7. QED
    BY <2>2, <2>3, <2>4, <2>5, <2>6 DEF NotStarted
<1>6. QED
  BY <1>1, <1>2, <1>3, <1>4, <1>5, <1>7 DEF Next, MainStep

(* An exception of the main thread leaves everything where it was.         *)
LEMMA MainThrows == ASSUME IInv, NotStarted, receiver_throws PROVE IInv'
BY ThrowStep DEF receiver_throws

(* So does one that handle_config lets through.                              *)
LEMMA WorkerThrows ==
    ASSUME IInv, NotStarted, NEW i \in Insts, NEW msg, handle_config_throws(i, msg) PROVE IInv'
BY ThrowStep DEF handle_config_throws

(* It holds in the beginning.                                              *)
LEMMA LifecycleInit == Init => IInv /\ NotStarted
<1> SUFFICES ASSUME Init PROVE IInv /\ NotStarted
  OBVIOUS
<1>1. MaxInsts \in Nat /\ MaxTable \in Nat /\ MaxSignals \in Nat
  BY LifecycleAssumption
<1>2. <<>> \in VifMaps /\ <<>> \in IfMaps
  <2>1. <<>> \in [{} -> 0 .. MaxVifs - 1] /\ {} \in SUBSET Ifs
    OBVIOUS
  <2>2. <<>> \in [{} -> Ifs] /\ {} \in SUBSET (0 .. MaxVifs - 1)
    OBVIOUS
  <2>3. QED
    BY <2>1, <2>2 DEF VifMaps, IfMaps
<1>3. TypeOK
  <2>1. /\ next \in 1 .. MaxInsts + 1 /\ signals \in 0 .. MaxSignals /\ table_number \in Tables
        /\ 0 \in Tables
    BY <1>1 DEF Init, Tables
  <2>2. /\ phase \in [Insts -> Phases]
        /\ worker \in [Insts -> {"none", "running", "handling", "ended"}]
        /\ receiver \in [Insts -> {"none", "running", "ended"}]
        /\ number \in [Insts -> Tables]
    BY <2>1 DEF Init, Phases
  <2>3. /\ queue \in [Insts -> SUBSET (Message \cup {ExitMessage})]
        /\ current \in [Insts -> SUBSET Message]
        /\ m_upstreams \in [Insts -> SUBSET [if : Ifs, priority : Nat]]
        /\ m_downstreams \in [Insts -> SUBSET Ifs]
        /\ m_added_ifs \in [Insts -> SUBSET Ifs]
        /\ m_relevant_if_index \in [Insts -> SUBSET Ifs]
    BY DEF Init
  <2>4. rule \in [Insts -> [Directions -> Rules]]
    BY DEF Init, Rules
  <2>5. /\ m_if_vif \in [Insts -> VifMaps] /\ m_vif_if \in [Insts -> IfMaps]
        /\ vifs \in [Tables -> IfMaps] /\ mrules \subseteq Ifs \X Tables
    BY <1>2 DEF Init
  <2>6. /\ m_restore_if_state \in [Insts -> SUBSET RpNames]
        /\ [flags |-> rp_before, locked |-> locked] \in Filters
        /\ rp_filter \in [RpNames -> 0 .. 2] /\ refused_vifs \in [Insts -> SUBSET Ifs]
    <3>1. PICK f \in Filters : rp_before = f.flags /\ locked = f.locked
      BY DEF Init
    <3>2. f \in [flags : [RpNames -> 0 .. 2], locked : SUBSET RpNames]
      BY LifecycleAssumption
    <3>3. f = [flags |-> rp_before, locked |-> locked] /\ rp_before \in [RpNames -> 0 .. 2]
      BY <3>1, <3>2
    <3>4. QED
      BY <3>3 DEF Init
  <2>7. QED
    BY <2>1, <2>2, <2>3, <2>4, <2>5, <2>6 DEF TypeOK, Init, MainStates
<1>4. \A i \in Insts : phase[i] = "none" /\ ~Configured(i)
  <2>1. \A i \in Insts : phase[i] = "none" /\ ~(i < next) /\ main = "configure"
    BY DEF Init, Insts
  <2>2. QED
    BY <2>1 DEF Configured, Used
<1>5. Stages
  BY <1>4 DEF Init, Stages
<1>6. TablesApart
  BY <1>4 DEF Init, TablesApart, Used
<1>7. FlagsNoted
  BY <1>4 DEF Init, FlagsNoted
<1>8. MapsOK
  BY <1>4 DEF MapsOK
<1>9. Progress
  BY <1>4 DEF Progress
<1>10. NotStarted
  BY DEF Init, NotStarted
<1>11. QED
  BY <1>3, <1>5, <1>6, <1>7, <1>8, <1>9, <1>10 DEF IInv

(* Every step keeps it.                                                    *)
LEMMA LifecycleNext == IInv /\ NotStarted /\ [Next]_vars => IInv' /\ NotStarted'
<1> SUFFICES ASSUME IInv, NotStarted, [Next]_vars PROVE IInv' /\ NotStarted'
  OBVIOUS
<1>1. CASE Next
  <2>1. NotStarted'
    BY <1>1, NotStartedNext
  <2>2. CASE MainStep
    BY <2>1, <2>2, InterfacesStep, StartStep, MainThrows, UnwindStep, StartLoopStep, LeaveLoopStep, DestroyStep,
       JoinReceiverStep, JoinWorkerStep, SkipStep, RestoreStep DEF MainStep
  <2>3. CASE signal_handler
    BY <2>1, <2>3, SignalStep
  <2>4. CASE \E i \in Insts : WorkerStep(i) \/ receive_timeout(i) \/ receive_packet(i)
    BY <2>1, <2>4, ExitStep, TakeStep, HandleStep, WorkerThrows, ReceiverStep DEF WorkerStep
  <2>5. QED
    BY <1>1, <2>1, <2>2, <2>3, <2>4 DEF Next
<1>2. CASE UNCHANGED vars
  <2>1. UNCHANGED <<defs, m_reset_rp_filter, family, rp_before, locked, refused_vifs, main, next, m_running, signals,
                    table_number, m_if_vif, m_vif_if, rp_filter, m_restore_if_state, phase,
                    number, worker, receiver, queue, current, m_upstreams, m_downstreams, rule,
                    m_added_ifs, m_relevant_if_index, vifs, mrules, crashed>>
    BY <1>2 DEF vars, conf, ifaces, kernel, inst
  <2>2. \A i : UsedIfs(i)' = UsedIfs(i) /\ Configured(i)' = Configured(i)
    BY <2>1 DEF UsedIfs, Configured, InstSet
  <2>3. \A i : Working(i)' = Working(i) /\ Gone(i)' = Gone(i)
    BY <2>1 DEF Working, Gone
  <2>4. TypeOK'
    BY <2>1 DEF IInv, TypeOK
  <2>5. Stages'
    BY <2>1, <2>3 DEF IInv, Stages, InstSet
  <2>6. TablesApart' /\ NotStarted'
    BY <2>1 DEF IInv, TablesApart, NotStarted
  <2>7. FlagsNoted' /\ MapsOK'
    BY <2>1, <2>2, FlagsFrame, MapsFrame DEF IInv, conf
  <2>8. Progress'
    <3>1. \A i \in Insts : phase'[i] = "alive" => phase[i] = "alive" /\ Kept(i)
      BY <2>1 DEF Kept, Started
    <3>2. QED
      BY <2>1, <3>1, ProgressFrame DEF IInv, conf
  <2>9. QED
    BY <2>4, <2>5, <2>6, <2>7, <2>8 DEF IInv
<1>3. QED
  BY <1>1, <1>2

(* The invariant of the life of the program.                               *)
THEOREM LifecycleInvariant == Spec => [](IInv /\ NotStarted)
BY LifecycleInit, LifecycleNext, PTL DEF Spec

(***************************************************************************)
(* What follows from it                                                    *)
(***************************************************************************)
(* Every variable has its type.                                            *)
THEOREM LifecycleTypeCorrect == Spec => []TypeOK
<1>1. IInv => TypeOK
  BY DEF IInv
<1>2. QED
  BY <1>1, LifecycleInvariant, PTL

(* proxy::start waits only when every instance of the configuration is at  *)
(* work, whatever numbers the script chose, and each has a multicast table *)
(* of its own.                                                             *)
THEOREM InstancesRun == Spec => []AllInstancesRun
<1>1. IInv => AllInstancesRun
  <2> SUFFICES ASSUME IInv, main = "loop"
               PROVE  /\ \A i \in InstSet : phase[i] = "alive" /\ worker[i] # "ended"
                      /\ \A i, j \in InstSet : number[i] = number[j] => i = j
    BY DEF AllInstancesRun
  <2>1. \A i \in InstSet : phase[i] = "alive" /\ worker[i] # "ended"
    BY DEF IInv, Stages, Working
  <2>2. InstSet \subseteq Insts
    BY DefinitionFacts DEF IInv, TypeOK
  <2>3. QED
    BY <2>1, <2>2 DEF IInv, TablesApart, Used
<1>2. QED
  BY <1>1, LifecycleInvariant, PTL

(* ~reverse_path_filter, for any flags the system had: the filters of all  *)
(* interfaces an instance uses are off as long as it is alive, and         *)
(* afterwards each is as it was or 1, wherever the set-up failed.          *)
THEOREM FiltersAreRestored == Spec => []ReversePathFilters
<1>1. IInv => ReversePathFilters
  <2> SUFFICES ASSUME IInv PROVE ReversePathFilters
    OBVIOUS
  <2>1. ASSUME m_reset_reverse_path_filter, NEW i \in InstSet, phase[i] = "alive"
        PROVE  /\ \A x \in UsedIfs(i) \ locked : rp_filter[x] = 0
               /\ UsedIfs(i) \ locked # {} /\ "all" \notin locked => rp_filter["all"] = 0
    <3>1. i \in Insts
      BY DefinitionFacts DEF IInv, TypeOK
    <3>2. Configured(i) /\ main # "ended"
      BY <2>1, <3>1 DEF Configured, Used, IInv, Stages, Gone
    <3>3. AllNoted(m_restore_if_state[i], UsedIfs(i))
      BY <2>1, <3>1, <3>2 DEF IInv, FlagsNoted
    <3>4. \A x \in m_restore_if_state[i] : rp_filter[x] = 0
      BY <3>1, <3>2 DEF IInv, FlagsNoted, TypeOK
    <3>5. QED
      BY <3>3, <3>4 DEF AllNoted
  <2>2. ASSUME main = "ended" PROVE \A x \in DOMAIN rp_filter : rp_filter[x] \in {1, rp_before[x]}
    BY <2>2 DEF IInv, FlagsNoted, TypeOK
  <2>3. ~m_reset_reverse_path_filter => rp_filter = rp_before
    BY DEF IInv, FlagsNoted
  <2>4. QED
    BY <2>1, <2>2, <2>3 DEF ReversePathFilters
<1>2. QED
  BY <1>1, LifecycleInvariant, PTL

(* handle_config, for any definition and any order of its messages: when   *)
(* none is left the instance is the one defined, and the kernel's table is *)
(* the inverse of m_if_vif.                                                *)
THEOREM InstancesAreAsDefined == Spec => []InstancesMatchDefinition
<1>1. IInv => InstancesMatchDefinition
  <2> SUFFICES ASSUME IInv, NEW i \in SettledInstances
               PROVE  /\ \A u \in m_upstreams[i] :
                            \E k \in DOMAIN defs[i].up :
                               u.if = defs[i].up[k] /\ u.priority = 100 * (k - 1)
                      /\ \A k \in DOMAIN defs[i].up : is_upstream(i, defs[i].up[k])
                      /\ \A u, w \in m_upstreams[i] : u.if = w.if => u = w
                      /\ m_downstreams[i] = {defs[i].down[k] : k \in DOMAIN defs[i].down}
                      /\ \A s \in UpstreamSettings(i) :
                            (\A r \in UpstreamSettings(i) : r[2] = s[2] => r = s)
                            => rule[i][s[2]] = s[3]
                      /\ m_relevant_if_index[i] = UsedIfs(i)
                      /\ LET given == {v \in DOMAIN m_vif_if[i] :
                                          m_vif_if[i][v] \notin refused_vifs[i]}
                         IN vifs[number[i]] = [v \in given |-> m_vif_if[i][v]]
                      /\ \A v \in DOMAIN m_vif_if[i] : m_if_vif[i][m_vif_if[i][v]] = v
                      /\ InUse(m_vif_if[i]) = UsedIfs(i)
    BY DEF InstancesMatchDefinition
  <2>1. /\ i \in InstSet /\ phase[i] = "alive" /\ queue[i] \subseteq {ExitMessage}
        /\ worker[i] = "running" /\ Started(i)
    BY DEF SettledInstances
  <2>2. i \in Insts
    BY <2>1, DefinitionFacts DEF IInv, TypeOK
  <2>3. Messages(i) /\ Roles(i) /\ Registered(i)
    BY <2>1, <2>2 DEF IInv, Progress
  <2>4. \A m \in ConfigMessages(defs[i]) : Done(i, m)
    <3>1. ExitMessage \notin ConfigMessages(defs[i])
      BY <2>1, MessageFacts DEF IInv, TypeOK
    <3>2. QED
      BY <2>1, <2>3, <3>1 DEF Messages
  <2>15. defs[i] \in Definition /\ defs[i].up \in Seq(Ifs) /\ defs[i].down \in Seq(Ifs)
    BY <2>1, DefinitionFacts DEF IInv, TypeOK
  <2>16. /\ {j \in DOMAIN defs[i].up : j <= Interfaces(defs[i])} = DOMAIN defs[i].up
         /\ {j \in DOMAIN defs[i].down : Len(defs[i].up) + j <= Interfaces(defs[i])}
              = DOMAIN defs[i].down
    <3>1. /\ Len(defs[i].up) \in Nat /\ Len(defs[i].down) \in Nat
          /\ DOMAIN defs[i].up = 1 .. Len(defs[i].up)
          /\ DOMAIN defs[i].down = 1 .. Len(defs[i].down)
      BY <2>15
    <3>2. \A a, b \in Nat : /\ \A j \in 1 .. a : j <= a + b
                            /\ \A j \in 1 .. b : a + j <= a + b
      OBVIOUS
    <3>3. /\ \A j \in DOMAIN defs[i].up : j <= Interfaces(defs[i])
          /\ \A j \in DOMAIN defs[i].down : Len(defs[i].up) + j <= Interfaces(defs[i])
      BY <3>1, <3>2, Zenon DEF Interfaces
    <3>4. QED
      BY <3>3, Zenon
  <2>5. \A k \in DOMAIN defs[i].up : is_upstream(i, defs[i].up[k])
    <3> TAKE k \in DOMAIN defs[i].up
    <3> DEFINE m == [type |-> "ADD_UPSTREAM", if |-> defs[i].up[k], priority |-> 100 * (k - 1)]
    <3>1. m \in ConfigMessages(defs[i])
      BY <2>16 DEF ConfigMessages, QueuedMessages
    <3>2. m.type = "ADD_UPSTREAM" /\ m.if = defs[i].up[k]
      OBVIOUS
    <3> HIDE DEF m
    <3>3. QED
      BY <2>4, <3>1, <3>2 DEF Done
  <2>6. m_downstreams[i] = {defs[i].down[k] : k \in DOMAIN defs[i].down}
    <3>1. ASSUME NEW k \in DOMAIN defs[i].down PROVE defs[i].down[k] \in m_downstreams[i]
      <4> DEFINE m == [type |-> "ADD_DOWNSTREAM", if |-> defs[i].down[k]]
      <4>1. m \in ConfigMessages(defs[i])
        BY <2>16 DEF ConfigMessages, QueuedMessages
      <4>2. m.type = "ADD_DOWNSTREAM" /\ m.if = defs[i].down[k]
        OBVIOUS
      <4> HIDE DEF m
      <4>3. QED
        BY <2>4, <4>1, <4>2 DEF Done, is_downstream
    <3>2. QED
      BY <2>3, <3>1 DEF Roles
  <2>7. ASSUME NEW s \in UpstreamSettings(i), \A r \in UpstreamSettings(i) : r[2] = s[2] => r = s
        PROVE  rule[i][s[2]] = s[3]
    <3> DEFINE m == [type |-> "SET_GLOBAL_RULE_BINDING", if_type |-> s[1], direction |-> s[2],
                     rule |-> s[3]]
    <3>1. m \in ConfigMessages(defs[i])
      BY <2>16 DEF ConfigMessages, QueuedMessages, UpstreamSettings
    <3>2. /\ m.type = "SET_GLOBAL_RULE_BINDING" /\ m.if_type = "IT_UPSTREAM"
          /\ m.direction = s[2] /\ m.rule = s[3]
      BY DEF UpstreamSettings
    <3> HIDE DEF m
    <3>3. \A r \in UpstreamSettings(i) : r[2] = m.direction => r[3] = m.rule
      BY <2>7, <3>2
    <3>4. QED
      BY <2>4, <3>1, <3>2, <3>3 DEF Done
  <2>8. UsedIfs(i) \subseteq Ifs
    BY <2>1, InterfaceList DEF IInv, TypeOK
  <2>9. m_relevant_if_index[i] = UsedIfs(i)
    <3>1. m_relevant_if_index[i] \subseteq Ifs
      BY <2>2 DEF IInv, TypeOK
    <3>2. \A x : is_upstream(i, x) <=> x \in {defs[i].up[k] : k \in DOMAIN defs[i].up}
      BY <2>3, <2>5 DEF Roles, is_upstream
    <3>3. \A x : is_downstream(i, x) <=> x \in {defs[i].down[k] : k \in DOMAIN defs[i].down}
      BY <2>6 DEF is_downstream
    <3>4. \A x \in Ifs : x \in m_relevant_if_index[i] <=> x \in UsedIfs(i)
      BY <2>3, <3>2, <3>3 DEF Registered, UsedIfs
    <3>5. QED
      BY <2>8, <3>1, <3>4
  <2>10. InverseMaps(m_if_vif[i], m_vif_if[i], UsedIfs(i))
    BY <2>1, <2>2 DEF IInv, MapsOK, Configured, Used
  <2> DEFINE given == {v \in DOMAIN m_vif_if[i] : m_vif_if[i][v] \notin refused_vifs[i]}
  <2>11. {m_if_vif[i][x] : x \in UsedIfs(i) \ refused_vifs[i]} = given
    BY <2>10 DEF InverseMaps
  <2>12. vifs[number[i]] = [v \in given |-> m_vif_if[i][v]]
    BY <2>3, <2>9, <2>11 DEF Registered
  <2>13. /\ \A v \in DOMAIN m_vif_if[i] : m_if_vif[i][m_vif_if[i][v]] = v
         /\ InUse(m_vif_if[i]) = UsedIfs(i)
    BY <2>10 DEF InverseMaps, InUse
  <2>14. QED
    BY <2>3, <2>5, <2>6, <2>7, <2>9, <2>12, <2>13 DEF Roles
<1>2. QED
  BY <1>1, LifecycleInvariant, PTL
=============================================================================

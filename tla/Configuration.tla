---------------------------- MODULE Configuration ----------------------------
(***************************************************************************)
(* The configuration script: configuration::run_parser (configuration.cpp) *)
(* hands one command after the other to the parser (parser.cpp), which     *)
(* builds the tables, the instance definitions and the filters of their    *)
(* interfaces (interface.cpp); the filters are what the routing management *)
(* asks later (match_input_filter and match_output_filter of module        *)
(* Aggregation).                                                           *)
(*                                                                         *)
(* A command is a sequence of tokens.  A string token stands for a whole   *)
(* name, number or address: Number and AddrOf say which strings stoi and   *)
(* inet_pton accept and what they return.                                  *)
(***************************************************************************)
EXTENDS Addresses

CONSTANTS Commands,     \* [tokens, ast]: what a line may hold, and its meaning
          Number,       \* stoi
          AddrOf,       \* inet_pton, with the address family of the notation
          Packets,      \* [if_name, gaddr, saddr]: what the filters are asked
          BuildChoices, \* subset of Builds
          MaxCommands,  \* bound: commands of a script
          MaxEdited     \* bound: position of a malformed command in a script

ASSUME BuildAssumption == BuildChoices \subseteq Builds
ASSUME AddrAssumption ==
    \A s \in DOMAIN AddrOf : AddrOf[s] \in Address(AddrOf[s].family)

VARIABLES build,               \* how the processor shifts
          m_gmp,               \* group membership protocol
          m_global_table_set,  \* tables by name
          m_inst_def_set,      \* instance definitions by name
          script,              \* meaning of the commands read so far
          status               \* "loading", "parsing", "unopened" without a file,
                               \* or "failed" after an exception of the parser (for
                               \* a prefix that is too long: after std::terminate)

vars == <<build, m_gmp, m_global_table_set, m_inst_def_set, script, status>>

Protocols == {"MLDv1", "MLDv2", "IGMPv1", "IGMPv2", "IGMPv3"}
get_addr_family(gmp) ==
    IF gmp \in {"MLDv1", "MLDv2"} THEN "AF_INET6" ELSE "AF_INET"

------------------------------------------------------------------------------
(* Tokens.                                                                 *)

get_next_token(cmd, i) ==
    IF i \in DOMAIN cmd THEN cmd[i] ELSE [type |-> "TT_NIL", string |-> ""]
Type(cmd, i)   == get_next_token(cmd, i).type
String(cmd, i) == get_next_token(cmd, i).string

(* The first position from i on whose token is not of one of the types.    *)
AfterRun(cmd, i, types) ==
    CHOOSE j \in i .. Len(cmd) + 1 :
        /\ \A k \in i .. j - 1 : Type(cmd, k) \in types
        /\ Type(cmd, j) \notin types
Strings(cmd, i, j) == [k \in 1 .. j - i |-> String(cmd, i + k - 1)]

get_parser_type(cmd) ==
    CASE Type(cmd, 1) = "TT_PROTOCOL" -> "PT_PROTOCOL"
      [] Type(cmd, 1) = "TT_TABLE" -> "PT_TABLE"
      [] /\ Type(cmd, 1) = "TT_PINSTANCE"
         /\ Type(cmd, 3) \in {"TT_DOUBLE_DOT", "TT_LEFT_BRACKET"}
         -> "PT_INSTANCE_DEFINITION"
      [] /\ Type(cmd, 1) = "TT_PINSTANCE"
         /\ Type(cmd, 3) \in {"TT_UPSTREAM", "TT_DOWNSTREAM"}
         -> "PT_INTERFACE_RULE_BINDING"
      [] OTHER -> "error"     \* "disable" throws as well

(* What a parser function returns: whether it did not throw, the position  *)
(* of m_current_token and the result.                                      *)
Result(pos, val) == [ok |-> TRUE, pos |-> pos, val |-> val]
Throw == [ok |-> FALSE]

------------------------------------------------------------------------------
(* Addresses and rules.                                                    *)

get_addr(cmd, i) ==
    LET j == AfterRun(cmd, i, {"TT_STRING", "TT_DOT", "TT_DOUBLE_DOT"})
    IN IF /\ j = i + 1
          /\ String(cmd, i) \in DOMAIN AddrOf
          /\ AddrOf[String(cmd, i)].family = get_addr_family(m_gmp)
       THEN Result(j, AddrOf[String(cmd, i)])
       ELSE Throw

(* An address or the wildcard.                                             *)
AddrOrStar(cmd, i) ==
    CASE Type(cmd, i) = "TT_STRING" -> get_addr(cmd, i)
      [] Type(cmd, i) = "TT_STAR" ->
            Result(i + 1, addr_storage(get_addr_family(m_gmp)))
      [] OTHER -> Throw

single_addr(a)      == [type |-> "single_addr", from |-> a, to |-> a]
addr_range(from, to) == [type |-> "addr_range", from |-> from, to |-> to]

EndOfPart == {"TT_RIGHT_BRACKET", "TT_PIPE"}
(* "from / prefix" and "from - to", with the tokens after the address.     *)
subnet_part(from, prefix) ==
    Result(from.pos + 2, addr_range(mask(build, from.val, prefix),
                                    broadcast_addr(build, from.val, prefix)))
range_part(cmd, from, to) ==
    IF to.ok /\ Type(cmd, to.pos) \in EndOfPart
    THEN Result(to.pos, addr_range(from.val, to.val))
    ELSE Throw
part_from(cmd, from) ==
    CASE ~from.ok -> Throw
      [] from.ok /\ Type(cmd, from.pos) \in EndOfPart ->
            Result(from.pos, single_addr(from.val))
      [] /\ from.ok
         /\ Type(cmd, from.pos) = "TT_SLASH"
         /\ Type(cmd, from.pos + 1) = "TT_STRING"
         /\ String(cmd, from.pos + 1) \in DOMAIN Number
         /\ Number[String(cmd, from.pos + 1)] \in 0 .. Bits("AF_INET6")
         /\ Type(cmd, from.pos + 2) \in EndOfPart ->
            subnet_part(from, Number[String(cmd, from.pos + 1)])
      [] from.ok /\ Type(cmd, from.pos) = "TT_RANGE" ->
            range_part(cmd, from, AddrOrStar(cmd, from.pos + 1))
      [] OTHER -> Throw
parse_rule_part(cmd, i) == part_from(cmd, AddrOrStar(cmd, i))

rule_addr(if_name, group, source) ==
    [type |-> "rule_addr", if_name |-> if_name, group |-> group, source |-> source]
rule_table(t)        == [type |-> "rule_table", table |-> t]
rule_table_ref(name) == [type |-> "rule_table_ref", name |-> name]
table(name, boxes)   == [name |-> name, rule_box_list |-> boxes]

source_of_rule(cmd, if_name, group, source) ==
    IF source.ok /\ Type(cmd, source.pos) = "TT_RIGHT_BRACKET"
    THEN Result(source.pos, rule_addr(if_name, group, source.val))
    ELSE Throw
group_of_rule(cmd, if_name, group) ==
    IF group.ok /\ Type(cmd, group.pos) = "TT_PIPE"
    THEN source_of_rule(cmd, if_name, group.val, parse_rule_part(cmd, group.pos + 1))
    ELSE Throw
parse_addr_rule(cmd, i, if_name) ==
    group_of_rule(cmd, if_name, parse_rule_part(cmd, i))

(* Names of tables that can be referred to when a reference is parsed.     *)
KnownTables_any == {t.string : t \in UNION {{c.tokens[i] : i \in DOMAIN c.tokens} :
                                                c \in Commands}}
KnownTables == DOMAIN m_global_table_set

RECURSIVE parse_table(_, _, _), parse_rule(_, _), parse_rules(_, _, _),
          rules_after(_, _, _)
table_of_rules(cmd, name, end, rules) ==
    IF /\ rules.ok
       /\ Type(cmd, rules.pos) = "TT_RIGHT_BRACE"
       /\ Type(cmd, rules.pos + 1) = end
    THEN Result(rules.pos + 1, table(name, rules.val))
    ELSE Throw
(* parse_table from the token "table" at i; end is the token that follows. *)
parse_table(cmd, i, end) ==
    CASE Type(cmd, i) # "TT_TABLE" -> Throw
      [] Type(cmd, i) = "TT_TABLE" /\ Type(cmd, i + 2) = end ->
            IF Type(cmd, i + 1) = "TT_STRING" /\ String(cmd, i + 1) \in KnownTables
            THEN Result(i + 2, table("", <<rule_table_ref(String(cmd, i + 1))>>))
            ELSE Throw
      [] Type(cmd, i) = "TT_TABLE" /\ Type(cmd, i + 2) # end ->
            LET open == IF Type(cmd, i + 1) = "TT_STRING" THEN i + 2 ELSE i + 1
            IN IF Type(cmd, open) = "TT_LEFT_BRACE"
               THEN table_of_rules(cmd, IF open = i + 2 THEN String(cmd, i + 1) ELSE "",
                                   end, parse_rules(cmd, open + 1, <<>>))
               ELSE Throw

(* One rule; an interface name in front of a nested table is dropped.      *)
nested_table(inner) ==
    IF inner.ok THEN Result(inner.pos, rule_table(inner.val)) ELSE Throw
parse_rule(cmd, i) ==
    LET open == IF Type(cmd, i) = "TT_STRING" THEN i + 1 ELSE i
    IN CASE Type(cmd, open) # "TT_LEFT_BRACKET" -> Throw
         [] Type(cmd, open) = "TT_LEFT_BRACKET" /\ Type(cmd, open + 1) = "TT_TABLE" ->
               nested_table(parse_table(cmd, open + 1, "TT_RIGHT_BRACKET"))
         [] Type(cmd, open) = "TT_LEFT_BRACKET" /\ Type(cmd, open + 1) # "TT_TABLE" ->
               parse_addr_rule(cmd, open + 1,
                               IF open = i THEN "" ELSE String(cmd, i))

(* The loop over the rules of a table.                                     *)
rules_after(cmd, r, boxes) ==
    IF r.ok THEN parse_rules(cmd, r.pos + 1, Append(boxes, r.val)) ELSE Throw
parse_rules(cmd, i, boxes) ==
    IF Type(cmd, i) \notin {"TT_STRING", "TT_LEFT_BRACKET"} THEN Result(i, boxes)
    ELSE rules_after(cmd, parse_rule(cmd, i), boxes)

------------------------------------------------------------------------------
(* Matching.                                                               *)

is_wildcard(a, family) == a = addr_storage(family)
addr_match(m, a) ==
    IF m.type = "single_addr"
    THEN a = m.from \/ is_wildcard(m.from, a.family)
    ELSE /\ GreaterEq(a, m.from) \/ is_wildcard(m.from, a.family)
         /\ LessEq(a, m.to) \/ is_wildcard(m.to, a.family)

RECURSIVE table_match(_, _)
rule_match(box, p) ==
    CASE box.type = "rule_addr" ->
            /\ box.if_name = "" \/ box.if_name = p.if_name
            /\ addr_match(box.group, p.gaddr)
            /\ addr_match(box.source, p.saddr)
      [] box.type = "rule_table" -> table_match(box.table, p)
      [] box.type = "rule_table_ref" ->
            /\ box.name \in DOMAIN m_global_table_set
            /\ table_match(m_global_table_set[box.name], p)
table_match(t, p) ==
    \E i \in DOMAIN t.rule_box_list : rule_match(t.rule_box_list[i], p)

rule_binding_match(rb, p) ==
    IF rb.filter_type = "FT_BLACKLIST" THEN ~table_match(rb.table, p)
                                       ELSE table_match(rb.table, p)

(* The interfaces of an instance are told apart by role and position.      *)
Position(list, name) == CHOOSE k \in DOMAIN list :
                            list[k] = name /\ \A j \in 1 .. k - 1 : list[j] # name
List(inst, type) == IF type = "IT_UPSTREAM" THEN inst.upstreams ELSE inst.downstreams

match_filter(inst, type, if_name, direction, p) ==
    LET key == <<type, Position(List(inst, type), if_name), direction>>
    IN IF key \in DOMAIN inst.filters THEN rule_binding_match(inst.filters[key], p)
                                      ELSE TRUE

------------------------------------------------------------------------------
(* One command: what it changes, or status = "failed" with the rest alone. *)

Fail == /\ status' = "failed"
        /\ UNCHANGED <<m_gmp, m_global_table_set, m_inst_def_set>>
Succeed(gmp, tables, insts) ==
    /\ m_gmp' = gmp /\ m_global_table_set' = tables /\ m_inst_def_set' = insts
    /\ UNCHANGED status

parse_group_mem_proto(cmd) ==
    IF Type(cmd, 2) \in Protocols /\ Type(cmd, 3) = "TT_NIL"
    THEN Succeed(Type(cmd, 2), m_global_table_set, m_inst_def_set)
    ELSE Fail

instance_definition(up, down, number, selected) ==
    [upstreams |-> up, downstreams |-> down, table_number |-> number,
     user_selected_table_number |-> selected, filters |-> <<>>,
     global_settings |-> <<>>]

parse_instance_definition(cmd) ==
    LET selected == Type(cmd, 3) = "TT_LEFT_BRACKET"
        colon == IF selected THEN 6 ELSE 3
        arrow == AfterRun(cmd, colon + 1, {"TT_STRING"})
        end   == AfterRun(cmd, arrow + 1, {"TT_STRING"})
        name  == String(cmd, 2)
    IN IF /\ Type(cmd, 2) = "TT_STRING"
          /\ selected => /\ Type(cmd, 4) = "TT_STRING"
                         /\ String(cmd, 4) \in DOMAIN Number
                         /\ Type(cmd, 5) = "TT_RIGHT_BRACKET"
          /\ Type(cmd, colon) = "TT_DOUBLE_DOT"
          /\ Type(cmd, arrow) = "TT_ARROW"
          /\ end > arrow + 1 /\ Type(cmd, end) = "TT_NIL"
          /\ name \notin DOMAIN m_inst_def_set
       THEN Succeed(m_gmp, m_global_table_set,
                [n \in DOMAIN m_inst_def_set \cup {name} |->
                    IF n # name THEN m_inst_def_set[n]
                    ELSE instance_definition(Strings(cmd, colon + 1, arrow),
                             Strings(cmd, arrow + 1, end),
                             IF selected THEN Number[String(cmd, 4)] ELSE 0,
                             selected)])
       ELSE Fail

(* The table of run_parser is inserted unless one has its name.            *)
insert_last(t) ==
    IF t.ok
    THEN Succeed(m_gmp, [n \in DOMAIN m_global_table_set \cup {t.val.name} |->
                             IF n = t.val.name THEN t.val ELSE m_global_table_set[n]],
                 m_inst_def_set)
    ELSE Fail
insert(t) ==
    IF t.ok /\ t.val.name \notin DOMAIN m_global_table_set
    THEN Succeed(m_gmp, [n \in DOMAIN m_global_table_set \cup {t.val.name} |->
                             IF n = t.val.name THEN t.val ELSE m_global_table_set[n]],
                 m_inst_def_set)
    ELSE Fail
parse_global_table(cmd) == insert(parse_table(cmd, 1, "TT_NIL"))

(* The filter becomes the one of the interface unless it has one.          *)
add_filter(name, key, filter_type, t) ==
    IF t.ok /\ key \notin DOMAIN m_inst_def_set[name].filters
    THEN Succeed(m_gmp, m_global_table_set,
             [m_inst_def_set EXCEPT ![name].filters =
                 [k \in DOMAIN @ \cup {key} |->
                     IF k = key THEN [filter_type |-> filter_type, table |-> t.val]
                                ELSE @[k]]])
    ELSE Fail
parse_interface_table_binding(cmd, name, type, if_name, direction) ==
    LET list == List(m_inst_def_set[name], type)
    IN IF \E k \in DOMAIN list : list[k] = if_name
       THEN add_filter(name, <<type, Position(list, if_name), direction>>,
                       IF Type(cmd, 6) = "TT_WHITELIST" THEN "FT_WHITELIST"
                                                        ELSE "FT_BLACKLIST",
                       parse_table(cmd, 7, "TT_NIL"))
       ELSE Fail

parse_interface_rule_match_binding(cmd, name, type, if_name, direction) ==
    LET mutex == Type(cmd, 7) = "TT_MUTEX"
        end   == IF mutex THEN 9 ELSE 8
    IN IF /\ Type(cmd, 7) \in {"TT_ALL", "TT_FIRST", "TT_MUTEX"}
          /\ mutex => Type(cmd, 8) = "TT_STRING" /\ String(cmd, 8) \in DOMAIN Number
          /\ Type(cmd, end) = "TT_NIL"
       THEN Succeed(m_gmp, m_global_table_set,
                [m_inst_def_set EXCEPT ![name].global_settings =
                    Append(@, [type |-> type, if_name |-> if_name,
                               direction |-> direction, matching |-> Type(cmd, 7),
                               timeout |-> IF mutex THEN Number[String(cmd, 8)] ELSE 0])])
       ELSE Fail

parse_interface_rule_binding(cmd) ==
    LET type == IF Type(cmd, 3) = "TT_UPSTREAM" THEN "IT_UPSTREAM" ELSE "IT_DOWNSTREAM"
        if_name == IF Type(cmd, 4) = "TT_STAR" THEN "*" ELSE String(cmd, 4)
        direction == IF Type(cmd, 5) = "TT_IN" THEN "ID_IN" ELSE "ID_OUT"
    IN IF /\ Type(cmd, 2) = "TT_STRING" /\ String(cmd, 2) \in DOMAIN m_inst_def_set
          /\ Type(cmd, 4) \in {"TT_STRING", "TT_STAR"}
          /\ Type(cmd, 5) \in {"TT_IN", "TT_OUT"}
          /\ Type(cmd, 6) \in {"TT_WHITELIST", "TT_BLACKLIST", "TT_RULE_MATCHING"}
       THEN IF Type(cmd, 6) = "TT_RULE_MATCHING"
            THEN parse_interface_rule_match_binding(cmd, String(cmd, 2), type, if_name, direction)
            ELSE parse_interface_table_binding(cmd, String(cmd, 2), type, if_name, direction)
       ELSE Fail

run_parser(cmd) ==
    CASE get_parser_type(cmd) = "PT_PROTOCOL" -> parse_group_mem_proto(cmd)
      [] get_parser_type(cmd) = "PT_INSTANCE_DEFINITION" -> parse_instance_definition(cmd)
      [] get_parser_type(cmd) = "PT_TABLE" -> parse_global_table(cmd)
      [] get_parser_type(cmd) = "PT_INTERFACE_RULE_BINDING" -> parse_interface_rule_binding(cmd)
      [] OTHER -> Fail

------------------------------------------------------------------------------
Init ==
    /\ build \in BuildChoices
    /\ m_gmp = "IGMPv3"
    /\ m_global_table_set = <<>> /\ m_inst_def_set = <<>>
    /\ script = <<>> /\ status = "loading"

(* The constructor of configuration reads the file, or throws without one.  *)
LoadFile ==
    /\ status = "loading"
    /\ status' \in {"parsing", "unopened"}
    /\ UNCHANGED <<build, m_gmp, m_global_table_set, m_inst_def_set, script>>

ReadCommand(c) ==
    /\ status = "parsing"
    /\ Len(script) < IF c.ast.kind = "malformed" THEN MaxEdited ELSE MaxCommands
    /\ run_parser(c.tokens)
    /\ script' = Append(script, c.ast)
    /\ UNCHANGED build

Next == LoadFile \/ \E c \in Commands : ReadCommand(c)

Spec == Init /\ [][Next]_vars

------------------------------------------------------------------------------
(***************************************************************************)
(* Reference: the meaning of a script, taken from the grammar in           *)
(* references/parser/script_ebnf and not from the parser.  A part of a     *)
(* rule denotes a set of addresses, a rule a set of packets, a table the   *)
(* union of its rules.  A rule is about addresses of the family that was   *)
(* in force where it was written.                                          *)
(***************************************************************************)
FamilyAt(k) ==
    LET P == {j \in 1 .. k - 1 : script[j].kind = "protocol"}
    IN IF P = {} THEN "AF_INET"
       ELSE get_addr_family(script[CHOOSE j \in P : \A i \in P : i <= j].gmp)

Denotes(part, family, a) ==
    LET from == IF part.from = "*" THEN addr_storage(family) ELSE AddrOf[part.from]
        to   == IF part.to = "*" THEN addr_storage(family) ELSE AddrOf[part.to]
    IN /\ a.family = family
       /\ CASE part.sort = "addr"  -> part.from = "*" \/ a = from
            [] part.sort = "net"   -> SameSubnet(from, a, part.prefix)
            [] part.sort = "range" -> /\ part.from = "*" \/ Value(from) <= Value(a)
                                      /\ part.to = "*" \/ Value(a) <= Value(to)

RECURSIVE Covers(_, _, _), RulesLegal(_, _), RulesExact(_, _)
Covers(rules, k, p) ==
    \E i \in DOMAIN rules : LET r == rules[i] IN
        CASE r.sort = "rule" -> /\ r.if_name = "" \/ r.if_name = p.if_name
                                /\ Denotes(r.group, FamilyAt(k), p.gaddr)
                                /\ Denotes(r.source, FamilyAt(k), p.saddr)
          [] r.sort = "nested" -> Covers(r.rules, k, p)
          [] r.sort = "ref" -> \E j \in 1 .. k - 1 :
                                  /\ script[j].kind = "table" /\ script[j].name = r.name
                                  /\ Covers(script[j].rules, j, p)
          [] r.sort = "path" -> FALSE     \* the grammar gives it no meaning

IsFilter(k, name, type, if_name, direction) ==
    /\ script[k].kind = "filter" /\ script[k].inst = name /\ script[k].type = type
    /\ script[k].if_name = if_name /\ script[k].direction = direction

Verdict(name, type, if_name, direction, p) ==
    \A k \in DOMAIN script : IsFilter(k, name, type, if_name, direction) =>
        (script[k].list = "TT_WHITELIST") = Covers(script[k].rules, k, p)

(* A part that is an address of the family in force, with a prefix in range *)
PartLegal(part, k) ==
    /\ \A s \in {part.from, part.to} \ {"*"} :
          s \in DOMAIN AddrOf /\ AddrOf[s].family = FamilyAt(k)
    /\ part.prefix \in 0 .. Bits("AF_INET6")
RulesLegal(rules, k) ==
    \A i \in DOMAIN rules : LET r == rules[i] IN
        CASE r.sort = "rule" -> PartLegal(r.group, k) /\ PartLegal(r.source, k)
          [] r.sort = "nested" -> RulesLegal(r.rules, k)
          [] r.sort = "ref" -> \E j \in 1 .. k - 1 : /\ script[j].kind = "table"
                                                     /\ script[j].name = r.name
          [] r.sort = "path" -> TRUE

(* The prefixes whose shift by the whole prefix is right on this build.     *)
Exact(prefix, family) ==
    \/ prefix < WordBits
    \/ family = "AF_INET" /\ build = "zero"
    \/ family = "AF_INET6" /\ (build = "modulo" \/ prefix % WordBits = 0)
RulesExact(rules, k) ==
    \A i \in DOMAIN rules : LET r == rules[i] IN
        CASE r.sort = "rule" -> \A part \in {r.group, r.source} :
                                   part.sort = "net" => Exact(part.prefix, FamilyAt(k))
          [] r.sort = "nested" -> RulesExact(r.rules, k)
          [] OTHER -> TRUE

Legal(k) ==
    LET c == script[k]
        Before(kind, name) == {j \in 1 .. k - 1 : /\ script[j].kind = kind
                                                  /\ script[j].name = name}
    IN CASE c.kind \in {"protocol", "disable"} -> TRUE
         [] c.kind = "instance" -> Before("instance", c.name) = {}
         [] c.kind = "table" -> Before("table", c.name) = {} /\ RulesLegal(c.rules, k)
         [] c.kind = "matching" -> Before("instance", c.inst) # {}
         [] c.kind = "filter" ->
               /\ \E j \in Before("instance", c.inst) :
                     LET list == IF c.type = "IT_UPSTREAM" THEN script[j].up
                                                           ELSE script[j].down
                     IN \E i \in DOMAIN list : list[i] = c.if_name
               /\ \A j \in 1 .. k - 1 :
                     ~IsFilter(j, c.inst, c.type, c.if_name, c.direction)
               /\ RulesLegal(c.rules, k)
         [] c.kind = "malformed" -> FALSE

(* Every interface of a definition in its role, in both directions.        *)
Asked == {<<n, t, i, d>> \in (DOMAIN m_inst_def_set) \X {"IT_UPSTREAM", "IT_DOWNSTREAM"}
                             \X {p.if_name : p \in Packets} \X {"ID_IN", "ID_OUT"} :
             \E k \in DOMAIN List(m_inst_def_set[n], t) :
                 List(m_inst_def_set[n], t)[k] = i}

------------------------------------------------------------------------------
(* The types of the variables.                                             *)
TypeOK ==
    /\ build \in Builds
    /\ m_gmp \in Protocols
    /\ status \in {"loading", "parsing", "unopened", "failed"}
    /\ \A n \in DOMAIN m_global_table_set : m_global_table_set[n].name = n
    /\ \A n \in DOMAIN m_inst_def_set : m_inst_def_set[n].downstreams # <<>>

(* parser.cpp and the language of the commands agree: run_parser throws    *)
(* exactly when one of the commands is not in the language or is used out  *)
(* of context (a name defined twice, a table or an instance used before    *)
(* its definition, a second filter for the same direction, an address of   *)
(* the other family).  Commands says which language is meant.              *)
AcceptsTheLanguage ==
    (status = "failed") <=> \E k \in DOMAIN script : ~Legal(k)

(* match_input_filter and match_output_filter give, for every packet, the  *)
(* verdict the script asks for: through nested tables and references,      *)
(* wildcards, ranges and prefixes, and true where there is no filter.  The *)
(* grammar's comment allows every prefix up to the length of an address.   *)
FiltersMeanTheScript ==
    status = "parsing" =>
        \A q \in Asked, p \in Packets :
            match_filter(m_inst_def_set[q[1]], q[2], q[3], q[4], p)
                = Verdict(q[1], q[2], q[3], q[4], p)

(* The same for the scripts with no prefix that the shift of mask and      *)
(* broadcast_addr gets wrong on the build at hand: on one that shifts      *)
(* modulo the width these are the IPv4 prefixes of full length, on one     *)
(* that shifts everything out the IPv6 prefixes that end inside a later    *)
(* word.  All the other prefixes, and every other filter, mean what the    *)
(* script says on both.                                                    *)
ExactFiltersMeanTheScript ==
    (\A k \in DOMAIN script : script[k].kind \in {"table", "filter"} =>
        RulesExact(script[k].rules, k)) => FiltersMeanTheScript

(* Once an interface has a filter, no later command changes its verdicts:   *)
(* rule_table_ref resolves a name when it matches, so this rests on tables  *)
(* being defined before they are used and never replaced.                   *)
BoundFiltersAreStable ==
    [][\A n \in DOMAIN m_inst_def_set : \A key \in DOMAIN m_inst_def_set[n].filters :
          \A p \in Packets :
              rule_binding_match(m_inst_def_set[n].filters[key], p)'
                  = rule_binding_match(m_inst_def_set[n].filters[key], p)]_vars
=============================================================================

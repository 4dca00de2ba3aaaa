--------------------------- MODULE RoutingProofs ---------------------------
(***************************************************************************)
(* Proofs about the routing management: what the aggregation asks for, and *)
(* that routes, records and learned sources follow the memberships and the *)
(* packets.  For any number of interfaces, sources and configurations.     *)
(***************************************************************************)
EXTENDS Routing, Induction, FiniteSetTheorems, SequenceTheorems, TLAPS

(***************************************************************************)
(* Merging memberships                                                     *)
(***************************************************************************)
(* The merged membership wants what one of the two wants.                  *)
LEMMA MergeWants ==
    ASSUME NEW to \in SourceState, NEW from \in SourceState
    PROVE  /\ merge_membership_infos(to, from) \in SourceState
           /\ \A s \in Sources : Wants(merge_membership_infos(to, from), s)
                                    <=> Wants(to, s) \/ Wants(from, s)
           /\ merge_membership_infos(to, from).mode = "INCLUDE_MODE"
                 <=> to.mode = "INCLUDE_MODE" /\ from.mode = "INCLUDE_MODE"
<1>1. to.mode \in FilterModes /\ from.mode \in FilterModes
  BY DEF SourceState
<1>2. CASE to.mode = "INCLUDE_MODE" /\ from.mode = "INCLUDE_MODE"
  <2>1. merge_membership_infos(to, from)
          = [mode |-> "INCLUDE_MODE", sources |-> to.sources \cup from.sources]
    BY <1>2 DEF merge_membership_infos, SourceState
  <2>2. QED
    BY <1>2, <2>1 DEF SourceState, FilterModes, Wants
<1>3. CASE to.mode = "INCLUDE_MODE" /\ from.mode = "EXCLUDE_MODE"
  <2>1. merge_membership_infos(to, from)
          = [mode |-> "EXCLUDE_MODE", sources |-> from.sources \ to.sources]
    BY <1>3 DEF merge_membership_infos
  <2>2. QED
    BY <1>3, <2>1 DEF SourceState, FilterModes, Wants
<1>4. CASE to.mode = "EXCLUDE_MODE" /\ from.mode = "INCLUDE_MODE"
  <2>1. merge_membership_infos(to, from)
          = [mode |-> "EXCLUDE_MODE", sources |-> to.sources \ from.sources]
    BY <1>4 DEF merge_membership_infos, SourceState
  <2>2. QED
    BY <1>4, <2>1 DEF SourceState, FilterModes, Wants
<1>5. CASE to.mode = "EXCLUDE_MODE" /\ from.mode = "EXCLUDE_MODE"
  <2>1. merge_membership_infos(to, from)
          = [mode |-> "EXCLUDE_MODE", sources |-> to.sources \cap from.sources]
    BY <1>5 DEF merge_membership_infos, SourceState
  <2>2. QED
    BY <1>5, <2>1 DEF SourceState, FilterModes, Wants
<1>6. QED
  BY <1>1, <1>2, <1>3, <1>4, <1>5 DEF FilterModes

(* A list of memberships.                                                  *)
Lists == UNION {[D -> SourceState] : D \in SUBSET Downstreams}

(* What it is to be one.                                                   *)
LEMMA ListsElim ==
    ASSUME NEW list \in Lists
    PROVE  /\ DOMAIN list \in SUBSET Downstreams /\ list \in [DOMAIN list -> SourceState]
           /\ IsFiniteSet(DOMAIN list)
<1>1. PICK D \in SUBSET Downstreams : list \in [D -> SourceState]
  BY DEF Lists
<1>2. DOMAIN list = D
  BY <1>1
<1>3. IsFiniteSet(D)
  BY InterfacesAssumption, FS_Subset
<1>4. QED
  BY <1>1, <1>2, <1>3

(* The fold of get_group_memberships takes one membership at a time.       *)
LEMMA GroupMembershipsFold ==
    ASSUME NEW list \in Lists
    PROVE  \E iter \in [SUBSET (DOMAIN list) -> SourceState] :
              /\ iter[{}] = NewSourceState
              /\ \A T \in SUBSET (DOMAIN list) : T # {} =>
                    \E x \in T : iter[T] = merge_membership_infos(iter[T \ {x}], list[x])
              /\ get_group_memberships(list) = iter[DOMAIN list]
<1> DEFINE D == DOMAIN list
           c == [T \in SUBSET D |-> CHOOSE x \in T : TRUE]
           G == [p \in (SUBSET D) \X SourceState |->
                    IF p[1] = {} THEN NewSourceState
                    ELSE merge_membership_infos(p[2], list[c[p[1]]])]
           Body(f) == [T \in SUBSET D |->
                         IF T = {} THEN NewSourceState
                         ELSE merge_membership_infos(f[T \ {CHOOSE x \in T : TRUE}],
                                                     list[CHOOSE x \in T : TRUE])]
           iter == CHOOSE f : f = Body(f)
<1>1. D \in SUBSET Downstreams /\ list \in [D -> SourceState] /\ IsFiniteSet(D)
  BY ListsElim
<1>2. \A T \in SUBSET D : T # {} => (CHOOSE x \in T : TRUE) \in T
  OBVIOUS
<1>3. Picks(c, D)
  BY <1>2 DEF Picks
<1>4. NewSourceState \in SourceState
  BY DEF NewSourceState, SourceState, FilterModes
<1>5. G \in [(SUBSET D) \X SourceState -> SourceState]
  <2> SUFFICES ASSUME NEW T \in SUBSET D, NEW m \in SourceState, T # {}
               PROVE  merge_membership_infos(m, list[c[T]]) \in SourceState
    BY <1>4
  <2>1. list[c[T]] \in SourceState
    BY <1>1, <1>3 DEF Picks
  <2>2. QED
    BY <2>1, MergeWants
<1>6. PICK f \in [SUBSET D -> SourceState] : FoldedBy(f, NewSourceState, c, G, D)
  <2> HIDE DEF D, c, G
  <2>1. QED
    BY <1>1, <1>3, <1>4, <1>5, SubsetRecursion
<1>7. f = Body(f)
  <2>1. ASSUME NEW T \in SUBSET D PROVE f[T] = Body(f)[T]
    <3>1. f[T] = IF T = {} THEN NewSourceState ELSE G[<<T, f[T \ {c[T]}]>>]
      BY <1>6 DEF FoldedBy
    <3>2. T \ {c[T]} \in SUBSET D
      OBVIOUS
    <3>3. f[T \ {c[T]}] \in SourceState
      BY <3>2
    <3>4. T # {} => G[<<T, f[T \ {c[T]}]>>] = merge_membership_infos(f[T \ {c[T]}], list[c[T]])
      <4> HIDE DEF c, D
      <4>1. <<T, f[T \ {c[T]}]>> \in (SUBSET D) \X SourceState
        BY <3>3
      <4>2. QED
        BY <4>1
    <3>5. c[T] = CHOOSE x \in T : TRUE
      OBVIOUS
    <3>6. QED
      BY <3>1, <3>4, <3>5
  <2>2. QED
    BY <2>1
<1>8. iter = Body(iter)
  <2> HIDE DEF Body
  <2>1. QED
    BY <1>7
<1>9. \A T \in SUBSET D : iter[T] = Body(iter)[T]
  <2> HIDE DEF iter, Body
  <2>1. QED
    BY <1>8
<1>10. iter[{}] = NewSourceState
  <2> HIDE DEF iter
  <2>1. QED
    BY <1>9
<1>11. ASSUME NEW T \in SUBSET D, T # {}
       PROVE  \E x \in T : iter[T] = merge_membership_infos(iter[T \ {x}], list[x])
  <2> HIDE DEF iter
  <2>1. iter[T] = merge_membership_infos(iter[T \ {CHOOSE x \in T : TRUE}],
                                         list[CHOOSE x \in T : TRUE])
    BY <1>9, <1>11
  <2>2. QED
    BY <1>2, <1>11, <2>1
<1> DEFINE P == {T \in SUBSET D : iter[T] \in SourceState}
<1>12. \A T \in SUBSET D : T \in P
  <2>1. {} \in P
    <3> HIDE DEF iter
    <3>1. QED
      BY <1>4, <1>10
  <2>2. ASSUME NEW T \in SUBSET D, T # {}, \A x \in T : T \ {x} \in P PROVE T \in P
    <3> HIDE DEF iter
    <3>1. PICK x \in T : iter[T] = merge_membership_infos(iter[T \ {x}], list[x])
      BY <1>11, <2>2
    <3>2. iter[T \ {x}] \in SourceState /\ list[x] \in SourceState
      BY <1>1, <2>2
    <3>3. QED
      BY <3>1, <3>2, MergeWants
  <2>3. QED
    <3> HIDE DEF D, P
    <3>1. QED
      BY <1>1, <2>1, <2>2, SubsetInduction
<1>13. iter \in [SUBSET D -> SourceState]
  <2> HIDE DEF iter
  <2>1. QED
    BY <1>8, <1>12
<1>14. get_group_memberships(list) = iter[D]
  BY DEF get_group_memberships, FoldFunction, FoldFunctionOnSet, MapThenFoldSet
<1>15. QED
  <2> HIDE DEF iter
  <2>1. QED
    BY <1>10, <1>11, <1>13, <1>14

(* The merged list wants what one of its members wants, and includes only  *)
(* when all of them do.                                                    *)
LEMMA GroupMembershipsWant ==
    ASSUME NEW list \in Lists
    PROVE  /\ get_group_memberships(list) \in SourceState
           /\ \A s \in Sources : Wants(get_group_memberships(list), s)
                                    <=> \E d \in DOMAIN list : Wants(list[d], s)
           /\ get_group_memberships(list).mode = "INCLUDE_MODE"
                 <=> \A d \in DOMAIN list : list[d].mode = "INCLUDE_MODE"
<1> DEFINE D == DOMAIN list
<1>1. D \in SUBSET Downstreams /\ list \in [D -> SourceState] /\ IsFiniteSet(D)
  BY ListsElim
<1>2. PICK iter \in [SUBSET D -> SourceState] :
        /\ iter[{}] = NewSourceState
        /\ \A T \in SUBSET D : T # {} =>
              \E x \in T : iter[T] = merge_membership_infos(iter[T \ {x}], list[x])
        /\ get_group_memberships(list) = iter[D]
  BY GroupMembershipsFold
<1> DEFINE Good(T) == /\ \A s \in Sources : Wants(iter[T], s) <=> \E d \in T : Wants(list[d], s)
                      /\ iter[T].mode = "INCLUDE_MODE"
                            <=> \A d \in T : list[d].mode = "INCLUDE_MODE"
           P == {T \in SUBSET D : Good(T)}
<1>3. {} \in P
  BY <1>2 DEF NewSourceState, Wants
<1>4. ASSUME NEW T \in SUBSET D, T # {}, \A x \in T : T \ {x} \in P PROVE T \in P
  <2>1. PICK x \in T : iter[T] = merge_membership_infos(iter[T \ {x}], list[x])
    BY <1>2, <1>4
  <2>2. iter[T \ {x}] \in SourceState /\ list[x] \in SourceState
    BY <1>1
  <2>3. Good(T \ {x})
    BY <1>4
  <2>4. /\ \A s \in Sources : Wants(iter[T], s) <=> Wants(iter[T \ {x}], s) \/ Wants(list[x], s)
        /\ iter[T].mode = "INCLUDE_MODE"
              <=> iter[T \ {x}].mode = "INCLUDE_MODE" /\ list[x].mode = "INCLUDE_MODE"
    BY <2>1, <2>2, MergeWants
  <2>5. Good(T)
    BY <2>3, <2>4
  <2>6. QED
    <3> HIDE DEF Good
    <3>1. QED
      BY <2>5
<1>5. \A T \in SUBSET D : T \in P
  <2> HIDE DEF D, P
  <2>1. QED
    BY <1>1, <1>3, <1>4, SubsetInduction
<1>6. Good(D)
  <2> HIDE DEF Good
  <2>1. QED
    BY <1>5
<1>7. QED
  BY <1>2, <1>6

(***************************************************************************)
(* What is handed from upstream to upstream                                *)
(***************************************************************************)
(* Lists that hold parts of the downstreams' memberships and nothing else. *)
Reduced(mem) ==
    {l \in Lists : \A d \in DOMAIN l : /\ l[d].mode = mem[d].mode
                                      /\ l[d].sources \subseteq mem[d].sources}

(* What it is to be one.                                                   *)
LEMMA ReducedElim ==
    ASSUME NEW mem, NEW l \in Reduced(mem)
    PROVE  /\ l \in Lists /\ DOMAIN l \in SUBSET Downstreams /\ l \in [DOMAIN l -> SourceState]
           /\ \A d \in DOMAIN l : /\ l[d].mode = mem[d].mode
                                 /\ l[d].sources \subseteq mem[d].sources
                                 /\ l[d].sources \subseteq Sources
<1>1. l \in Lists /\ \A d \in DOMAIN l : /\ l[d].mode = mem[d].mode
                                       /\ l[d].sources \subseteq mem[d].sources
  BY DEF Reduced
<1>2. DOMAIN l \in SUBSET Downstreams /\ l \in [DOMAIN l -> SourceState]
  BY <1>1, ListsElim
<1>3. \A d \in DOMAIN l : l[d].sources \subseteq Sources
  BY <1>2 DEF SourceState
<1>4. QED
  BY <1>1, <1>2, <1>3

(* The memberships themselves are such a list.                             *)
LEMMA ReducedWhole ==
    ASSUME NEW mem \in [Downstreams -> SourceState]
    PROVE  mem \in Reduced(mem)
<1>1. mem \in Lists
  BY DEF Lists
<1>2. QED
  BY <1>1 DEF Reduced

(* Taking sources and downstreams away keeps it one.                       *)
LEMMA ReduceFurther ==
    ASSUME NEW mem, NEW l \in Reduced(mem), NEW keep,
           \A d \in DOMAIN l : keep[d] \subseteq l[d].sources,
           NEW w, w = WithSources(l, keep), NEW n, n = NonEmpty(w)
    PROVE  /\ w \in Reduced(mem) /\ DOMAIN w = DOMAIN l
           /\ \A d \in DOMAIN l : w[d].sources = keep[d] /\ w[d].mode = l[d].mode
           /\ n \in Reduced(mem) /\ DOMAIN n = {d \in DOMAIN l : keep[d] # {}}
           /\ \A d \in DOMAIN n : n[d] = w[d]
<1> DEFINE D == DOMAIN l
           E == {d \in D : keep[d] # {}}
<1>1. /\ D \in SUBSET Downstreams /\ l \in [D -> SourceState]
      /\ \A d \in D : /\ l[d].mode = mem[d].mode
                     /\ l[d].sources \subseteq mem[d].sources
                     /\ l[d].sources \subseteq Sources
  BY ReducedElim
<1>2. DOMAIN w = D /\ w = [d \in D |-> [l[d] EXCEPT !.sources = keep[d]]]
  BY DEF WithSources
<1>3. ASSUME NEW d \in D
      PROVE  /\ w[d] \in SourceState /\ w[d].sources = keep[d] /\ w[d].mode = l[d].mode
  <2>1. l[d] \in SourceState
    BY <1>1
  <2>2. w[d] = [l[d] EXCEPT !.sources = keep[d]]
    BY <1>2
  <2>3. keep[d] \in SUBSET Sources
    BY <1>1
  <2>4. QED
    BY <2>1, <2>2, <2>3 DEF SourceState
<1>4. w \in [D -> SourceState]
  BY <1>2, <1>3
<1>5. w \in Reduced(mem)
  <2>1. w \in Lists
    BY <1>1, <1>4 DEF Lists
  <2>2. \A d \in DOMAIN w : w[d].mode = mem[d].mode /\ w[d].sources \subseteq mem[d].sources
    BY <1>1, <1>2, <1>3
  <2>3. QED
    BY <2>1, <2>2 DEF Reduced
<1>6. {d \in DOMAIN w : w[d].sources # {}} = E
  BY <1>2, <1>3
<1>7. n = [d \in E |-> w[d]] /\ DOMAIN n = E
  BY <1>6 DEF NonEmpty, Restrict
<1>8. n \in Reduced(mem)
  <2>1. E \in SUBSET Downstreams /\ n \in [E -> SourceState]
    BY <1>1, <1>3, <1>7
  <2>2. n \in Lists
    <3> HIDE DEF E
    <3>1. QED
      BY <2>1 DEF Lists
  <2>3. \A d \in DOMAIN n : n[d].mode = mem[d].mode /\ n[d].sources \subseteq mem[d].sources
    BY <1>1, <1>3, <1>7
  <2>4. QED
    BY <2>2, <2>3 DEF Reduced
<1>9. QED
  BY <1>2, <1>3, <1>5, <1>7, <1>8

(* The same for a list without empty entries, as it is used.               *)
LEMMA ReduceNonEmpty ==
    ASSUME NEW mem, NEW l \in Reduced(mem), NEW keep,
           \A d \in DOMAIN l : keep[d] \subseteq l[d].sources,
           NEW n, n = NonEmpty(WithSources(l, keep))
    PROVE  /\ n \in Reduced(mem) /\ DOMAIN n \subseteq DOMAIN l
           /\ \A d \in DOMAIN n : n[d].sources = keep[d]
<1> DEFINE w == WithSources(l, keep)
<1>1. w = WithSources(l, keep) /\ n = NonEmpty(w)
  OBVIOUS
<1> HIDE DEF w
<1>2. /\ n \in Reduced(mem) /\ DOMAIN n = {d \in DOMAIN l : keep[d] # {}}
      /\ \A d \in DOMAIN l : w[d].sources = keep[d]
      /\ \A d \in DOMAIN n : n[d] = w[d]
  BY <1>1, ReduceFurther
<1>3. QED
  BY <1>2

(* The rule "first": list[i] is what is left for upstream i, which takes what it
   accepts and leaves the rest to the next one.                            *)
FirstLists(c, mem, list) ==
    /\ list \in [DOMAIN Upstreams -> Reduced(mem)]
    /\ \A i \in DOMAIN Upstreams :
          list[i] = IF i = 1 THEN mem ELSE FirstRest(c, Upstreams[i - 1], list[i - 1])
    /\ \A i \in DOMAIN Upstreams :
          process_upstream_in_first(c, mem)[i]
             = WithSources(list[i], FirstSplit(c, Upstreams[i], list[i], TRUE))

(* The loop over the upstreams.                                            *)
LEMMA FirstLoop ==
    ASSUME NEW c, NEW mem \in [Downstreams -> SourceState]
    PROVE  \E list : FirstLists(c, mem, list)
<1> DEFINE N == Len(Upstreams)
           T == Reduced(mem)
           G == [p \in (1 .. N) \X T |-> FirstRest(c, Upstreams[p[1]], p[2])]
           Body(f) == [i \in DOMAIN Upstreams |->
                          IF i = 1 THEN mem ELSE FirstRest(c, Upstreams[i - 1], f[i - 1])]
           list == CHOOSE f : f = Body(f)
<1>1. N \in Nat /\ DOMAIN Upstreams = 1 .. N
  BY InterfacesAssumption, LenProperties
<1>2. \A u, l : l \in T => FirstRest(c, u, l) \in T
  <2> SUFFICES ASSUME NEW u, NEW l \in T PROVE FirstRest(c, u, l) \in T
    OBVIOUS
  <2>1. \A d \in DOMAIN l : FirstSplit(c, u, l, FALSE)[d] \subseteq l[d].sources
    BY DEF FirstSplit
  <2>2. QED
    BY <2>1, ReduceNonEmpty DEF FirstRest
<1>3. mem \in T
  BY ReducedWhole
<1>4. G \in [(1 .. N) \X T -> T]
  <2> HIDE DEF T
  <2>1. QED
    BY <1>2
<1>5. PICK g \in [0 .. N -> T] : DefinedBy(g, mem, G, N)
  <2> HIDE DEF N, T, G
  <2>1. QED
    BY <1>1, <1>3, <1>4, TypedRecursion
<1>6. g[0] = mem /\ \A n \in 1 .. N : g[n] = FirstRest(c, Upstreams[n], g[n - 1])
  <2> HIDE DEF T
  <2>1. g[0] = mem /\ \A n \in 1 .. N : g[n] = G[<<n, g[n - 1]>>]
    <3> HIDE DEF G
    <3>1. QED
      BY <1>5 DEF DefinedBy
  <2>2. \A n \in 1 .. N : n - 1 \in 0 .. N
    BY <1>1
  <2>3. \A n \in 1 .. N : g[n - 1] \in T
    BY <2>2
  <2>4. QED
    BY <2>1, <2>3
<1> HIDE DEF T, G
<1> DEFINE f == [i \in 1 .. N |-> g[i - 1]]
<1>7. f = Body(f)
  <2>1. ASSUME NEW i \in 1 .. N PROVE f[i] = Body(f)[i]
    <3>1. CASE i = 1
      BY <1>1, <1>6, <3>1
    <3>2. CASE i # 1
      <4>1. i - 1 \in 1 .. N
        BY <1>1, <3>2
      <4>2. f[i] = g[i - 1] /\ f[i - 1] = g[(i - 1) - 1]
        BY <4>1
      <4>3. Body(f)[i] = FirstRest(c, Upstreams[i - 1], f[i - 1])
        BY <1>1, <3>2
      <4>4. QED
        BY <1>6, <4>1, <4>2, <4>3
    <3>3. QED
      BY <3>1, <3>2
  <2>2. f = [i \in 1 .. N |-> f[i]] /\ Body(f) = [i \in 1 .. N |-> Body(f)[i]]
    BY <1>1
  <2> HIDE DEF f, Body
  <2>3. QED
    BY <2>1, <2>2
<1>8. list = Body(list)
  <2> HIDE DEF Body, f
  <2>1. QED
    BY <1>7
<1>9. \A i \in DOMAIN Upstreams :
        list[i] = IF i = 1 THEN mem ELSE FirstRest(c, Upstreams[i - 1], list[i - 1])
  <2> HIDE DEF list
  <2>1. QED
    BY <1>8
<1>10. \A i \in DOMAIN Upstreams : list[i] \in T
  <2> HIDE DEF list
  <2> DEFINE P == {n \in 0 .. N : n # 0 => list[n] \in T}
  <2>1. 0 \in P
    BY <1>1
  <2>2. ASSUME NEW n \in 0 .. N - 1, n \in P PROVE n + 1 \in P
    <3>1. n + 1 \in DOMAIN Upstreams /\ (n + 1) - 1 = n /\ n + 1 \in 0 .. N
      BY <1>1
    <3>2. CASE n = 0
      BY <1>3, <1>9, <3>1, <3>2
    <3>3. CASE n # 0
      <4>1. list[n + 1] = FirstRest(c, Upstreams[n], list[n])
        BY <1>9, <3>1, <3>3
      <4>2. list[n] \in T
        BY <2>2, <3>3
      <4>3. QED
        BY <1>2, <3>1, <4>1, <4>2
    <3>4. QED
      BY <3>2, <3>3
  <2>3. \A n \in 0 .. N : n \in P
    <3> HIDE DEF P, N
    <3>1. QED
      BY <1>1, <2>1, <2>2, IntervalInduction
  <2>4. QED
    BY <1>1, <2>3
<1>11. list \in [DOMAIN Upstreams -> T]
  <2> HIDE DEF list
  <2>1. QED
    BY <1>8, <1>10
<1>12. process_upstream_in_first(c, mem)
         = [i \in DOMAIN Upstreams |->
               WithSources(list[i], FirstSplit(c, Upstreams[i], list[i], TRUE))]
  BY DEF process_upstream_in_first
<1>13. FirstLists(c, mem, list)
  <2> HIDE DEF list
  <2>1. QED
    BY <1>9, <1>11, <1>12 DEF T, FirstLists
<1>14. QED
  BY <1>13

(***************************************************************************)
(* The rule "mutex"                                                        *)
(***************************************************************************)
Acc(mem) == [list : Reduced(mem), data : Seq(Reduced(mem))]

(* A source is named in a list.                                            *)
Has(l, s) == \E d \in DOMAIN l : s \in l[d].sources

(* One upstream: a seen source that it accepts is taken from those before, and
   it is new at this one only if it arrived over an upstream.              *)
LEMMA MutexStepEffect ==
    ASSUME NEW c, NEW if_map, NEW u, NEW mem, NEW acc \in Acc(mem),
           NEW new, new = MutexStep(c, if_map, u, acc)
    PROVE  /\ new \in Acc(mem)
           /\ Len(acc.data) \in Nat /\ Len(new.data) = Len(acc.data) + 1
           /\ \A s : \A i \in 1 .. Len(acc.data) : Has(new.data[i], s) => Has(acc.data[i], s)
           /\ \A s \in DOMAIN if_map : Has(new.data[Len(acc.data) + 1], s) =>
                 /\ if_map[s] \in UpstreamSet
                 /\ \A i \in 1 .. Len(acc.data) : ~Has(new.data[i], s)
<1> DEFINE L == acc.list
           T == Reduced(mem)
           n == Len(acc.data)
           accepted == [d \in DOMAIN L |-> {s \in L[d].sources :
                            /\ match_output_filter(c.down[d], u, s)
                            /\ match_input_filter(c.up[u], s)}]
           seen == DOMAIN if_map \cap UNION {accepted[d] : d \in DOMAIN accepted}
           clean(l) == NonEmpty(WithSources(l, [d \in DOMAIN l |-> l[d].sources \ seen]))
           local == {s \in seen : if_map[s] \notin UpstreamSet}
           rest == NonEmpty(WithSources(L, [d \in DOMAIN L |-> L[d].sources \ (accepted[d] \cap seen)]))
           mine == NonEmpty(WithSources(L, [d \in DOMAIN L |-> accepted[d] \ local]))
           before == [i \in DOMAIN acc.data |-> clean(acc.data[i])]
<1>1. L \in T /\ acc.data \in Seq(T)
  BY DEF Acc
<1>2. n \in Nat /\ DOMAIN acc.data = 1 .. n /\ \A i \in 1 .. n : acc.data[i] \in T
  BY <1>1, LenProperties, ElementOfSeq
<1>3. new = [list |-> rest, data |-> Append(before, mine)]
  BY DEF MutexStep
<1>4. DOMAIN accepted = DOMAIN L /\ \A d \in DOMAIN L : accepted[d] \subseteq L[d].sources
  OBVIOUS
<1> HIDE DEF accepted
<1>5. rest \in T
  <2> DEFINE keep == [d \in DOMAIN L |-> L[d].sources \ (accepted[d] \cap seen)]
  <2>1. \A d \in DOMAIN L : keep[d] \subseteq L[d].sources
    OBVIOUS
  <2>2. rest = NonEmpty(WithSources(L, keep))
    OBVIOUS
  <2> HIDE DEF keep, rest, L
  <2>3. QED
    BY <1>1, <2>1, <2>2, ReduceNonEmpty
<1>6. /\ mine \in T
      /\ \A s : Has(mine, s) => s \notin local /\ \E d \in DOMAIN L : s \in accepted[d]
  <2> DEFINE keep == [d \in DOMAIN L |-> accepted[d] \ local]
  <2>1. \A d \in DOMAIN L : keep[d] \subseteq L[d].sources
    BY <1>4
  <2>2. \A d \in DOMAIN L : keep[d] = accepted[d] \ local
    OBVIOUS
  <2>3. mine = NonEmpty(WithSources(L, keep))
    OBVIOUS
  <2> HIDE DEF keep, mine, L, local
  <2>4. /\ mine \in T
        /\ DOMAIN mine \subseteq DOMAIN L
        /\ \A d \in DOMAIN mine : mine[d].sources = keep[d]
    BY <1>1, <2>1, <2>3, ReduceNonEmpty
  <2>5. QED
    BY <2>2, <2>4 DEF Has
<1>7. ASSUME NEW l \in T
      PROVE  clean(l) \in T /\ \A s : Has(clean(l), s) => Has(l, s) /\ s \notin seen
  <2> DEFINE keep == [d \in DOMAIN l |-> l[d].sources \ seen]
  <2>1. \A d \in DOMAIN l : keep[d] \subseteq l[d].sources
    OBVIOUS
  <2>2. \A d \in DOMAIN l : keep[d] = l[d].sources \ seen
    OBVIOUS
  <2>3. clean(l) = NonEmpty(WithSources(l, keep))
    OBVIOUS
  <2> HIDE DEF keep, clean, seen
  <2>4. /\ clean(l) \in T
        /\ DOMAIN clean(l) \subseteq DOMAIN l
        /\ \A d \in DOMAIN clean(l) : clean(l)[d].sources = keep[d]
    BY <1>7, <2>1, <2>3, ReduceNonEmpty
  <2>5. QED
    BY <2>2, <2>4 DEF Has
<1>8. /\ before \in Seq(T) /\ Len(before) = n
      /\ \A i \in 1 .. n : before[i] = clean(acc.data[i])
  <2> HIDE DEF T, clean, n
  <2>1. before \in [1 .. n -> T]
    BY <1>2, <1>7
  <2>2. \A i \in 1 .. n : before[i] = clean(acc.data[i])
    BY <1>2
  <2> HIDE DEF before
  <2>3. QED
    BY <1>2, <2>1, <2>2
<1> HIDE DEF T, clean, rest, mine, before, n
<1>9. /\ Append(before, mine) \in Seq(T) /\ Len(Append(before, mine)) = n + 1
      /\ \A i \in 1 .. n : Append(before, mine)[i] = before[i]
      /\ Append(before, mine)[n + 1] = mine
  BY <1>2, <1>6, <1>8
<1>10. new.list = rest /\ new.data = Append(before, mine) /\ new \in Acc(mem)
  BY <1>3, <1>5, <1>9 DEF Acc, T
<1>11. \A s : \A i \in 1 .. n : Has(new.data[i], s) => Has(acc.data[i], s) /\ s \notin seen
  <2> TAKE s
  <2> TAKE i \in 1 .. n
  <2>1. new.data[i] = clean(acc.data[i]) /\ acc.data[i] \in T
    BY <1>2, <1>8, <1>9, <1>10
  <2>2. QED
    BY <1>7, <2>1
<1>12. ASSUME NEW s \in DOMAIN if_map, Has(new.data[n + 1], s)
       PROVE  s \in seen /\ if_map[s] \in UpstreamSet
  <2>1. Has(mine, s)
    BY <1>9, <1>10, <1>12
  <2>2. s \notin local /\ \E d \in DOMAIN L : s \in accepted[d]
    BY <1>6, <2>1
  <2>3. s \in seen
    BY <1>4, <2>2
  <2>4. QED
    BY <2>2, <2>3
<1>13. QED
  BY <1>2, <1>9, <1>10, <1>11, <1>12 DEF n

(* step[n] is what the loop has after n upstreams.                         *)
MutexSteps(c, if_map, mem, step) ==
    /\ step \in [0 .. Len(Upstreams) -> Acc(mem)]
    /\ step[0] = [list |-> mem, data |-> <<>>]
    /\ \A n \in 1 .. Len(Upstreams) :
          step[n] = MutexStep(c, if_map, Upstreams[n], step[n - 1])
    /\ process_upstream_in_mutex(c, mem, if_map) = step[Len(Upstreams)].data

(* The loop over the upstreams.                                            *)
LEMMA MutexLoop ==
    ASSUME NEW c, NEW if_map, NEW mem \in [Downstreams -> SourceState]
    PROVE  \E step : MutexSteps(c, if_map, mem, step)
<1> DEFINE N == Len(Upstreams)
           T == Acc(mem)
           a == [list |-> mem, data |-> <<>>]
           G == [p \in (1 .. N) \X T |-> MutexStep(c, if_map, Upstreams[p[1]], p[2])]
           Body(f) == [i \in 0 .. Len(Upstreams) |->
                          IF i = 0 THEN [list |-> mem, data |-> <<>>]
                          ELSE MutexStep(c, if_map, Upstreams[i], f[i - 1])]
           step == CHOOSE f : f = Body(f)
<1>1. N \in Nat
  BY InterfacesAssumption, LenProperties
<1>2. \A u, acc : acc \in T => MutexStep(c, if_map, u, acc) \in T
  BY MutexStepEffect
<1>3. a \in T
  <2>1. mem \in Reduced(mem)
    BY ReducedWhole
  <2>2. QED
    BY <2>1 DEF Acc
<1>4. G \in [(1 .. N) \X T -> T]
  <2> HIDE DEF T
  <2>1. QED
    BY <1>2
<1>5. PICK f \in [0 .. N -> T] : DefinedBy(f, a, G, N)
  <2> HIDE DEF N, T, G, a
  <2>1. QED
    BY <1>1, <1>3, <1>4, TypedRecursion
<1>6. f[0] = a /\ \A n \in 1 .. N : f[n] = MutexStep(c, if_map, Upstreams[n], f[n - 1])
  <2> HIDE DEF T, a
  <2>1. f[0] = a /\ \A n \in 1 .. N : f[n] = G[<<n, f[n - 1]>>]
    <3> HIDE DEF G
    <3>1. QED
      BY <1>5 DEF DefinedBy
  <2>2. \A n \in 1 .. N : n - 1 \in 0 .. N
    BY <1>1
  <2>3. \A n \in 1 .. N : f[n - 1] \in T
    BY <2>2
  <2>4. QED
    BY <2>1, <2>3
<1> HIDE DEF T, G
<1>7. f = Body(f)
  <2>1. \A n \in 0 .. N : n # 0 => n \in 1 .. N
    BY <1>1
  <2>2. \A n \in 0 .. N : f[n] = Body(f)[n]
    BY <1>6, <2>1
  <2>3. QED
    BY <2>2
<1>8. step = Body(step)
  <2> HIDE DEF Body
  <2>1. QED
    BY <1>7
<1>9. step[0] = a /\ \A n \in 1 .. N : step[n] = MutexStep(c, if_map, Upstreams[n], step[n - 1])
  <2> HIDE DEF step
  <2>1. 0 \in 0 .. N /\ \A n \in 1 .. N : n \in 0 .. N /\ n # 0
    BY <1>1
  <2>2. \A n \in 0 .. N : Body(step)[n]
           = IF n = 0 THEN a ELSE MutexStep(c, if_map, Upstreams[n], step[n - 1])
    OBVIOUS
  <2> HIDE DEF Body, a
  <2>3. QED
    BY <1>8, <2>1, <2>2
<1>10. \A n \in 0 .. N - 1 : step[n] \in T => step[n + 1] \in T
  <2> TAKE n \in 0 .. N - 1
  <2>1. n + 1 \in 1 .. N /\ (n + 1) - 1 = n
    BY <1>1
  <2> HIDE DEF step
  <2>2. QED
    BY <1>2, <1>9, <2>1
<1>11. \A n \in 0 .. N : step[n] \in T
  <2> HIDE DEF step, a, N
  <2>1. QED
    BY <1>1, <1>3, <1>9, <1>10, RecursionType
<1>12. step \in [0 .. N -> T]
  <2> HIDE DEF step
  <2>1. QED
    BY <1>8, <1>11
<1>13. process_upstream_in_mutex(c, mem, if_map) = step[N].data
  BY DEF process_upstream_in_mutex
<1>14. MutexSteps(c, if_map, mem, step)
  <2> HIDE DEF step
  <2>1. QED
    BY <1>9, <1>12, <1>13 DEF T, MutexSteps
<1>15. QED
  BY <1>14
(* After n upstreams there are n lists.                                    *)
LEMMA MutexLength ==
    ASSUME NEW c, NEW if_map, NEW mem, NEW step, MutexSteps(c, if_map, mem, step)
    PROVE  \A n \in 0 .. Len(Upstreams) : Len(step[n].data) = n
<1> DEFINE N == Len(Upstreams)
           P == {n \in 0 .. N : Len(step[n].data) = n}
<1>1. N \in Nat
  BY InterfacesAssumption, LenProperties
<1>2. 0 \in P
  <2>1. Len(<<>>) = 0
    OBVIOUS
  <2>2. step[0].data = <<>>
    BY DEF MutexSteps
  <2>3. QED
    BY <1>1, <2>1, <2>2
<1>3. ASSUME NEW n \in 0 .. N - 1, n \in P PROVE n + 1 \in P
  <2>1. n \in 0 .. N /\ n + 1 \in 1 .. N /\ (n + 1) - 1 = n /\ n + 1 \in 0 .. N
    BY <1>1
  <2> DEFINE acc == step[n]
             new == step[n + 1]
  <2>2. acc \in Acc(mem) /\ new = MutexStep(c, if_map, Upstreams[n + 1], acc)
    BY <2>1 DEF MutexSteps
  <2> HIDE DEF acc, new
  <2>3. Len(new.data) = Len(acc.data) + 1
    BY <2>2, MutexStepEffect
  <2>4. Len(acc.data) = n
    BY <1>3 DEF acc
  <2>5. Len(new.data) = n + 1
    BY <2>3, <2>4
  <2>6. QED
    BY <2>1, <2>5 DEF new
<1>4. \A n \in 0 .. N : n \in P
  <2> HIDE DEF P, N
  <2>1. QED
    BY <1>1, <1>2, <1>3, IntervalInduction
<1>5. QED
  BY <1>4

(***************************************************************************)
(* The aggregation                                                         *)
(***************************************************************************)
(* The record of an upstream is the merged list of what is left for it of  *)
(* the downstreams' memberships.                                           *)
LEMMA AggregationValue ==
    ASSUME NEW c, NEW if_map, NEW mem \in [Downstreams -> SourceState],
           NEW im, im = interface_memberships(c, mem, if_map),
           NEW agg, agg = process_membership_aggregation(c, mem, if_map)
    PROVE  /\ agg \in [UpstreamSet -> SourceState]
           /\ \A i \in DOMAIN Upstreams : /\ im[i] \in Reduced(mem)
                                         /\ agg[Upstreams[i]] = get_group_memberships(im[i])
<1>1. ASSUME NEW i \in DOMAIN Upstreams PROVE im[i] \in Reduced(mem)
  <2>1. CASE c.in_rule = "RMT_FIRST"
    <3>1. PICK list : FirstLists(c, mem, list)
      BY FirstLoop
    <3> DEFINE l == list[i]
               keep == FirstSplit(c, Upstreams[i], l, TRUE)
               n == NonEmpty(im[i])
    <3>2. im[i] = WithSources(l, keep) /\ n = NonEmpty(im[i])
      BY <2>1, <3>1 DEF interface_memberships, FirstLists
    <3>3. l \in Reduced(mem)
      BY <3>1 DEF FirstLists
    <3>4. \A d \in DOMAIN l : keep[d] \subseteq l[d].sources
      BY DEF FirstSplit
    <3> HIDE DEF l, keep, n
    <3>5. QED
      <4> DEFINE w == im[i]
      <4>1. w = WithSources(l, keep) /\ n = NonEmpty(w)
        BY <3>2
      <4> HIDE DEF w
      <4>2. w \in Reduced(mem)
        BY <3>3, <3>4, <4>1, ReduceFurther
      <4>3. QED
        BY <4>2 DEF w
  <2>2. CASE c.in_rule # "RMT_FIRST"
    <3> DEFINE N == Len(Upstreams)
    <3>1. PICK step : MutexSteps(c, if_map, mem, step)
      BY MutexLoop
    <3>2. N \in Nat /\ DOMAIN Upstreams = 1 .. N
      BY InterfacesAssumption, LenProperties
    <3>3. N \in 0 .. N
      BY <3>2
    <3>4. Len(step[N].data) = N
      BY <3>1, <3>3, MutexLength
    <3>5. im = step[N].data /\ step[N].data \in Seq(Reduced(mem))
      BY <2>2, <3>1, <3>3 DEF interface_memberships, Acc, MutexSteps
    <3> DEFINE T == Reduced(mem)
    <3> HIDE DEF N, T
    <3>6. im \in Seq(T) /\ Len(im) = N /\ i \in 1 .. N
      BY <3>2, <3>4, <3>5 DEF T
    <3>7. im[i] \in T
      BY <3>6, ElementOfSeq
    <3>8. QED
      BY <3>7 DEF T
  <2>3. QED
    BY <2>1, <2>2
<1>2. agg = [u \in UpstreamSet |->
               get_group_memberships(im[CHOOSE i \in DOMAIN Upstreams : Upstreams[i] = u])]
  BY DEF process_membership_aggregation
<1>3. ASSUME NEW i \in DOMAIN Upstreams
      PROVE  agg[Upstreams[i]] = get_group_memberships(im[i])
  <2>1. (CHOOSE j \in DOMAIN Upstreams : Upstreams[j] = Upstreams[i]) = i
    BY InterfacesAssumption
  <2>2. Upstreams[i] \in UpstreamSet
    BY DEF UpstreamSet
  <2>3. QED
    BY <1>2, <2>1, <2>2
<1>4. ASSUME NEW u \in UpstreamSet PROVE agg[u] \in SourceState
  <2>1. PICK i \in DOMAIN Upstreams : u = Upstreams[i]
    BY DEF UpstreamSet
  <2>2. im[i] \in Lists
    BY <1>1, ReducedElim
  <2>3. QED
    BY <1>3, <2>1, <2>2, GroupMembershipsWant
<1>5. agg \in [UpstreamSet -> SourceState]
  <2>1. agg = [u \in UpstreamSet |-> agg[u]]
    BY <1>2
  <2>2. QED
    BY <1>4, <2>1
<1>6. QED
  BY <1>1, <1>3, <1>5

(* With the rule "first" the learned sources do not matter.                *)
LEMMA FirstIgnoresSources ==
    ASSUME NEW c, NEW mem, NEW a, NEW b, c.in_rule = "RMT_FIRST"
    PROVE  process_membership_aggregation(c, mem, a) = process_membership_aggregation(c, mem, b)
  BY DEF process_membership_aggregation, interface_memberships

(* As long as nobody wants anything, nothing is asked for.                 *)
LEMMA AggregationOfNothing ==
    ASSUME NEW c, NEW if_map
    PROVE  process_membership_aggregation(c, [d \in Downstreams |-> NewSourceState], if_map)
             = [u \in UpstreamSet |-> NewSourceState]
<1> DEFINE mem == [d \in Downstreams |-> NewSourceState]
           im == interface_memberships(c, mem, if_map)
           agg == process_membership_aggregation(c, mem, if_map)
<1>1. mem \in [Downstreams -> SourceState]
  BY DEF NewSourceState, SourceState, FilterModes
<1>2. \A d \in Downstreams : mem[d].mode = "INCLUDE_MODE" /\ mem[d].sources = {}
  BY DEF NewSourceState
<1> HIDE DEF mem
<1>3. /\ agg \in [UpstreamSet -> SourceState]
      /\ \A i \in DOMAIN Upstreams : /\ im[i] \in Reduced(mem)
                                    /\ agg[Upstreams[i]] = get_group_memberships(im[i])
  BY <1>1, AggregationValue
<1> HIDE DEF im, agg
<1>4. ASSUME NEW u \in UpstreamSet PROVE agg[u] = NewSourceState
  <2>1. PICK i \in DOMAIN Upstreams : u = Upstreams[i]
    BY DEF UpstreamSet
  <2>2. /\ im[i] \in Lists
        /\ \A d \in DOMAIN im[i] : im[i][d].mode = "INCLUDE_MODE" /\ im[i][d].sources = {}
    BY <1>2, <1>3, ReducedElim
  <2>3. /\ agg[u] \in SourceState /\ agg[u].mode = "INCLUDE_MODE"
        /\ \A s \in Sources : ~Wants(agg[u], s)
    BY <1>3, <2>1, <2>2, GroupMembershipsWant DEF Wants
  <2>4. agg[u].sources = {}
    BY <2>3 DEF Wants, SourceState
  <2>5. QED
    BY <2>3, <2>4 DEF SourceState, NewSourceState
<1>5. agg = [u \in UpstreamSet |-> NewSourceState]
  BY <1>3, <1>4
<1>6. QED
  BY <1>5 DEF agg, mem
(***************************************************************************)
(* The invariant                                                           *)
(***************************************************************************)
(* Every learned source has a started timer.  It comes before the source has
   been idle for one life time, or, if no packet came since the last look, for
   two.                                                                    *)
TimersOK ==
    \A s \in DOMAIN m_data : \E t \in timing :
        /\ t.source = s /\ t.stamp = m_data[s].timer
        /\ \/ t.left + idle <= SourceLifeTime
           \/ /\ m_data[s].count = get_current_packet_count(s)
              /\ t.left + idle <= 2 * SourceLifeTime

(* A stamp that is chosen is free.                                         *)
LEMMA NewStampType ==
    ASSUME FreeStamps # {}
    PROVE  NewStamp \in Stamps
<1>1. FreeStamps \in SUBSET Nat
  BY StampAssumption DEF FreeStamps
<1>2. \E n \in FreeStamps : \A k \in FreeStamps : n <= k
  BY <1>1, LeastNumber
<1>3. NewStamp \in FreeStamps
  BY <1>2 DEF NewStamp
<1>4. QED
  BY <1>3 DEF FreeStamps

(* Data are forwarded to interfaces of the instance only.                  *)
LEMMA OutputsType ==
    ASSUME NEW mem, NEW input, NEW s
    PROVE  collect_interested_interfaces(mem, input, s) \subseteq Interfaces
<1>1. UpstreamOutputs(input, s) \subseteq UpstreamSet
  BY DEF UpstreamOutputs, UpstreamSet
<1>2. suggest_to_forward_traffic(mem, input, s) \subseteq Downstreams
  BY DEF suggest_to_forward_traffic
<1>3. QED
  BY <1>1, <1>2 DEF collect_interested_interfaces, Interfaces

(* What set_routes does to the kernel's routes.                            *)
LEMMA SetRoutesEffect ==
    ASSUME NEW mem, NEW data, NEW S \in SUBSET Sources,
           \A s \in S : data[s].if_index \in Interfaces,
           DOMAIN mfc \subseteq Sources, mfc \in [DOMAIN mfc -> Route],
           set_routes(mem, data, S)
    PROVE  /\ mfc' \in [DOMAIN mfc' -> Route] /\ DOMAIN mfc' \subseteq DOMAIN mfc \cup S
           /\ unresolved' \subseteq unresolved
           /\ \A s \in DOMAIN mfc \ S : s \in DOMAIN mfc'
           /\ \A s : s \notin S /\ s \in DOMAIN mfc' => mfc'[s] = mfc[s]
           /\ \A s \in S :
                 LET input  == data[s].if_index
                     output == collect_interested_interfaces(mem, input, s)
                 IN /\ output = {} => s \notin DOMAIN mfc'
                    /\ output # {} /\ UseThisInterface(input, s) =>
                          /\ s \in DOMAIN mfc'
                          /\ mfc'[s].input = input
                          /\ mfc'[s].output = output
<1> DEFINE input(s)  == data[s].if_index
           output(s) == collect_interested_interfaces(mem, input(s), s)
           deleted == {s \in S : output(s) = {}}
           added   == {s \in S \ deleted : UseThisInterface(input(s), s)}
           D == (DOMAIN mfc \ deleted) \cup added
           R(s) == IF s \in added THEN add_route(mfc, input(s), s, output(s)) ELSE mfc[s]
<1>1. mfc' = [s \in D |-> R(s)] /\ unresolved' = unresolved \ added
  BY DEF set_routes
<1>2. ASSUME NEW s \in added
      PROVE  /\ add_route(mfc, input(s), s, output(s)) \in Route
             /\ add_route(mfc, input(s), s, output(s)).input = input(s)
             /\ add_route(mfc, input(s), s, output(s)).output = output(s)
  <2>1. input(s) \in Interfaces
    OBVIOUS
  <2>2. output(s) \in SUBSET Interfaces
    BY OutputsType
  <2>3. s \in DOMAIN mfc => mfc[s].pkts \in Nat
    BY DEF Route
  <2> HIDE DEF input, output
  <2>4. QED
    BY <2>1, <2>2, <2>3 DEF add_route, Route
<1>3. added \subseteq S /\ deleted \subseteq S /\ added \cap deleted = {}
  OBVIOUS
<1>4. \A s \in S : /\ output(s) = {} => s \in deleted
                   /\ output(s) # {} /\ UseThisInterface(input(s), s) => s \in added
  OBVIOUS
<1> HIDE DEF added, deleted, output, input
<1>5. DOMAIN mfc' = D /\ \A s \in D : mfc'[s] = R(s)
  BY <1>1
<1>6. \A s \in D : R(s) \in Route
  BY <1>2
<1>7. mfc' \in [DOMAIN mfc' -> Route]
  BY <1>1, <1>6
<1>8. \A s \in S : /\ output(s) = {} => s \notin DOMAIN mfc'
                   /\ output(s) # {} /\ UseThisInterface(input(s), s) =>
                         /\ s \in DOMAIN mfc'
                         /\ mfc'[s].input = input(s)
                         /\ mfc'[s].output = output(s)
  BY <1>2, <1>3, <1>4, <1>5
<1>9. QED
  BY <1>1, <1>3, <1>5, <1>7, <1>8 DEF input, output

(* What set_source does to the learned sources.                            *)
LEMMA SetSourceEffect ==
    ASSUME TypeOK, FreeStamps # {}, NEW i \in Interfaces, NEW s \in Sources,
           NEW data, data = set_source(i, s)
    PROVE  /\ DOMAIN data = DOMAIN m_data \cup {s}
           /\ data \in [DOMAIN data -> LearnedSource]
           /\ data[s].if_index = i /\ data[s].timer = NewStamp
           /\ \A r \in DOMAIN m_data \ {s} : data[r] = m_data[r]
<1>1. get_current_packet_count(s) \in Int
  BY DEF get_current_packet_count, TypeOK, Route, NoCount
<1> DEFINE new == [if_index |-> i, timer |-> NewStamp,
                   count |-> IF s \in DOMAIN m_data THEN get_current_packet_count(s)
                                                    ELSE NewCount]
<1>2. new \in LearnedSource /\ new.if_index = i /\ new.timer = NewStamp
  BY <1>1, NewStampType DEF LearnedSource, NewCount
<1>3. data = [r \in DOMAIN m_data \cup {s} |-> IF r # s THEN m_data[r] ELSE new]
  BY DEF set_source
<1> HIDE DEF new
<1>4. \A r \in DOMAIN m_data : m_data[r] \in LearnedSource
  BY DEF TypeOK
<1>5. QED
  BY <1>2, <1>3, <1>4

(* What refresh_source does to them.                                       *)
LEMMA RefreshEffect ==
    ASSUME TypeOK, FreeStamps # {}, NEW s \in DOMAIN m_data,
           NEW data, data = refresh_source(s)
    PROVE  /\ DOMAIN data = DOMAIN m_data
           /\ data \in [DOMAIN data -> LearnedSource]
           /\ data[s].count = get_current_packet_count(s) /\ data[s].timer = NewStamp
           /\ \A r \in DOMAIN m_data \ {s} : data[r] = m_data[r]
           /\ get_interface_map(data) = get_interface_map(m_data)
           /\ \A r \in DOMAIN m_data : data[r].if_index = m_data[r].if_index
<1> DEFINE n == get_current_packet_count(s)
           k == NewStamp
<1>1. n \in Int
  BY DEF get_current_packet_count, TypeOK, Route, NoCount
<1>2. k \in Stamps
  BY NewStampType
<1>3. m_data \in [DOMAIN m_data -> LearnedSource]
  BY DEF TypeOK
<1>4. data = [m_data EXCEPT ![s].count = n, ![s].timer = k]
  BY DEF refresh_source
<1> HIDE DEF n, k
<1>5. DOMAIN data = DOMAIN m_data /\ \A r \in DOMAIN m_data \ {s} : data[r] = m_data[r]
  BY <1>3, <1>4
<1>6. data[s] = [m_data[s] EXCEPT !.count = n, !.timer = k]
  BY <1>3, <1>4
<1>7. /\ data[s] \in LearnedSource /\ data[s].count = n /\ data[s].timer = k
      /\ data[s].if_index = m_data[s].if_index
  BY <1>1, <1>2, <1>3, <1>6 DEF LearnedSource
<1>8. \A r \in DOMAIN m_data : data[r] \in LearnedSource /\ data[r].if_index = m_data[r].if_index
  BY <1>3, <1>5, <1>7
<1>9. data \in [DOMAIN data -> LearnedSource]
  <2>1. data = [r \in DOMAIN m_data |-> data[r]]
    BY <1>3, <1>4
  <2>2. QED
    BY <1>5, <1>8, <2>1
<1>10. get_interface_map(data) = get_interface_map(m_data)
  BY <1>5, <1>8 DEF get_interface_map
<1>11. QED
  BY <1>5, <1>7, <1>8, <1>9, <1>10 DEF n, k

(* Sending records keeps their type.                                       *)
LEMMA SendRecordsType ==
    ASSUME NEW mem \in [Downstreams -> SourceState], NEW data, send_records(mem, data)
    PROVE  record' \in [UpstreamSet -> SourceState]
<1> DEFINE m == get_interface_map(data)
           im == interface_memberships(config, mem, m)
           agg == process_membership_aggregation(config, mem, m)
<1>1. record' = agg
  BY DEF send_records
<1>2. agg \in [UpstreamSet -> SourceState]
  BY AggregationValue
<1>3. QED
  BY <1>1, <1>2
(* The routes after a step, from the filters that stay as they are.        *)
LEMMA RoutesIntro ==
    ASSUME config' = config, DOMAIN mfc' \subseteq DOMAIN m_data',
           \A s \in DOMAIN m_data' :
              LET input  == m_data'[s].if_index
                  output == collect_interested_interfaces(membership', input, s)
              IN /\ output = {} => s \notin DOMAIN mfc'
                 /\ output # {} /\ UseThisInterface(input, s) =>
                       /\ s \in DOMAIN mfc'
                       /\ mfc'[s].input = input
                       /\ mfc'[s].output = output
    PROVE  RoutesAreCurrent'
  BY DEF RoutesAreCurrent, collect_interested_interfaces, UpstreamOutputs,
         suggest_to_forward_traffic, UseThisInterface

(* What the routes are before it.                                          *)
LEMMA RoutesElim ==
    ASSUME RoutesAreCurrent
    PROVE  /\ DOMAIN mfc \subseteq DOMAIN m_data
           /\ \A s \in DOMAIN m_data :
                 LET input  == m_data[s].if_index
                     output == collect_interested_interfaces(membership, input, s)
                 IN /\ output = {} => s \notin DOMAIN mfc
                    /\ output # {} /\ UseThisInterface(input, s) =>
                          /\ s \in DOMAIN mfc
                          /\ mfc[s].input = input
                          /\ mfc[s].output = output
  BY DEF RoutesAreCurrent

(* Records sent for the memberships and sources of the next state are current. *)
LEMMA RecordsIntro ==
    ASSUME config' = config, send_records(membership', m_data')
    PROVE  RecordsAreCurrent'
  BY DEF RecordsAreCurrent, send_records

(* A change of the learned sources alone.                                  *)
LEMMA RecordsIfMutex ==
    ASSUME TypeOK, RecordsAreCurrent, config' = config, membership' = membership,
           send_records_if_mutex(m_data')
    PROVE  RecordsAreCurrent' /\ record' \in [UpstreamSet -> SourceState]
<1>1. CASE config.in_rule = "RMT_MUTEX"
  <2>1. send_records(membership, m_data')
    BY <1>1 DEF send_records_if_mutex
  <2>2. RecordsAreCurrent'
    BY <2>1, RecordsIntro
  <2>3. record' \in [UpstreamSet -> SourceState]
    BY <2>1, SendRecordsType DEF TypeOK
  <2>4. QED
    BY <2>2, <2>3
<1>2. CASE config.in_rule # "RMT_MUTEX"
  <2>1. record' = record
    BY <1>2 DEF send_records_if_mutex
  <2>2. config.in_rule = "RMT_FIRST"
    BY <1>2, ConfigAssumption DEF TypeOK, Config
  <2>3. process_membership_aggregation(config, membership, get_interface_map(m_data))
          = process_membership_aggregation(config, membership, get_interface_map(m_data'))
    BY <2>2, FirstIgnoresSources
  <2>4. RecordsAreCurrent'
    BY <2>1, <2>3 DEF RecordsAreCurrent
  <2>5. QED
    BY <2>1, <2>4 DEF TypeOK
<1>3. QED
  BY <1>1, <1>2

IInv == TypeOK /\ RoutesAreCurrent /\ RecordsAreCurrent /\ TimersOK

(* A source is learned or seen again.                                      *)
LEMMA NewSourceKeeps ==
    ASSUME IInv, NEW i \in Interfaces, NEW s \in Sources, event_new_source(i, s)
    PROVE  IInv'
<1> DEFINE nt == set_source_timer(i, s)
<1>1. /\ FreeStamps # {} /\ timing' = timing \cup {nt} /\ m_data' = set_source(i, s)
      /\ queue' = queue \ {<<i, s>>} /\ set_routes(membership, m_data', {s})
      /\ send_records_if_mutex(m_data') /\ idle' = 0
      /\ UNCHANGED <<config, membership, packets, changes>>
  BY DEF event_new_source
<1>2. TypeOK /\ RoutesAreCurrent /\ RecordsAreCurrent /\ TimersOK
  BY DEF IInv
<1>3. /\ nt \in SourceTimer /\ nt.source = s /\ nt.stamp = NewStamp /\ nt.left = SourceLifeTime
  BY <1>1, NewStampType, LifeTimeAssumption DEF set_source_timer, SourceTimer
<1> HIDE DEF nt
<1>4. /\ DOMAIN m_data' = DOMAIN m_data \cup {s}
      /\ m_data' \in [DOMAIN m_data' -> LearnedSource]
      /\ m_data'[s].if_index = i /\ m_data'[s].timer = NewStamp
      /\ \A r \in DOMAIN m_data \ {s} : m_data'[r] = m_data[r]
  BY <1>1, <1>2, SetSourceEffect
<1>5. /\ mfc' \in [DOMAIN mfc' -> Route] /\ DOMAIN mfc' \subseteq DOMAIN mfc \cup {s}
      /\ unresolved' \subseteq unresolved
      /\ \A r \in DOMAIN mfc \ {s} : r \in DOMAIN mfc'
      /\ \A r : r # s /\ r \in DOMAIN mfc' => mfc'[r] = mfc[r]
      /\ LET input  == m_data'[s].if_index
             output == collect_interested_interfaces(membership, input, s)
         IN /\ output = {} => s \notin DOMAIN mfc'
            /\ output # {} /\ UseThisInterface(input, s) =>
                          /\ s \in DOMAIN mfc'
                          /\ mfc'[s].input = input
                          /\ mfc'[s].output = output
  <2> DEFINE S == {s}
             data == m_data'
  <2>1. /\ S \in SUBSET Sources /\ set_routes(membership, data, S)
        /\ \A r \in S : data[r].if_index \in Interfaces
    BY <1>1, <1>4
  <2>2. DOMAIN mfc \subseteq Sources /\ mfc \in [DOMAIN mfc -> Route]
    BY <1>2 DEF TypeOK
  <2>3. s \in S /\ \A r : r \in S <=> r = s
    OBVIOUS
  <2> HIDE DEF S, data
  <2>4. /\ mfc' \in [DOMAIN mfc' -> Route] /\ DOMAIN mfc' \subseteq DOMAIN mfc \cup S
        /\ unresolved' \subseteq unresolved
        /\ \A r \in DOMAIN mfc \ S : r \in DOMAIN mfc'
        /\ \A r : r \notin S /\ r \in DOMAIN mfc' => mfc'[r] = mfc[r]
        /\ \A r \in S :
              LET input  == data[r].if_index
                  output == collect_interested_interfaces(membership, input, r)
              IN /\ output = {} => r \notin DOMAIN mfc'
                 /\ output # {} /\ UseThisInterface(input, r) =>
                       /\ r \in DOMAIN mfc'
                       /\ mfc'[r].input = input
                       /\ mfc'[r].output = output
    BY <2>1, <2>2, SetRoutesEffect
  <2>5. QED
    BY <2>3, <2>4 DEF data
<1>6. RecordsAreCurrent' /\ record' \in [UpstreamSet -> SourceState]
  BY <1>1, <1>2, RecordsIfMutex
<1>7. TypeOK'
  <2>1. DOMAIN m_data' \subseteq Sources /\ DOMAIN mfc' \subseteq Sources
    BY <1>2, <1>4, <1>5 DEF TypeOK
  <2>2. timing' \subseteq SourceTimer
    BY <1>1, <1>2, <1>3 DEF TypeOK
  <2>3. unresolved' \subseteq Sources /\ queue' \subseteq Interfaces \X Sources
    BY <1>1, <1>2, <1>5 DEF TypeOK
  <2>4. QED
    BY <1>1, <1>2, <1>4, <1>5, <1>6, <2>1, <2>2, <2>3 DEF TypeOK
<1>8. RoutesAreCurrent'
  <2>1. config' = config /\ DOMAIN mfc' \subseteq DOMAIN m_data'
    BY <1>1, <1>2, <1>4, <1>5, RoutesElim
  <2>2. ASSUME NEW r \in DOMAIN m_data'
        PROVE  LET input  == m_data'[r].if_index
                   output == collect_interested_interfaces(membership', input, r)
               IN /\ output = {} => r \notin DOMAIN mfc'
                  /\ output # {} /\ UseThisInterface(input, r) =>
                        /\ r \in DOMAIN mfc'
                        /\ mfc'[r].input = input
                        /\ mfc'[r].output = output
    <3>1. CASE r = s
      BY <1>1, <1>5, <3>1
    <3>2. CASE r # s
      BY <1>1, <1>2, <1>4, <1>5, <3>2, RoutesElim
    <3>3. QED
      BY <3>1, <3>2
  <2>3. QED
    BY <2>1, <2>2, RoutesIntro
<1>9. TimersOK'
  <2> SUFFICES ASSUME NEW r \in DOMAIN m_data'
               PROVE  \E t \in timing' : /\ t.source = r /\ t.stamp = m_data'[r].timer
                                        /\ t.left + idle' <= SourceLifeTime
    BY DEF TimersOK
  <2>1. CASE r = s
    BY <1>1, <1>3, <1>4, <2>1, LifeTimeAssumption
  <2>2. CASE r # s
    <3>1. r \in DOMAIN m_data /\ m_data'[r] = m_data[r]
      BY <1>4, <2>2
    <3>2. PICK t \in timing : t.source = r /\ t.stamp = m_data[r].timer
      BY <1>2, <3>1 DEF TimersOK
    <3>3. t.left \in 0 .. SourceLifeTime
      BY <1>2 DEF TypeOK, SourceTimer
    <3>4. QED
      BY <1>1, <3>1, <3>2, <3>3, LifeTimeAssumption
  <2>3. QED
    BY <2>1, <2>2
<1>10. QED
  BY <1>6, <1>7, <1>8, <1>9 DEF IInv
(* A querier publishes another membership.                                 *)
LEMMA StateChangeKeeps ==
    ASSUME IInv, NEW d \in Downstreams, NEW m \in Memberships,
           event_querier_state_change(d, m)
    PROVE  IInv'
<1>1. /\ changes' = changes + 1 /\ membership' = [membership EXCEPT ![d] = m]
      /\ set_routes(membership', m_data, DOMAIN m_data)
      /\ send_records(membership', m_data) /\ idle' = 0
      /\ UNCHANGED <<config, m_data, timing, queue, packets>>
  BY DEF event_querier_state_change
<1>2. TypeOK /\ RoutesAreCurrent /\ TimersOK
  BY DEF IInv
<1>3. membership' \in [Downstreams -> SourceState]
  BY <1>1, <1>2, InputAssumption DEF TypeOK
<1>4. /\ mfc' \in [DOMAIN mfc' -> Route] /\ DOMAIN mfc' \subseteq DOMAIN mfc \cup DOMAIN m_data
      /\ unresolved' \subseteq unresolved
      /\ \A s \in DOMAIN m_data :
            LET input  == m_data[s].if_index
                output == collect_interested_interfaces(membership', input, s)
            IN /\ output = {} => s \notin DOMAIN mfc'
               /\ output # {} /\ UseThisInterface(input, s) =>
                     /\ s \in DOMAIN mfc'
                     /\ mfc'[s].input = input
                     /\ mfc'[s].output = output
  <2> DEFINE S == DOMAIN m_data
             mem == membership'
  <2>1. /\ S \in SUBSET Sources /\ set_routes(mem, m_data, S)
        /\ \A s \in S : m_data[s].if_index \in Interfaces
    BY <1>1, <1>2 DEF TypeOK, LearnedSource
  <2>2. DOMAIN mfc \subseteq Sources /\ mfc \in [DOMAIN mfc -> Route]
    BY <1>2 DEF TypeOK
  <2> HIDE DEF S, mem
  <2>3. /\ mfc' \in [DOMAIN mfc' -> Route] /\ DOMAIN mfc' \subseteq DOMAIN mfc \cup S
        /\ unresolved' \subseteq unresolved
        /\ \A s \in S :
              LET input  == m_data[s].if_index
                  output == collect_interested_interfaces(mem, input, s)
              IN /\ output = {} => s \notin DOMAIN mfc'
                 /\ output # {} /\ UseThisInterface(input, s) =>
                       /\ s \in DOMAIN mfc'
                       /\ mfc'[s].input = input
                       /\ mfc'[s].output = output
    BY <2>1, <2>2, SetRoutesEffect
  <2>4. QED
    BY <2>3 DEF S, mem
<1>5. TypeOK'
  <2>1. record' \in [UpstreamSet -> SourceState]
    BY <1>1, <1>3, SendRecordsType
  <2>2. DOMAIN mfc' \subseteq Sources /\ unresolved' \subseteq Sources /\ changes' \in Nat
    BY <1>1, <1>2, <1>4 DEF TypeOK
  <2>3. QED
    BY <1>1, <1>2, <1>3, <1>4, <2>1, <2>2 DEF TypeOK
<1>6. RoutesAreCurrent'
  <2>1. DOMAIN mfc' \subseteq DOMAIN m_data' /\ config' = config /\ m_data' = m_data
    BY <1>1, <1>2, <1>4, RoutesElim
  <2>2. QED
    BY <1>4, <2>1, RoutesIntro
<1>7. RecordsAreCurrent'
  BY <1>1, RecordsIntro
<1>8. TimersOK'
  <2> SUFFICES ASSUME NEW r \in DOMAIN m_data
               PROVE  \E t \in timing' : /\ t.source = r /\ t.stamp = m_data'[r].timer
                                        /\ t.left + idle' <= SourceLifeTime
    BY <1>1 DEF TimersOK
  <2>1. PICK t \in timing : t.source = r /\ t.stamp = m_data[r].timer
    BY <1>2 DEF TimersOK
  <2>2. t.left \in 0 .. SourceLifeTime
    BY <1>2 DEF TypeOK, SourceTimer
  <2>3. QED
    BY <1>1, <2>1, <2>2, LifeTimeAssumption
<1>9. QED
  BY <1>5, <1>6, <1>7, <1>8 DEF IInv

(* A source timer falls due.                                               *)
LEMMA TimerKeeps ==
    ASSUME IInv, NEW t \in timing, timer_triggerd_maintain_routing_table(t)
    PROVE  IInv'
<1> DEFINE s == t.source
           unused == m_data[s].count = get_current_packet_count(s)
<1>1. TypeOK /\ RoutesAreCurrent /\ RecordsAreCurrent /\ TimersOK
  BY DEF IInv
<1>2. /\ UNCHANGED <<config, membership, queue, unresolved, idle, packets, changes>>
      /\ t.left = 0
  BY DEF timer_triggerd_maintain_routing_table
<1>3. t \in SourceTimer /\ \A r \in timing : r \in SourceTimer
  BY <1>1 DEF TypeOK
<1>4. \A r \in DOMAIN m_data : r # s \/ ~IsCurrent(t) =>
         \E k \in timing \ {t} :
            /\ k.source = r /\ k.stamp = m_data[r].timer
            /\ \/ k.left + idle <= SourceLifeTime
               \/ /\ m_data[r].count = get_current_packet_count(r)
                  /\ k.left + idle <= 2 * SourceLifeTime
  BY <1>1 DEF TimersOK, IsCurrent
<1>5. CASE /\ ~IsCurrent(t) /\ timing' = timing \ {t} /\ UNCHANGED <<m_data, mfc, record>>
  <2>1. TypeOK'
    BY <1>1, <1>2, <1>5 DEF TypeOK
  <2>2. RoutesAreCurrent'
    BY <1>1, <1>2, <1>5, RoutesElim, RoutesIntro
  <2>3. RecordsAreCurrent'
    BY <1>1, <1>2, <1>5 DEF RecordsAreCurrent
  <2>4. TimersOK'
    BY <1>2, <1>4, <1>5 DEF TimersOK, get_current_packet_count
  <2>5. QED
    BY <2>1, <2>2, <2>3, <2>4 DEF IInv
<1>6. CASE /\ IsCurrent(t) /\ unused /\ timing' = timing \ {t}
           /\ m_data' = Restrict(m_data, DOMAIN m_data \ {s})
           /\ mfc' = Restrict(mfc, DOMAIN mfc \ {s})
           /\ send_records_if_mutex(m_data')
  <2>1. /\ DOMAIN m_data' = DOMAIN m_data \ {s} /\ DOMAIN mfc' = DOMAIN mfc \ {s}
        /\ \A r \in DOMAIN m_data' : m_data'[r] = m_data[r]
        /\ \A r \in DOMAIN mfc' : mfc'[r] = mfc[r]
        /\ m_data' = [r \in DOMAIN m_data' |-> m_data'[r]]
        /\ mfc' = [r \in DOMAIN mfc' |-> mfc'[r]]
    BY <1>6 DEF Restrict
  <2>2. RecordsAreCurrent' /\ record' \in [UpstreamSet -> SourceState]
    BY <1>1, <1>2, <1>6, RecordsIfMutex
  <2>3. TypeOK'
    <3>1. m_data' \in [DOMAIN m_data' -> LearnedSource] /\ mfc' \in [DOMAIN mfc' -> Route]
      BY <1>1, <2>1 DEF TypeOK
    <3>2. QED
      BY <1>1, <1>2, <1>6, <2>1, <2>2, <3>1 DEF TypeOK
  <2>4. RoutesAreCurrent'
    <3>1. DOMAIN mfc' \subseteq DOMAIN m_data' /\ config' = config
      BY <1>1, <1>2, <2>1, RoutesElim
    <3>2. ASSUME NEW r \in DOMAIN m_data'
          PROVE  LET input  == m_data'[r].if_index
                     output == collect_interested_interfaces(membership', input, r)
                 IN /\ output = {} => r \notin DOMAIN mfc'
                    /\ output # {} /\ UseThisInterface(input, r) =>
                          /\ r \in DOMAIN mfc'
                          /\ mfc'[r].input = input
                          /\ mfc'[r].output = output
      <4>1. r \in DOMAIN m_data /\ m_data'[r] = m_data[r] /\ membership' = membership
        BY <1>2, <2>1
      <4>2. /\ r \in DOMAIN mfc' <=> r \in DOMAIN mfc
            /\ r \in DOMAIN mfc' => mfc'[r] = mfc[r]
        BY <2>1
      <4>3. QED
        BY <1>1, <4>1, <4>2, RoutesElim
    <3>3. QED
      BY <3>1, <3>2, RoutesIntro
  <2>5. TimersOK'
    <3> SUFFICES ASSUME NEW r \in DOMAIN m_data'
                 PROVE  \E k \in timing' :
                           /\ k.source = r /\ k.stamp = m_data'[r].timer
                           /\ \/ k.left + idle' <= SourceLifeTime
                              \/ /\ m_data'[r].count = get_current_packet_count(r)'
                                 /\ k.left + idle' <= 2 * SourceLifeTime
      BY DEF TimersOK
    <3>1. r # s /\ r \in DOMAIN m_data /\ m_data'[r] = m_data[r]
      BY <2>1
    <3>2. get_current_packet_count(r)' = get_current_packet_count(r)
      BY <2>1, <3>1 DEF get_current_packet_count
    <3>3. QED
      BY <1>2, <1>4, <1>6, <3>1, <3>2
  <2>6. QED
    BY <2>2, <2>3, <2>4, <2>5 DEF IInv
<1>7. CASE /\ IsCurrent(t) /\ ~unused /\ FreeStamps # {}
           /\ timing' = (timing \ {t}) \cup {set_source_timer(t.if_index, s)}
           /\ m_data' = refresh_source(s) /\ UNCHANGED <<mfc, record>>
  <2> DEFINE nt == set_source_timer(t.if_index, s)
  <2>1. /\ nt \in SourceTimer /\ nt.source = s /\ nt.stamp = NewStamp
        /\ nt.left = SourceLifeTime
    BY <1>3, <1>7, NewStampType, LifeTimeAssumption DEF set_source_timer, SourceTimer
  <2>2. timing' = (timing \ {t}) \cup {nt}
    BY <1>7
  <2> HIDE DEF nt
  <2>3. s \in DOMAIN m_data
    BY <1>7 DEF IsCurrent
  <2> HIDE DEF s
  <2>4. /\ DOMAIN m_data' = DOMAIN m_data
        /\ m_data' \in [DOMAIN m_data' -> LearnedSource]
        /\ m_data'[s].count = get_current_packet_count(s) /\ m_data'[s].timer = NewStamp
        /\ \A r \in DOMAIN m_data \ {s} : m_data'[r] = m_data[r]
        /\ get_interface_map(m_data') = get_interface_map(m_data)
        /\ \A r \in DOMAIN m_data : m_data'[r].if_index = m_data[r].if_index
    BY <1>1, <1>7, <2>3, RefreshEffect
  <2>5. TypeOK'
    <3>1. timing' \subseteq SourceTimer
      BY <1>3, <2>1, <2>2
    <3>2. QED
      BY <1>1, <1>2, <1>7, <2>4, <3>1 DEF TypeOK
  <2>6. RoutesAreCurrent'
    BY <1>1, <1>2, <1>7, <2>4, RoutesElim, RoutesIntro
  <2>7. RecordsAreCurrent'
    BY <1>1, <1>2, <1>7, <2>4 DEF RecordsAreCurrent
  <2>8. TimersOK'
    <3> SUFFICES ASSUME NEW r \in DOMAIN m_data
                 PROVE  \E k \in timing' :
                           /\ k.source = r /\ k.stamp = m_data'[r].timer
                           /\ \/ k.left + idle' <= SourceLifeTime
                              \/ /\ m_data'[r].count = get_current_packet_count(r)'
                                 /\ k.left + idle' <= 2 * SourceLifeTime
      BY <2>4 DEF TimersOK
    <3>1. get_current_packet_count(r)' = get_current_packet_count(r)
      BY <1>7 DEF get_current_packet_count
    <3>2. CASE r # s
      BY <1>2, <1>4, <2>2, <2>4, <3>1, <3>2 DEF s
    <3>3. CASE r = s
      <4>1. PICK k \in timing : /\ k.left + idle <= SourceLifeTime
        BY <1>1, <1>7, <2>3 DEF TimersOK
      <4>2. k.left \in 0 .. SourceLifeTime /\ idle \in Nat
        BY <1>1, <1>3 DEF SourceTimer, TypeOK
      <4>3. nt.left + idle' <= 2 * SourceLifeTime
        BY <1>2, <2>1, <4>1, <4>2, LifeTimeAssumption
      <4>4. QED
        BY <2>1, <2>2, <2>4, <3>1, <3>3, <4>3
    <3>4. QED
      BY <3>2, <3>3
  <2>9. QED
    BY <2>5, <2>6, <2>7, <2>8 DEF IInv
<1>8. QED
  BY <1>5, <1>6, <1>7 DEF timer_triggerd_maintain_routing_table
(* A packet: the kernel counts it or asks for a route.                     *)
LEMMA PacketKeeps ==
    ASSUME IInv, NEW i \in Interfaces, NEW s \in Senders, Packet(i, s)
    PROVE  IInv'
<1>1. TypeOK /\ RoutesAreCurrent /\ RecordsAreCurrent /\ TimersOK
  BY DEF IInv
<1>2. /\ packets' = packets + 1 /\ idle' = 0
      /\ UNCHANGED <<config, membership, m_data, timing, record, changes>>
      /\ s \in Sources
  BY InputAssumption DEF Packet
<1>3. /\ DOMAIN mfc' = DOMAIN mfc /\ mfc' \in [DOMAIN mfc' -> Route]
      /\ \A r \in DOMAIN mfc : mfc'[r].input = mfc[r].input /\ mfc'[r].output = mfc[r].output
      /\ unresolved' \subseteq Sources /\ queue' \subseteq Interfaces \X Sources
  <2>1. CASE s \in DOMAIN mfc /\ mfc' = [mfc EXCEPT ![s].pkts = @ + 1]
             /\ UNCHANGED <<unresolved, queue>>
    BY <1>1, <2>1 DEF TypeOK, Route
  <2>2. CASE /\ unresolved' = unresolved \cup {s} /\ UNCHANGED mfc
             /\ queue' \in {queue, queue \cup {<<i, s>>}}
    BY <1>1, <1>2, <2>2 DEF TypeOK
  <2>3. QED
    BY <2>1, <2>2 DEF Packet
<1>4. TypeOK'
  BY <1>1, <1>2, <1>3 DEF TypeOK
<1>5. RoutesAreCurrent'
  BY <1>1, <1>2, <1>3, RoutesElim, RoutesIntro
<1>6. RecordsAreCurrent'
  BY <1>1, <1>2 DEF RecordsAreCurrent
<1>7. TimersOK'
  <2> SUFFICES ASSUME NEW r \in DOMAIN m_data
               PROVE  \E t \in timing' : /\ t.source = r /\ t.stamp = m_data'[r].timer
                                        /\ t.left + idle' <= SourceLifeTime
    BY <1>2 DEF TimersOK
  <2>1. PICK t \in timing : t.source = r /\ t.stamp = m_data[r].timer
    BY <1>1 DEF TimersOK
  <2>2. t.left \in 0 .. SourceLifeTime
    BY <1>1 DEF TypeOK, SourceTimer
  <2>3. QED
    BY <1>2, <2>1, <2>2, LifeTimeAssumption
<1>8. QED
  BY <1>4, <1>5, <1>6, <1>7 DEF IInv

(* Time passes.                                                            *)
LEMMA TickKeeps ==
    ASSUME IInv, Tick
    PROVE  IInv'
<1> DEFINE down(t) == [t EXCEPT !.left = @ - 1]
<1>1. TypeOK /\ RoutesAreCurrent /\ RecordsAreCurrent /\ TimersOK
  BY DEF IInv
<1>2. /\ \A t \in timing : t.left > 0
      /\ timing' = {down(t) : t \in timing} /\ idle' = idle + 1
      /\ UNCHANGED <<config, membership, m_data, mfc, unresolved, queue, record,
                     packets, changes>>
  BY DEF Tick
<1>3. ASSUME NEW t \in timing
      PROVE  /\ down(t) \in SourceTimer /\ down(t).source = t.source
             /\ down(t).stamp = t.stamp /\ down(t).left = t.left - 1
             /\ t.left \in Nat
  BY <1>1, <1>2, LifeTimeAssumption DEF TypeOK, SourceTimer
<1> HIDE DEF down
<1>4. TypeOK'
  <2>1. timing' \subseteq SourceTimer /\ idle' \in Nat
    BY <1>1, <1>2, <1>3 DEF TypeOK
  <2>2. QED
    BY <1>1, <1>2, <2>1 DEF TypeOK
<1>5. RoutesAreCurrent'
  BY <1>1, <1>2, RoutesElim, RoutesIntro
<1>6. RecordsAreCurrent'
  BY <1>1, <1>2 DEF RecordsAreCurrent
<1>7. TimersOK'
  <2> SUFFICES ASSUME NEW r \in DOMAIN m_data
               PROVE  \E k \in timing' :
                         /\ k.source = r /\ k.stamp = m_data'[r].timer
                         /\ \/ k.left + idle' <= SourceLifeTime
                            \/ /\ m_data'[r].count = get_current_packet_count(r)'
                               /\ k.left + idle' <= 2 * SourceLifeTime
    BY <1>2 DEF TimersOK
  <2>1. get_current_packet_count(r)' = get_current_packet_count(r)
    BY <1>2 DEF get_current_packet_count
  <2>2. PICK t \in timing :
          /\ t.source = r /\ t.stamp = m_data[r].timer
          /\ \/ t.left + idle <= SourceLifeTime
             \/ /\ m_data[r].count = get_current_packet_count(r)
                /\ t.left + idle <= 2 * SourceLifeTime
    BY <1>1 DEF TimersOK
  <2>3. down(t).left + idle' = t.left + idle
    BY <1>1, <1>2, <1>3 DEF TypeOK
  <2>4. down(t) \in timing'
    BY <1>2
  <2>5. QED
    BY <1>2, <1>3, <2>1, <2>2, <2>3, <2>4
<1>8. QED
  BY <1>4, <1>5, <1>6, <1>7 DEF IInv

(* The kernel gives up, and steps that leave everything as it is.          *)
LEMMA OthersKeep ==
    ASSUME IInv, (\E s \in Sources : UpcallExpires(s)) \/ UNCHANGED vars
    PROVE  IInv'
<1>1. /\ UNCHANGED <<config, membership, m_data, timing, mfc, queue, record, idle,
                     packets, changes>>
      /\ unresolved' \subseteq unresolved
  BY DEF UpcallExpires, vars
<1>2. TypeOK /\ RoutesAreCurrent /\ RecordsAreCurrent /\ TimersOK
  BY DEF IInv
<1>3. TypeOK'
  BY <1>1, <1>2 DEF TypeOK
<1>4. RoutesAreCurrent'
  BY <1>1, <1>2, RoutesElim, RoutesIntro
<1>5. RecordsAreCurrent'
  BY <1>1, <1>2 DEF RecordsAreCurrent
<1>6. TimersOK'
  BY <1>1, <1>2 DEF TimersOK, get_current_packet_count
<1>7. QED
  BY <1>3, <1>4, <1>5, <1>6 DEF IInv

(* Nothing is learned and nothing is wanted at the start.                  *)
LEMMA InvInit ==
    ASSUME Init
    PROVE  IInv
<1>1. DOMAIN m_data = {} /\ DOMAIN mfc = {}
  BY DEF Init
<1>2. NewSourceState \in SourceState
  BY DEF NewSourceState, SourceState, FilterModes
<1>3. TypeOK
  BY <1>1, <1>2 DEF Init, TypeOK
<1>4. RoutesAreCurrent /\ TimersOK
  BY <1>1 DEF RoutesAreCurrent, TimersOK
<1>5. RecordsAreCurrent
  <2> DEFINE m == get_interface_map(m_data)
  <2>1. process_membership_aggregation(config, [d \in Downstreams |-> NewSourceState], m)
          = [u \in UpstreamSet |-> NewSourceState]
    BY AggregationOfNothing
  <2>2. QED
    BY <2>1 DEF Init, RecordsAreCurrent
<1>6. QED
  BY <1>3, <1>4, <1>5 DEF IInv

(* Every step keeps the invariant.                                         *)
LEMMA InvNext ==
    ASSUME IInv, [Next]_vars
    PROVE  IInv'
<1>1. CASE \E i \in Interfaces, s \in Sources : event_new_source(i, s)
  BY <1>1, NewSourceKeeps
<1>2. CASE \E d \in Downstreams, m \in Memberships : event_querier_state_change(d, m)
  BY <1>2, StateChangeKeeps
<1>3. CASE \E t \in timing : timer_triggerd_maintain_routing_table(t)
  BY <1>3, TimerKeeps
<1>4. CASE \E i \in Interfaces, s \in Senders : Packet(i, s)
  BY <1>4, PacketKeeps
<1>5. CASE Tick
  BY <1>5, TickKeeps
<1>6. QED
  BY <1>1, <1>2, <1>3, <1>4, <1>5, OthersKeep DEF Next

(* The invariant holds in every state.                                     *)
THEOREM RoutingInvariant == Spec => []IInv
<1>1. Init => IInv
  BY InvInit
<1>2. IInv /\ [Next]_vars => IInv'
  BY InvNext
<1>3. QED
  BY <1>1, <1>2, PTL DEF Spec

(***************************************************************************)
(* What follows from it                                                    *)
(***************************************************************************)
(* Every variable has its type, the records and the routes included.       *)
THEOREM RoutingTypeCorrect == Spec => []TypeOK
<1>1. IInv => TypeOK
  BY DEF IInv
<1>2. QED
  BY <1>1, RoutingInvariant, PTL

(* set_routes and del_route, called from three handlers: the kernel forwards a
   learned source to the interfaces that want it now, for every number of
   interfaces, sources and memberships and every configuration of filters. *)
THEOREM RoutesFollow == Spec => []RoutesAreCurrent
<1>1. IInv => RoutesAreCurrent
  BY DEF IInv
<1>2. QED
  BY <1>1, RoutingInvariant, PTL

(* process_membership_aggregation is called whenever its result may change:
   the upstreams have always been told the present aggregation.            *)
THEOREM RecordsFollow == Spec => []RecordsAreCurrent
<1>1. IInv => RecordsAreCurrent
  BY DEF IInv
<1>2. QED
  BY <1>1, RoutingInvariant, PTL

(* The source timers: two silent life times are enough to forget every source
   and its route, whatever timers were started and replaced before.        *)
THEOREM SilenceIsForgotten == Spec => []SilentSourcesAreForgotten
<1>1. IInv => SilentSourcesAreForgotten
  <2> SUFFICES ASSUME IInv, idle > 2 * SourceLifeTime PROVE m_data = <<>> /\ mfc = <<>>
    BY DEF SilentSourcesAreForgotten
  <2>1. TypeOK /\ RoutesAreCurrent /\ TimersOK
    BY DEF IInv
  <2>2. ASSUME NEW s \in DOMAIN m_data PROVE FALSE
    <3>1. PICK t \in timing : t.left + idle <= SourceLifeTime \/ t.left + idle <= 2 * SourceLifeTime
      BY <2>1 DEF TimersOK
    <3>2. t.left \in 0 .. SourceLifeTime /\ idle \in Nat
      BY <2>1 DEF TypeOK, SourceTimer
    <3>3. QED
      BY <3>1, <3>2, LifeTimeAssumption
  <2>3. DOMAIN m_data = {} /\ DOMAIN mfc = {}
    BY <2>1, <2>2, RoutesElim
  <2>4. m_data \in [{} -> LearnedSource] /\ mfc \in [{} -> Route]
    BY <2>1, <2>3 DEF TypeOK
  <2>5. QED
    BY <2>3, <2>4
<1>2. QED
  BY <1>1, RoutingInvariant, PTL
(***************************************************************************)
(* A seen source is asked for at one upstream                              *)
(***************************************************************************)
(* Source s is named in one list at most, and in none if it does not arrive
   over an upstream.                                                       *)
Once(data, if_map, s) ==
    /\ \A i, j \in 1 .. Len(data) : Has(data[i], s) /\ Has(data[j], s) => i = j
    /\ \A i \in 1 .. Len(data) : Has(data[i], s) => if_map[s] \in UpstreamSet

(* Every round of the loop keeps this, since it takes the source from the
   upstreams before.                                                       *)
LEMMA MutexOnce ==
    ASSUME NEW c, NEW if_map, NEW mem, NEW step, MutexSteps(c, if_map, mem, step),
           NEW s \in DOMAIN if_map
    PROVE  Once(step[Len(Upstreams)].data, if_map, s)
<1> DEFINE N == Len(Upstreams)
           P == {n \in 0 .. N : Once(step[n].data, if_map, s)}
<1>1. N \in Nat
  BY InterfacesAssumption, LenProperties
<1>2. 0 \in P
  <2>1. step[0].data = <<>>
    BY DEF MutexSteps
  <2>2. Once(<<>>, if_map, s)
    BY DEF Once
  <2>3. QED
    BY <1>1, <2>1, <2>2
<1>3. ASSUME NEW n \in 0 .. N - 1, n \in P PROVE n + 1 \in P
  <2>1. n \in 0 .. N /\ n + 1 \in 1 .. N /\ (n + 1) - 1 = n /\ n + 1 \in 0 .. N
    BY <1>1
  <2> DEFINE acc == step[n]
             new == step[n + 1]
             m == Len(acc.data)
  <2>2. acc \in Acc(mem) /\ new = MutexStep(c, if_map, Upstreams[n + 1], acc)
    BY <2>1 DEF MutexSteps
  <2>3. Once(acc.data, if_map, s)
    BY <1>3
  <2> HIDE DEF acc, new
  <2>4. /\ m \in Nat /\ Len(new.data) = m + 1
        /\ \A i \in 1 .. m : Has(new.data[i], s) => Has(acc.data[i], s)
        /\ Has(new.data[m + 1], s) => /\ if_map[s] \in UpstreamSet
                                      /\ \A i \in 1 .. m : ~Has(new.data[i], s)
    BY <2>2, MutexStepEffect
  <2>5. \A i \in 1 .. m + 1 : i \in 1 .. m \/ i = m + 1
    BY <2>4
  <2>6. Once(new.data, if_map, s)
    <3>1. /\ \A i, j \in 1 .. m : Has(acc.data[i], s) /\ Has(acc.data[j], s) => i = j
          /\ \A i \in 1 .. m : Has(acc.data[i], s) => if_map[s] \in UpstreamSet
      BY <2>3 DEF Once
    <3> HIDE DEF m
    <3>2. \A i, j \in 1 .. m + 1 : Has(new.data[i], s) /\ Has(new.data[j], s) => i = j
      BY <2>4, <2>5, <3>1
    <3>3. \A i \in 1 .. m + 1 : Has(new.data[i], s) => if_map[s] \in UpstreamSet
      BY <2>4, <2>5, <3>1
    <3>4. QED
      BY <2>4, <3>2, <3>3 DEF Once
  <2>7. QED
    BY <2>1, <2>6 DEF new
<1>4. \A n \in 0 .. N : n \in P
  <2> HIDE DEF P, N
  <2>1. QED
    BY <1>1, <1>2, <1>3, IntervalInduction
<1>5. QED
  BY <1>1, <1>4

(* A set without two elements has at most one.                             *)
LEMMA AtMostOne ==
    ASSUME NEW S, \A a, b \in S : a = b
    PROVE  Cardinality(S) <= 1
<1>1. CASE S = {}
  BY <1>1, FS_EmptySet
<1>2. CASE S # {}
  <2>1. PICK a \in S : S = {a}
    BY <1>2
  <2>2. Cardinality(S) = 1
    BY <2>1, FS_Singleton
  <2>3. QED
    BY <2>2
<1>3. QED
  BY <1>1, <1>2

(* process_upstream_in_mutex with any number of upstreams and any filters: two
   upstreams never ask for a seen source by name, and none does for a source
   behind a downstream.                                                    *)
THEOREM SeenOnce == Spec => []SeenSourceAtOneUpstream
<1>1. IInv => SeenSourceAtOneUpstream
  <2> DEFINE if_map == get_interface_map(m_data)
             im == interface_memberships(config, membership, if_map)
             agg == process_membership_aggregation(config, membership, if_map)
             asking(s) == {u \in UpstreamSet : /\ record[u].mode = "INCLUDE_MODE"
                                              /\ s \in record[u].sources}
  <2> SUFFICES ASSUME IInv, config.in_rule = "RMT_MUTEX", NEW s \in DOMAIN m_data
               PROVE  Cardinality(asking(s))
                         <= IF is_upstream(m_data[s].if_index) THEN 1 ELSE 0
    BY DEF SeenSourceAtOneUpstream
  <2>1. TypeOK /\ RecordsAreCurrent
    BY DEF IInv
  <2>2. membership \in [Downstreams -> SourceState] /\ s \in Sources
    BY <2>1 DEF TypeOK
  <2>3. record = agg
    BY <2>1 DEF RecordsAreCurrent
  <2>4. s \in DOMAIN if_map /\ if_map[s] = m_data[s].if_index
    BY DEF get_interface_map
  <2> HIDE DEF if_map
  <2>5. \A i \in DOMAIN Upstreams : /\ im[i] \in Reduced(membership)
                                   /\ agg[Upstreams[i]] = get_group_memberships(im[i])
    BY <2>2, AggregationValue
  <2>6. PICK step : MutexSteps(config, if_map, membership, step)
    BY <2>2, MutexLoop
  <2> DEFINE N == Len(Upstreams)
  <2>7. N \in Nat /\ DOMAIN Upstreams = 1 .. N /\ N \in 0 .. N
    <3>1. N \in Nat /\ DOMAIN Upstreams = 1 .. N
      BY InterfacesAssumption, LenProperties
    <3> HIDE DEF N
    <3>2. QED
      BY <3>1
  <2>8. im = step[N].data
    BY <2>6 DEF interface_memberships, MutexSteps
  <2>9. Len(step[N].data) = N
    BY <2>6, <2>7, MutexLength
  <2>10. Once(step[N].data, if_map, s)
    BY <2>4, <2>6, MutexOnce
  <2> HIDE DEF im, N, agg
  <2>11. /\ \A i, j \in DOMAIN Upstreams : Has(im[i], s) /\ Has(im[j], s) => i = j
         /\ \A i \in DOMAIN Upstreams : Has(im[i], s) => if_map[s] \in UpstreamSet
    BY <2>7, <2>8, <2>9, <2>10 DEF Once
  <2>12. ASSUME NEW u \in asking(s)
         PROVE  \E i \in DOMAIN Upstreams : u = Upstreams[i] /\ Has(im[i], s)
    <3>1. PICK i \in DOMAIN Upstreams : u = Upstreams[i]
      BY DEF UpstreamSet
    <3> DEFINE l == im[i]
               g == get_group_memberships(l)
    <3>2. l \in Lists /\ record[u] = g
      BY <2>3, <2>5, <3>1, ReducedElim
    <3>3. g.mode = "INCLUDE_MODE" /\ s \in g.sources
      BY <3>2
    <3> HIDE DEF l
    <3>4. /\ \A d \in DOMAIN l : l[d].mode = "INCLUDE_MODE"
          /\ \E d \in DOMAIN l : Wants(l[d], s)
      BY <2>2, <3>2, <3>3, GroupMembershipsWant DEF Wants
    <3>5. Has(l, s)
      BY <3>4 DEF Has, Wants
    <3>6. QED
      BY <3>1, <3>5 DEF l
  <2> HIDE DEF asking
  <2>13. \A a, b \in asking(s) : a = b
    BY <2>11, <2>12
  <2>14. CASE if_map[s] \in UpstreamSet
    <3>1. Cardinality(asking(s)) <= 1
      BY <2>13, AtMostOne
    <3>2. QED
      BY <2>4, <2>14, <3>1 DEF is_upstream
  <2>15. CASE if_map[s] \notin UpstreamSet
    <3>1. asking(s) = {}
      BY <2>11, <2>12, <2>15
    <3>2. QED
      BY <2>4, <2>15, <3>1, FS_EmptySet DEF is_upstream
  <2>16. QED
    BY <2>14, <2>15
<1>2. QED
  BY <1>1, RoutingInvariant, PTL

(***************************************************************************)
(* Without filters                                                         *)
(***************************************************************************)
(* An empty list asks for nothing.                                         *)
LEMMA EmptyListWants ==
    ASSUME NEW list \in Lists, DOMAIN list = {}
    PROVE  get_group_memberships(list) = NewSourceState
<1> DEFINE g == get_group_memberships(list)
<1>1. g \in SourceState /\ g.mode = "INCLUDE_MODE" /\ \A s \in Sources : ~Wants(g, s)
  BY GroupMembershipsWant
<1> HIDE DEF g
<1>2. g.sources = {}
  BY <1>1 DEF Wants, SourceState
<1>3. QED
  BY <1>1, <1>2 DEF SourceState, NewSourceState, g

(* With the rule "first" and without filters nothing is left for the second
   upstream: the first one is told exactly what the downstreams together want,
   however many there are.                                                 *)
THEOREM FirstUpstreamAsksForAll == Spec => []UnfilteredAggregation
<1>1. IInv => UnfilteredAggregation
  <2> SUFFICES ASSUME IInv, config.in_rule = "RMT_FIRST",
                      \A u \in UpstreamSet : config.up[u].input = Sources,
                      \A d \in Downstreams : config.down[d].output = Interfaces \X Sources,
                      NEW i \in DOMAIN Upstreams
               PROVE  IF i = 1 THEN \A s \in Sources : Wants(record[Upstreams[1]], s) <=>
                                       \E d \in Downstreams : Wants(membership[d], s)
                               ELSE record[Upstreams[i]] = NewSourceState
    BY DEF UnfilteredAggregation
  <2> DEFINE if_map == get_interface_map(m_data)
             im == interface_memberships(config, membership, if_map)
             agg == process_membership_aggregation(config, membership, if_map)
             R == Reduced(membership)
  <2>1. membership \in [Downstreams -> SourceState] /\ record = agg
    BY DEF IInv, TypeOK, RecordsAreCurrent
  <2>2. /\ im[i] \in R /\ agg[Upstreams[i]] = get_group_memberships(im[i])
    BY <2>1, AggregationValue
  <2>3. PICK list : FirstLists(config, membership, list)
    BY <2>1, FirstLoop
  <2>4. im[i] = WithSources(list[i], FirstSplit(config, Upstreams[i], list[i], TRUE))
    BY <2>3 DEF interface_memberships, FirstLists
  <2> HIDE DEF im, agg, if_map
  <2>5. ASSUME NEW l \in R, NEW u \in UpstreamSet, NEW d \in DOMAIN l
        PROVE  /\ FirstSplit(config, u, l, TRUE)[d] = l[d].sources
               /\ FirstSplit(config, u, l, FALSE)[d] = {}
    <3>1. d \in Downstreams /\ l[d].sources \subseteq Sources
      BY ReducedElim
    <3>2. \A s \in l[d].sources : /\ match_output_filter(config.down[d], u, s)
                                  /\ match_input_filter(config.up[u], s)
      BY <3>1 DEF match_output_filter, match_input_filter, Interfaces
    <3>3. QED
      BY <3>2 DEF FirstSplit
  <2>6. list[i] \in R /\ DOMAIN im[i] = DOMAIN list[i]
    BY <2>3, <2>4 DEF FirstLists, WithSources
  <2>7. im[i] \in Lists
    BY <2>2, ReducedElim
  <2>8. CASE i = 1
    <3>1. list[i] = membership
      BY <2>3, <2>8 DEF FirstLists
    <3>2. Upstreams[i] \in UpstreamSet
      BY DEF UpstreamSet
    <3>3. ASSUME NEW d \in DOMAIN membership PROVE im[i][d] = membership[d]
      <4>1. FirstSplit(config, Upstreams[i], membership, TRUE)[d] = membership[d].sources
        BY <2>5, <2>6, <3>1, <3>2
      <4>2. im[i][d] = [membership[d] EXCEPT !.sources = membership[d].sources]
        BY <2>4, <3>1, <4>1 DEF WithSources
      <4>3. membership[d] \in SourceState
        BY <2>1
      <4>4. QED
        BY <4>2, <4>3 DEF SourceState
    <3>4. DOMAIN im[i] = Downstreams /\ DOMAIN membership = Downstreams
      BY <2>1, <2>6, <3>1
    <3>5. \A s \in Sources : Wants(get_group_memberships(im[i]), s)
                                <=> \E d \in DOMAIN im[i] : Wants(im[i][d], s)
      BY <2>7, GroupMembershipsWant
    <3>6. QED
      BY <2>1, <2>2, <2>8, <3>3, <3>4, <3>5
  <2>9. CASE i # 1
    <3>1. i - 1 \in DOMAIN Upstreams
      BY <2>9, InterfacesAssumption, LenProperties
    <3> DEFINE l == list[i - 1]
               u == Upstreams[i - 1]
               keep == FirstSplit(config, u, l, FALSE)
               w == WithSources(l, keep)
               n == NonEmpty(w)
    <3>2. list[i] = n
      BY <2>3, <2>9 DEF FirstLists, FirstRest
    <3>3. l \in R /\ u \in UpstreamSet
      BY <2>3, <3>1 DEF FirstLists, UpstreamSet
    <3>4. w = WithSources(l, keep) /\ n = NonEmpty(w)
      OBVIOUS
    <3>5. \A d \in DOMAIN l : keep[d] = {}
      BY <2>5, <3>3
    <3> HIDE DEF l, u, keep, w, n
    <3>6. DOMAIN n = {d \in DOMAIN l : keep[d] # {}}
      BY <3>3, <3>4, <3>5, ReduceFurther
    <3>7. DOMAIN im[i] = {}
      BY <2>6, <3>2, <3>5, <3>6
    <3>8. get_group_memberships(im[i]) = NewSourceState
      BY <2>7, <3>7, EmptyListWants
    <3>9. QED
      BY <2>1, <2>2, <2>9, <3>8
  <2>10. QED
    BY <2>8, <2>9
<1>2. QED
  BY <1>1, RoutingInvariant, PTL
=============================================================================

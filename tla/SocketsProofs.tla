--------------------------- MODULE SocketsProofs ---------------------------
(***************************************************************************)
(* Proofs about the sockets of a proxy instance: for any number of links,  *)
(* groups and sources, any limits of the kernel and reports of any length. *)
(***************************************************************************)
EXTENDS Sockets, Induction, FiniteSetTheorems, SequenceTheorems, TLAPS

(***************************************************************************)
(* What one record does to the memberships of the socket                   *)
(***************************************************************************)
RouterGroup == {RouterGroups[n] : n \in DOMAIN RouterGroups}
Key == Ifs \X (Groups \cup RouterGroup)
Nothing == [mode |-> "INCLUDE_MODE", srcs |-> {}]
Everything == [mode |-> "EXCLUDE_MODE", srcs |-> {}]

(* The memberships the kernel can hold: finitely many, up to its limit.    *)
Memberships ==
    {m \in UNION {[D -> Filter] : D \in SUBSET Key} :
        IsFiniteSet(DOMAIN m) /\ Cardinality(DOMAIN m) <= MaxMemberships}
Results == [member : Memberships, ok : BOOLEAN]

(* The filter of one member of the socket, or that it is not a member.     *)
InForce(m, key, filter) ==
    IF filter = Nothing THEN key \notin DOMAIN m
                        ELSE key \in DOMAIN m /\ m[key] = filter

(* m and n hold the same at key.                                           *)
SameAt(m, n, key) ==
    /\ key \in DOMAIN m <=> key \in DOMAIN n
    /\ key \in DOMAIN m => m[key] = n[key]

(* What it takes to be in Memberships.                                     *)
LEMMA MembershipsIntro ==
    ASSUME NEW D \in SUBSET Key, NEW m \in [D -> Filter],
           IsFiniteSet(D), Cardinality(D) <= MaxMemberships
    PROVE  m \in Memberships
<1>1. DOMAIN m = D
  OBVIOUS
<1>2. m \in UNION {[E -> Filter] : E \in SUBSET Key}
  OBVIOUS
<1>3. QED
  BY <1>1, <1>2 DEF Memberships

(* What a member of Memberships is.                                        *)
LEMMA MembershipsElim ==
    ASSUME NEW m \in Memberships
    PROVE  /\ DOMAIN m \in SUBSET Key /\ m \in [DOMAIN m -> Filter]
           /\ IsFiniteSet(DOMAIN m) /\ Cardinality(DOMAIN m) \in Nat
           /\ Cardinality(DOMAIN m) <= MaxMemberships
<1>1. PICK D \in SUBSET Key : m \in [D -> Filter]
  BY DEF Memberships
<1>2. DOMAIN m = D
  BY <1>1
<1>3. IsFiniteSet(DOMAIN m) /\ Cardinality(DOMAIN m) <= MaxMemberships
  BY DEF Memberships
<1>4. Cardinality(DOMAIN m) \in Nat
  BY <1>3, FS_CardinalityType
<1>5. QED
  BY <1>1, <1>2, <1>3, <1>4

(* Leaving a group keeps the limit.                                        *)
LEMMA WithoutType ==
    ASSUME NEW m \in Memberships, NEW key
    PROVE  Without(m, key) \in Memberships
<1> DEFINE D == DOMAIN m \ {key}
<1>1. D \in SUBSET Key /\ Without(m, key) \in [D -> Filter]
  BY MembershipsElim DEF Without
<1>2. IsFiniteSet(D) /\ Cardinality(D) <= Cardinality(DOMAIN m)
  BY MembershipsElim, FS_Subset
<1>3. Cardinality(D) \in Nat
  BY <1>2, FS_CardinalityType
<1>4. Cardinality(D) <= MaxMemberships
  BY <1>2, <1>3, MembershipsElim, SocketsAssumption
<1>5. QED
  <2> HIDE DEF D
  <2>1. QED
    BY <1>1, <1>2, <1>4, MembershipsIntro

(* So does a new filter for a group the socket is in, ...                  *)
LEMMA ReplaceType ==
    ASSUME NEW m \in Memberships, NEW key \in DOMAIN m, NEW filter \in Filter
    PROVE  With(m, key, filter) \in Memberships
<1>1. DOMAIN m \cup {key} = DOMAIN m
  OBVIOUS
<1>2. With(m, key, filter) \in [DOMAIN m -> Filter]
  BY <1>1, MembershipsElim DEF With
<1>3. QED
  BY <1>2, MembershipsElim, MembershipsIntro

(* ... and joining a group, which the kernel refuses at the limit.         *)
LEMMA JoinType ==
    ASSUME NEW m \in Memberships, NEW key \in Key
    PROVE  join_group(m, key) \in Memberships
<1>1. CASE key \in DOMAIN m \/ Full(m)
  BY <1>1 DEF join_group
<1>2. CASE ~(key \in DOMAIN m \/ Full(m))
  <2> DEFINE D == DOMAIN m \cup {key}
  <2>1. Everything \in Filter
    BY DEF Filter, Everything, Modes
  <2>2. D \in SUBSET Key /\ With(m, key, Everything) \in [D -> Filter]
    BY <2>1, MembershipsElim DEF With
  <2>3. IsFiniteSet(D) /\ Cardinality(D) = Cardinality(DOMAIN m) + 1
    BY <1>2, MembershipsElim, FS_AddElement
  <2>4. Cardinality(D) <= MaxMemberships
    BY <1>2, <2>3, MembershipsElim, SocketsAssumption DEF Full
  <2>5. join_group(m, key) = With(m, key, Everything)
    BY <1>2 DEF join_group, Everything
  <2>6. QED
    <3> HIDE DEF D
    <3>1. QED
      BY <2>2, <2>3, <2>4, <2>5, MembershipsIntro
<1>3. QED
  BY <1>1, <1>2

(* set_source_filter only touches groups the socket is in.                 *)
LEMMA SetSourceFilterType ==
    ASSUME NEW m \in Memberships, NEW key, NEW filter \in Filter
    PROVE  set_source_filter(m, key, filter) \in Memberships
BY WithoutType, ReplaceType DEF set_source_filter, filter_accepted

(* A record leaves memberships within the limit.                           *)
LEMMA SendRecordType ==
    ASSUME NEW m \in Memberships, NEW key \in Key, NEW filter \in Filter
    PROVE  send_record(m, key, filter) \in Results
<1>1. leave_group(m, key) \in Memberships
  BY WithoutType DEF leave_group
<1>2. join_group(m, key) \in Memberships
  BY JoinType
<1>3. set_source_filter(join_group(m, key), key, filter) \in Memberships
  BY <1>2, SetSourceFilterType
<1>4. filter_accepted(join_group(m, key), key, filter) \in BOOLEAN
  BY DEF filter_accepted
<1>5. QED
  BY <1>1, <1>2, <1>3, <1>4
     DEF send_record, igmp_sender_send_record, mld_sender_send_record, Result, Results

(* A record leaves every other membership alone.                           *)
LEMMA SendRecordOthers ==
    ASSUME NEW m, NEW key, NEW filter, NEW k, k # key
    PROVE  SameAt(send_record(m, key, filter).member, m, k)
<1>1. SameAt(Without(m, key), m, k) /\ \A f : SameAt(With(m, key, f), m, k)
  BY DEF SameAt, Without, With
<1>2. SameAt(m, m, k)
  BY DEF SameAt
<1>3. SameAt(join_group(m, key), m, k)
  BY <1>1, <1>2 DEF join_group
<1>4. \A n : SameAt(n, m, k) => SameAt(set_source_filter(n, key, filter), m, k)
  <2> TAKE n
  <2> HAVE SameAt(n, m, k)
  <2>1. SameAt(Without(n, key), n, k) /\ SameAt(With(n, key, filter), n, k)
    BY DEF SameAt, Without, With
  <2>2. SameAt(Without(n, key), m, k) /\ SameAt(With(n, key, filter), m, k)
    BY <2>1 DEF SameAt
  <2>3. QED
    BY <2>2 DEF set_source_filter
<1>5. QED
  BY <1>1, <1>2, <1>3, <1>4
     DEF send_record, igmp_sender_send_record, mld_sender_send_record, Result, leave_group

(* A record that is reported as sent is in force.                          *)
LEMMA SendRecordInForce ==
    ASSUME NEW m, NEW key, NEW filter \in Filter, send_record(m, key, filter).ok
    PROVE  InForce(send_record(m, key, filter).member, key, filter)
<1>1. CASE filter = Nothing
  BY <1>1 DEF send_record, igmp_sender_send_record, mld_sender_send_record, Result,
              leave_group, Without, InForce, Nothing
<1>2. CASE filter # Nothing
  <2>1. ~(filter.mode = "INCLUDE_MODE" /\ filter.srcs = {})
    BY <1>2 DEF Filter, Nothing
  <2>2. /\ send_record(m, key, filter).ok = filter_accepted(join_group(m, key), key, filter)
        /\ send_record(m, key, filter).member
              = set_source_filter(join_group(m, key), key, filter)
    BY <2>1 DEF send_record, igmp_sender_send_record, mld_sender_send_record, Result
  <2>3. set_source_filter(join_group(m, key), key, filter)
          = With(join_group(m, key), key, filter)
    BY <1>2, <2>2 DEF set_source_filter, Nothing
  <2>4. QED
    BY <1>2, <2>2, <2>3 DEF InForce, With
<1>3. QED
  BY <1>1, <1>2

(* A record that asks for nothing is always sent, and ...                  *)
LEMMA NothingIsSent ==
    ASSUME NEW m, NEW key
    PROVE  send_record(m, key, Nothing).ok
BY DEF send_record, igmp_sender_send_record, mld_sender_send_record, Result, Nothing

(* ... an IGMP instance fails to send a record only at a limit.            *)
LEMMA IgmpRefusesAtLimits ==
    ASSUME NEW m, NEW key, NEW filter \in Filter, protocol = "IGMPv3",
           ~send_record(m, key, filter).ok
    PROVE  Full(m) \/ Cardinality(filter.srcs) > MaxSources
<1>1. Cardinality(filter.srcs) \in Nat
  <2>1. filter.srcs \subseteq Sources
    BY DEF Filter
  <2>2. QED
    BY <2>1, SocketsAssumption, FS_Subset, FS_CardinalityType
<1>2. ~filter_accepted(join_group(m, key), key, filter)
  BY DEF send_record, igmp_sender_send_record, Result
<1>3. ~Full(m) => key \in DOMAIN join_group(m, key)
  BY DEF join_group, With
<1>4. QED
  BY <1>1, <1>2, <1>3, SocketsAssumption DEF filter_accepted

(***************************************************************************)
(* The loop of a querier over the router groups                            *)
(***************************************************************************)
(* One pass of the loop: nothing more is sent after a failure.             *)
Pass(i, filter, n, r) ==
    IF ~r.ok THEN r ELSE send_record(r.member, <<i, RouterGroups[n]>>, filter)

(* The loop goes through the router groups in turn.                        *)
LEMMA RouterGroupsLoop ==
    ASSUME NEW i \in Ifs, NEW filter \in Filter, member \in Memberships
    PROVE  \E after \in [0 .. Len(RouterGroups) -> Results] :
              /\ after[0] = Result(member, TRUE)
              /\ \A n \in 1 .. Len(RouterGroups) :
                    after[n] = Pass(i, filter, n, after[n - 1])
              /\ router_groups_function(i, filter) = after[Len(RouterGroups)]
<1> DEFINE N == Len(RouterGroups)
           a == Result(member, TRUE)
           Body(f) == [n \in 0 .. N |->
                         IF n = 0 THEN Result(member, TRUE)
                         ELSE IF ~f[n - 1].ok THEN f[n - 1]
                         ELSE send_record(f[n - 1].member, <<i, RouterGroups[n]>>, filter)]
           G == [p \in (1 .. N) \X Results |-> Pass(i, filter, p[1], p[2])]
           after == CHOOSE f : f = Body(f)
<1>1. N \in Nat /\ DOMAIN RouterGroups = 1 .. N
  BY SocketsAssumption, LenProperties
<1>2. \A n \in 1 .. N, r \in Results : Pass(i, filter, n, r) \in Results
  <2> TAKE n \in 1 .. N, r \in Results
  <2>1. r.member \in Memberships /\ <<i, RouterGroups[n]>> \in Key
    BY <1>1 DEF Results, Key, RouterGroup
  <2>2. QED
    BY <2>1, SendRecordType DEF Pass
<1>3. a \in Results
  BY DEF Result, Results
<1>4. G \in [(1 .. N) \X Results -> Results]
  BY <1>2
<1>5. PICK f \in [0 .. N -> Results] :
        f[0] = a /\ \A n \in 1 .. N : f[n] = G[<<n, f[n - 1]>>]
  <2> HIDE DEF G, a, N
  <2>1. \E f \in [0 .. N -> Results] : DefinedBy(f, a, G, N)
    BY <1>1, <1>3, <1>4, TypedRecursion
  <2>2. QED
    BY <2>1 DEF DefinedBy
<1>6. \A n \in 1 .. N : f[n] = Pass(i, filter, n, f[n - 1])
  <2> TAKE n \in 1 .. N
  <2>1. n - 1 \in 0 .. N
    BY <1>1
  <2>2. f[n - 1] \in Results
    BY <2>1
  <2>3. QED
    BY <1>5, <2>2
<1>7. f = Body(f)
  <2>1. \A n \in 0 .. N : n # 0 => n \in 1 .. N
    BY <1>1
  <2>2. \A n \in 0 .. N : Body(f)[n] = IF n = 0 THEN a ELSE Pass(i, filter, n, f[n - 1])
    BY DEF Pass
  <2>3. \A n \in 0 .. N : f[n] = Body(f)[n]
    BY <1>5, <1>6, <2>1, <2>2
  <2>4. QED
    BY <2>3
<1>8. after = Body(after)
  <2> HIDE DEF Body
  <2>1. QED
    BY <1>7
<1>9. after[0] = a /\ \A n \in 1 .. N : after[n] = Pass(i, filter, n, after[n - 1])
  <2> HIDE DEF after
  <2>1. QED
    BY <1>1, <1>8 DEF Pass
<1>10. \A n \in 0 .. N - 1 : after[n] \in Results => after[n + 1] \in Results
  <2> TAKE n \in 0 .. N - 1
  <2>1. n + 1 \in 1 .. N /\ (n + 1) - 1 = n
    BY <1>1
  <2> HIDE DEF after
  <2>2. QED
    BY <1>2, <1>9, <2>1
<1>11. \A n \in 0 .. N : after[n] \in Results
  <2> HIDE DEF after, a, N
  <2>1. QED
    BY <1>1, <1>3, <1>9, <1>10, RecursionType
<1>12. after \in [0 .. N -> Results]
  <2> HIDE DEF after
  <2>1. QED
    BY <1>8, <1>11
<1>13. router_groups_function(i, filter) = after[N]
  BY DEF router_groups_function
<1>14. QED
  <2> HIDE DEF after
  <2>1. QED
    BY <1>9, <1>12, <1>13

(* It changes no other membership; when it succeeds its record is in force
   for every router group.                                                 *)
LEMMA RouterGroupsEffect ==
    ASSUME NEW i \in Ifs, NEW filter \in Filter, member \in Memberships,
           NEW r, r = router_groups_function(i, filter)
    PROVE  /\ r \in Results
           /\ \A k : k \notin {<<i, g>> : g \in RouterGroup} => SameAt(r.member, member, k)
           /\ r.ok => \A n \in DOMAIN RouterGroups :
                          InForce(r.member, <<i, RouterGroups[n]>>, filter)
           /\ filter = Nothing => r.ok
<1> DEFINE N == Len(RouterGroups)
<1>0. N \in Nat /\ DOMAIN RouterGroups = 1 .. N
  BY SocketsAssumption, LenProperties
<1>1. PICK after \in [0 .. N -> Results] :
        /\ after[0] = Result(member, TRUE)
        /\ \A n \in 1 .. N : after[n] = Pass(i, filter, n, after[n - 1])
        /\ r = after[N]
  BY RouterGroupsLoop
<1> DEFINE Good(n) == /\ \A k : k \notin {<<i, g>> : g \in RouterGroup} =>
                                 SameAt(after[n].member, member, k)
                      /\ after[n].ok => \A l \in 1 .. n :
                            InForce(after[n].member, <<i, RouterGroups[l]>>, filter)
                      /\ filter = Nothing => after[n].ok
           P == {n \in 0 .. N : Good(n)}
<1>2. 0 \in P
  <2>1. after[0].member = member /\ after[0].ok = TRUE
    BY <1>1 DEF Result
  <2>2. QED
    BY <1>0, <2>1 DEF SameAt
<1>3. ASSUME NEW n \in 0 .. N - 1, n \in P PROVE n + 1 \in P
  <2> DEFINE key == <<i, RouterGroups[n + 1]>>
             old == after[n]
             new == after[n + 1]
  <2>1. n + 1 \in 1 .. N /\ n + 1 \in 0 .. N /\ (n + 1) - 1 = n /\ n \in 0 .. N /\ n \in Nat
    BY <1>0
  <2>2. new = Pass(i, filter, n + 1, old)
    BY <1>1, <2>1
  <2>3. Good(n)
    BY <1>3
  <2>4. RouterGroups[n + 1] \in RouterGroup
    BY <1>0, <2>1 DEF RouterGroup
  <2>5. CASE ~old.ok
    <3>1. new = old
      BY <2>2, <2>5 DEF Pass
    <3>2. Good(n + 1)
      BY <2>3, <2>5, <3>1
    <3>3. QED
      BY <3>2, <2>1
  <2>6. CASE old.ok
    <3>1. new = send_record(old.member, key, filter)
      BY <2>2, <2>6 DEF Pass
    <3>2. \A k : k # key => SameAt(new.member, old.member, k)
      BY <3>1, SendRecordOthers
    <3>3. \A k : k \notin {<<i, g>> : g \in RouterGroup} => SameAt(new.member, member, k)
      BY <2>3, <2>4, <3>2 DEF SameAt
    <3>4. new.ok => InForce(new.member, key, filter)
      BY <3>1, SendRecordInForce
    <3>5. new.ok => \A l \in 1 .. n + 1 : InForce(new.member, <<i, RouterGroups[l]>>, filter)
      <4> SUFFICES ASSUME new.ok, NEW l \in 1 .. n + 1
                   PROVE  InForce(new.member, <<i, RouterGroups[l]>>, filter)
        OBVIOUS
      <4>1. CASE <<i, RouterGroups[l]>> = key
        BY <3>4, <4>1
      <4>2. CASE <<i, RouterGroups[l]>> # key
        <5>1. l \in 1 .. n
          BY <4>2, <2>1
        <5>2. InForce(old.member, <<i, RouterGroups[l]>>, filter)
          BY <5>1, <2>3, <2>6
        <5>3. SameAt(new.member, old.member, <<i, RouterGroups[l]>>)
          BY <3>2, <4>2
        <5>4. QED
          BY <5>2, <5>3 DEF SameAt, InForce
      <4>3. QED
        BY <4>1, <4>2
    <3>6. filter = Nothing => new.ok
      BY <3>1, NothingIsSent
    <3>7. Good(n + 1)
      BY <3>3, <3>5, <3>6
    <3>8. QED
      BY <3>7, <2>1
  <2>7. QED
    BY <2>5, <2>6
<1>4. \A n \in 0 .. N : n \in P
  <2> HIDE DEF P, N
  <2>1. QED
    BY <1>0, <1>2, <1>3, IntervalInduction
<1>5. Good(N)
  BY <1>0, <1>4
<1>6. r \in Results
  BY <1>0, <1>1
<1>7. QED
  BY <1>0, <1>1, <1>5, <1>6

(***************************************************************************)
(* What a host writes and what the receiver reads                          *)
(***************************************************************************)
(* Two sequences one after the other.                                      *)
LEMMA Concatenation ==
    ASSUME NEW s \in Seq(Nat), NEW t \in Seq(Nat)
    PROVE  /\ s \o t \in Seq(Nat) /\ Len(s) \in Nat /\ Len(t) \in Nat
           /\ Len(s \o t) = Len(s) + Len(t)
           /\ \A j \in 1 .. Len(s) : (s \o t)[j] = s[j]
           /\ \A j \in 1 .. Len(t) : (s \o t)[Len(s) + j] = t[j]
OBVIOUS

(* The words of one record: a header of four, its sources, auxiliary data. *)
LEMMA WrittenWords ==
    ASSUME NEW r \in Record
    PROVE  /\ Written(r) \in Seq(Nat)
           /\ Len(r.srcs) \in Nat /\ r.aux \in Nat
           /\ Len(Written(r)) = 4 + Len(r.srcs) + r.aux
           /\ Written(r)[1] = r.type /\ Written(r)[2] = r.aux
           /\ Written(r)[3] = Len(r.srcs) /\ Written(r)[4] = r.gaddr
           /\ \A j \in 1 .. Len(r.srcs) : Written(r)[4 + j] = r.srcs[j]
<1> DEFINE h == <<r.type, r.aux, Len(r.srcs), r.gaddr>>
           x == [n \in 1 .. r.aux |-> 1]
<1>1. /\ r.type \in Nat /\ r.aux \in Nat /\ r.gaddr \in Nat
      /\ r.srcs \in Seq(Sources) /\ Len(r.srcs) \in Nat
  <2>1. r.type \in 1 .. 6 /\ r.aux \in Nat /\ r.gaddr \in Groups /\ r.srcs \in Seq(Sources)
    BY DEF Record
  <2>2. Len(r.srcs) \in Nat
    BY <2>1, LenProperties
  <2>3. Groups \subseteq Nat
    BY SocketsAssumption
  <2>4. r.gaddr \in Nat
    <3>1. r.gaddr \in Groups
      BY <2>1
    <3>2. QED
      BY <2>3, <3>1
  <2>5. r.type \in Nat
    <3>1. r.type \in 1 .. 6
      BY <2>1
    <3>2. QED
      BY <3>1
  <2>6. QED
    BY <2>1, <2>2, <2>4, <2>5
<1>2. r.srcs \in Seq(Nat)
  BY <1>1, SocketsAssumption, SeqMonotonic, ElementOfSeq
<1>3. h \in Seq(Nat) /\ Len(h) = 4
  BY <1>1
<1>4. x \in Seq(Nat) /\ Len(x) = r.aux
  <2>1. x \in [1 .. r.aux -> Nat]
    OBVIOUS
  <2> HIDE DEF x
  <2>2. QED
    BY <1>1, <2>1
<1>5. h[1] = r.type /\ h[2] = r.aux /\ h[3] = Len(r.srcs) /\ h[4] = r.gaddr
  OBVIOUS
<1> DEFINE hs == h \o r.srcs
<1>6. Written(r) = hs \o x
  BY DEF Written
<1>7. /\ hs \in Seq(Nat) /\ Len(hs) = Len(h) + Len(r.srcs)
      /\ \A j \in 1 .. Len(h) : hs[j] = h[j]
      /\ \A j \in 1 .. Len(r.srcs) : hs[Len(h) + j] = r.srcs[j]
  <2> HIDE DEF h, x
  <2>1. QED
    BY <1>2, <1>3, Concatenation
<1> HIDE DEF h, x, hs
<1>8. /\ hs \o x \in Seq(Nat) /\ Len(hs \o x) = Len(hs) + Len(x)
      /\ \A j \in 1 .. Len(hs) : (hs \o x)[j] = hs[j]
  BY <1>4, <1>7, Concatenation
<1>9. \A j \in 1 .. 4 : Written(r)[j] = h[j]
  <2> TAKE j \in 1 .. 4
  <2>1. j \in 1 .. Len(h)
    BY <1>3
  <2>2. j \in 1 .. Len(hs)
    <3>1. Len(hs) = 4 + Len(r.srcs) /\ Len(r.srcs) \in Nat
      BY <1>1, <1>3, <1>7
    <3>2. QED
      BY <3>1
  <2>3. QED
    BY <1>6, <1>7, <1>8, <2>1, <2>2
<1>10. \A j \in 1 .. Len(r.srcs) : Written(r)[4 + j] = r.srcs[j]
  <2> TAKE j \in 1 .. Len(r.srcs)
  <2>1. Len(h) + j \in 1 .. Len(hs)
    BY <1>1, <1>3, <1>7
  <2>2. (hs \o x)[Len(h) + j] = r.srcs[j]
    BY <1>7, <1>8, <2>1
  <2>3. QED
    BY <1>3, <1>6, <2>2
<1>11. QED
  <2>1. Len(Written(r)) = 4 + Len(r.srcs) + r.aux
    BY <1>3, <1>4, <1>6, <1>7, <1>8
  <2>2. Written(r) \in Seq(Nat)
    BY <1>6, <1>8
  <2>3. QED
    BY <1>1, <1>5, <1>9, <1>10, <2>1, <2>2

(* The records of a report follow each other in the packet.                *)
LEMMA PacketLoop ==
    ASSUME NEW report \in Seq(Record)
    PROVE  \E upto \in [0 .. Len(report) -> Seq(Nat)] :
              /\ upto[0] = <<>>
              /\ \A n \in 1 .. Len(report) : upto[n] = upto[n - 1] \o Written(report[n])
              /\ Packet(report) = upto[Len(report)]
<1> DEFINE N == Len(report)
           Body(f) == [n \in 0 .. N |->
                         IF n = 0 THEN <<>> ELSE f[n - 1] \o Written(report[n])]
           G == [p \in (1 .. N) \X Seq(Nat) |-> p[2] \o Written(report[p[1]])]
           upto == CHOOSE f : f = Body(f)
<1>1. N \in Nat /\ \A n \in 1 .. N : report[n] \in Record
  BY LenProperties, ElementOfSeq
<1>2. \A n \in 1 .. N, w \in Seq(Nat) : w \o Written(report[n]) \in Seq(Nat)
  BY <1>1, WrittenWords, ConcatProperties
<1>3. <<>> \in Seq(Nat)
  OBVIOUS
<1>4. G \in [(1 .. N) \X Seq(Nat) -> Seq(Nat)]
  BY <1>2
<1>5. PICK f \in [0 .. N -> Seq(Nat)] :
        f[0] = <<>> /\ \A n \in 1 .. N : f[n] = G[<<n, f[n - 1]>>]
  <2> DEFINE a == <<>>
             T == Seq(Nat)
  <2>1. a \in T /\ G \in [(1 .. N) \X T -> T]
    BY <1>3, <1>4
  <2>2. \E g \in [0 .. N -> T] : DefinedBy(g, a, G, N)
    <3> HIDE DEF G, a, T, N
    <3>1. QED
      BY <1>1, <2>1, TypedRecursion
  <2>3. QED
    <3> HIDE DEF G
    <3>1. QED
      BY <2>2 DEF DefinedBy
<1>6. \A n \in 1 .. N : f[n] = f[n - 1] \o Written(report[n])
  <2> TAKE n \in 1 .. N
  <2>1. n - 1 \in 0 .. N
    BY <1>1
  <2>2. f[n - 1] \in Seq(Nat)
    BY <2>1
  <2>3. QED
    BY <1>5, <2>2
<1>7. f = Body(f)
  <2>1. \A n \in 0 .. N : n # 0 => n \in 1 .. N
    BY <1>1
  <2>2. \A n \in 0 .. N : f[n] = Body(f)[n]
    BY <1>5, <1>6, <2>1
  <2>3. QED
    BY <2>2
<1>8. upto = Body(upto)
  <2> HIDE DEF Body
  <2>1. QED
    BY <1>7
<1>9. upto[0] = <<>> /\ \A n \in 1 .. N : upto[n] = upto[n - 1] \o Written(report[n])
  <2> HIDE DEF upto
  <2>1. 0 \in 0 .. N /\ \A n \in 1 .. N : n \in 0 .. N /\ n # 0
    BY <1>1
  <2>2. \A n \in 0 .. N : Body(upto)[n]
            = IF n = 0 THEN <<>> ELSE upto[n - 1] \o Written(report[n])
    OBVIOUS
  <2>3. upto[0] = <<>>
    BY <1>8, <2>1, <2>2
  <2>4. \A n \in 1 .. N : upto[n] = Body(upto)[n]
    <3> HIDE DEF Body
    <3>1. QED
      BY <1>8
  <2>5. QED
    <3> HIDE DEF Body
    <3>1. QED
      BY <2>1, <2>2, <2>3, <2>4
<1>10. \A n \in 0 .. N - 1 : upto[n] \in Seq(Nat) => upto[n + 1] \in Seq(Nat)
  <2> TAKE n \in 0 .. N - 1
  <2>1. n + 1 \in 1 .. N /\ (n + 1) - 1 = n
    BY <1>1
  <2> HIDE DEF upto
  <2>2. QED
    BY <1>2, <1>9, <2>1
<1>11. \A n \in 0 .. N : upto[n] \in Seq(Nat)
  <2> HIDE DEF upto, N
  <2>1. QED
    BY <1>1, <1>3, <1>9, <1>10, RecursionType
<1>12. upto \in [0 .. N -> Seq(Nat)]
  <2> HIDE DEF upto
  <2>1. QED
    BY <1>8, <1>11
<1>13. Packet(report) = upto[N]
  BY DEF Packet
<1>14. QED
  <2> HIDE DEF upto
  <2>1. QED
    BY <1>9, <1>12, <1>13

(* A message of analyse_records, made of the record that starts at word w. *)
ReadAt(p, w, i) ==
    [if_index |-> i, type |-> Word(p, w), gaddr |-> Word(p, w + 3),
     slist |-> {Word(p, w + 3 + j) : j \in 1 .. Word(p, w + 2)}]

(* Where the next record starts.                                           *)
After(p, w) == w + 4 + Word(p, w + 2) + Word(p, w + 1)

(* The receiver goes through the packet by the lengths it finds in it.     *)
LEMMA AnalyseLoop ==
    ASSUME NEW p \in Seq(Nat), NEW number \in Nat, NEW i
    PROVE  \E rec \in [1 .. number + 1 -> Nat] :
              /\ rec[1] = 1
              /\ \A n \in 1 .. number : rec[n + 1] = After(p, rec[n])
              /\ analyse_records(p, number, i) = [n \in 1 .. number |-> ReadAt(p, rec[n], i)]
<1> DEFINE Body(f) == [n \in 1 .. number + 1 |->
                         IF n = 1 THEN 1
                         ELSE f[n - 1] + 4 + Word(p, f[n - 1] + 2) + Word(p, f[n - 1] + 1)]
           G == [q \in (1 .. number) \X Nat |-> After(p, q[2])]
           rec == CHOOSE f : f = Body(f)
<1>1. \A n \in Nat : Word(p, n) \in Nat
  BY ElementOfSeq, LenProperties DEF Word
<1>2. \A w \in Nat : After(p, w) \in Nat
  BY <1>1 DEF After
<1>3. G \in [(1 .. number) \X Nat -> Nat]
  BY <1>2
<1>4. PICK g \in [0 .. number -> Nat] :
        g[0] = 1 /\ \A n \in 1 .. number : g[n] = G[<<n, g[n - 1]>>]
  <2> DEFINE a == 1
             T == Nat
  <2>1. a \in T /\ G \in [(1 .. number) \X T -> T]
    BY <1>3
  <2>2. \E g \in [0 .. number -> T] : DefinedBy(g, a, G, number)
    <3> HIDE DEF G, a, T
    <3>1. QED
      BY <2>1, TypedRecursion
  <2>3. QED
    <3> HIDE DEF G
    <3>1. QED
      BY <2>2 DEF DefinedBy
<1> DEFINE f == [n \in 1 .. number + 1 |-> g[n - 1]]
<1>5. f = Body(f)
  <2>1. \A n \in 1 .. number + 1 : f[n] = Body(f)[n]
    <3> TAKE n \in 1 .. number + 1
    <3>1. CASE n = 1
      BY <1>4, <3>1
    <3>2. CASE n # 1
      <4>1. /\ n - 1 \in 1 .. number /\ (n - 1) - 1 \in 0 .. number
            /\ n - 1 \in 1 .. number + 1
        BY <3>2
      <4>2. f[n] = g[n - 1] /\ f[n - 1] = g[(n - 1) - 1]
        BY <4>1
      <4>3. g[n - 1] = After(p, g[(n - 1) - 1])
        BY <1>4, <4>1
      <4>4. Body(f)[n] = After(p, f[n - 1])
        BY <3>2 DEF After
      <4>5. QED
        BY <4>2, <4>3, <4>4
    <3>3. QED
      BY <3>1, <3>2
  <2>2. f = [n \in 1 .. number + 1 |-> f[n]] /\ Body(f) = [n \in 1 .. number + 1 |-> Body(f)[n]]
    OBVIOUS
  <2> HIDE DEF f, Body
  <2>3. QED
    BY <2>1, <2>2
<1>6. rec = Body(rec)
  <2> HIDE DEF Body, f
  <2>1. QED
    BY <1>5
<1>7. rec[1] = 1 /\ \A n \in 1 .. number : rec[n + 1] = After(p, rec[n])
  <2> HIDE DEF rec
  <2>1. \A n \in 1 .. number : n + 1 \in 1 .. number + 1 /\ n + 1 # 1 /\ (n + 1) - 1 = n
    OBVIOUS
  <2>2. QED
    BY <1>6, <2>1 DEF After
<1>8. \A n \in 1 .. number + 1 : rec[n] \in Nat
  <2> HIDE DEF rec
  <2> DEFINE e == [k \in 0 .. number |-> rec[k + 1]]
  <2>1. e[0] \in Nat
    BY <1>7
  <2>2. \A k \in 0 .. number - 1 : e[k] \in Nat => e[k + 1] \in Nat
    <3> TAKE k \in 0 .. number - 1
    <3>1. k + 1 \in 1 .. number /\ k \in 0 .. number /\ k + 1 \in 0 .. number
      OBVIOUS
    <3>2. e[k] = rec[k + 1] /\ e[k + 1] = rec[(k + 1) + 1]
      BY <3>1
    <3>3. rec[(k + 1) + 1] = After(p, rec[k + 1])
      BY <1>7, <3>1
    <3>4. QED
      BY <1>2, <3>2, <3>3
  <2>3. \A k \in 0 .. number : e[k] \in Nat
    <3> HIDE DEF e
    <3>1. QED
      BY <2>1, <2>2, RecursionType
  <2>4. QED
    <3> TAKE n \in 1 .. number + 1
    <3>1. n - 1 \in 0 .. number /\ (n - 1) + 1 = n
      OBVIOUS
    <3>2. QED
      BY <2>3, <3>1
<1>9. rec \in [1 .. number + 1 -> Nat]
  <2> HIDE DEF rec
  <2>1. QED
    BY <1>6, <1>8
<1>10. analyse_records(p, number, i) = [n \in 1 .. number |-> ReadAt(p, rec[n], i)]
  BY DEF analyse_records, ReadAt
<1>11. QED
  <2> HIDE DEF rec
  <2>1. QED
    BY <1>7, <1>9, <1>10

(* Each record stands in the packet where those before it end.             *)
LEMMA PacketWords ==
    ASSUME NEW report \in Seq(Record), NEW upto \in [0 .. Len(report) -> Seq(Nat)],
           \A n \in 1 .. Len(report) : upto[n] = upto[n - 1] \o Written(report[n]),
           NEW n \in 1 .. Len(report)
    PROVE  /\ Len(upto[n - 1]) \in Nat
           /\ Len(upto[n]) = Len(upto[n - 1]) + Len(Written(report[n]))
           /\ \A j \in 1 .. Len(Written(report[n])) :
                 Word(upto[Len(report)], Len(upto[n - 1]) + j) = Written(report[n])[j]
<1> DEFINE N == Len(report)
           old == upto[n - 1]
           w == Written(report[n])
<1>1. N \in Nat /\ report[n] \in Record
  BY LenProperties, ElementOfSeq
<1>2. n - 1 \in 0 .. N /\ n \in 0 .. N
  BY <1>1
<1>3. old \in Seq(Nat) /\ upto[n] \in Seq(Nat) /\ w \in Seq(Nat)
  BY <1>1, <1>2, WrittenWords
<1>4. upto[n] = old \o w
  OBVIOUS
<1>5. /\ Len(old) \in Nat /\ Len(w) \in Nat /\ Len(upto[n]) = Len(old) + Len(w)
      /\ \A j \in 1 .. Len(w) : upto[n][Len(old) + j] = w[j]
  <2> HIDE DEF old, w
  <2>1. QED
    BY <1>3, <1>4, Concatenation
<1> DEFINE Kept(m) == /\ Len(upto[n]) <= Len(upto[m])
                      /\ \A j \in 1 .. Len(upto[n]) : upto[m][j] = upto[n][j]
           P == {m \in 0 .. N : m >= n => Kept(m)}
<1>6. 0 \in P
  BY <1>1
<1>7. ASSUME NEW m \in 0 .. N - 1, m \in P PROVE m + 1 \in P
  <2>1. m + 1 \in 1 .. N /\ m + 1 \in 0 .. N /\ (m + 1) - 1 = m /\ m \in 0 .. N
    BY <1>1
  <2>2. CASE m + 1 < n
    BY <2>1, <2>2
  <2>3. CASE m + 1 = n
    <3>1. Len(upto[n]) \in Nat
      BY <1>3, LenProperties
    <3>2. Len(upto[n]) <= Len(upto[n])
      BY <3>1
    <3>3. Kept(n)
      BY <3>2
    <3>4. QED
      BY <2>1, <2>3, <3>3
  <2>4. CASE m >= n
    <3> DEFINE x == Written(report[m + 1])
    <3>1. Kept(m)
      BY <1>7, <2>4
    <3>2. upto[m + 1] = upto[m] \o x
      BY <2>1
    <3>3. upto[m] \in Seq(Nat) /\ x \in Seq(Nat)
      <4>1. report[m + 1] \in Record
        BY <2>1, ElementOfSeq
      <4>2. QED
        BY <2>1, <4>1, WrittenWords
    <3>4. /\ Len(upto[m]) \in Nat /\ Len(x) \in Nat
          /\ Len(upto[m + 1]) = Len(upto[m]) + Len(x)
          /\ \A j \in 1 .. Len(upto[m]) : upto[m + 1][j] = upto[m][j]
      <4> HIDE DEF x
      <4>1. QED
        BY <3>2, <3>3, Concatenation
    <3>5. Len(upto[n]) \in Nat
      BY <1>3, LenProperties
    <3>6. Kept(m + 1)
      <4>1. Len(upto[n]) <= Len(upto[m + 1])
        <5> DEFINE a == Len(upto[n])
                   b == Len(upto[m])
                   c == Len(upto[m + 1])
                   d == Len(x)
        <5>1. a \in Nat /\ b \in Nat /\ d \in Nat /\ c = b + d /\ a <= b
          BY <3>1, <3>4, <3>5
        <5> HIDE DEF a, b, c, d
        <5>2. a <= c
          BY <5>1
        <5>3. QED
          BY <5>2 DEF a, c
      <4>2. ASSUME NEW j \in 1 .. Len(upto[n]) PROVE upto[m + 1][j] = upto[n][j]
        <5>1. j \in 1 .. Len(upto[m])
          BY <3>1, <3>4, <3>5
        <5>2. QED
          BY <3>1, <3>4, <5>1
      <4>3. QED
        BY <4>1, <4>2
    <3>7. QED
      <4> HIDE DEF Kept
      <4>1. QED
        BY <2>1, <3>6
  <2>5. QED
    BY <1>1, <2>1, <2>2, <2>3, <2>4
<1>8. \A m \in 0 .. N : m \in P
  <2> HIDE DEF P, N
  <2>1. QED
    BY <1>1, <1>6, <1>7, IntervalInduction
<1>9. Kept(N)
  <2>1. N \in 0 .. N /\ N >= n
    BY <1>1
  <2> HIDE DEF Kept
  <2>2. QED
    BY <1>8, <2>1
<1>10. upto[N] \in Seq(Nat) /\ DOMAIN upto[N] = 1 .. Len(upto[N]) /\ Len(upto[N]) \in Nat
  <2>1. upto[N] \in Seq(Nat)
    BY <1>1
  <2>2. QED
    BY <2>1, LenProperties
<1>11. ASSUME NEW j \in 1 .. Len(w) PROVE Word(upto[N], Len(old) + j) = w[j]
  <2> HIDE DEF old, w, N
  <2>1. Len(old) + j \in 1 .. Len(upto[n])
    BY <1>5
  <2>2. Len(old) + j \in DOMAIN upto[N]
    BY <1>5, <1>9, <1>10, <2>1
  <2>3. QED
    BY <1>5, <1>9, <2>1, <2>2 DEF Word
<1>12. QED
  BY <1>5, <1>11

(* The receiver finds every record of a report, whatever their lengths, and
   makes of it what the host wrote.                                        *)
LEMMA RecordsReadBack ==
    ASSUME NEW report \in Seq(Record), NEW i
    PROVE  analyse_records(Packet(report), Len(report), i)
             = [n \in DOMAIN report |->
                  [if_index |-> i, type |-> report[n].type, gaddr |-> report[n].gaddr,
                   slist |-> {report[n].srcs[j] : j \in DOMAIN report[n].srcs}]]
<1> DEFINE N == Len(report)
           p == Packet(report)
<1>1. N \in Nat /\ DOMAIN report = 1 .. N /\ \A n \in 1 .. N : report[n] \in Record
  BY LenProperties, ElementOfSeq
<1>2. PICK upto \in [0 .. N -> Seq(Nat)] :
        /\ upto[0] = <<>>
        /\ \A n \in 1 .. N : upto[n] = upto[n - 1] \o Written(report[n])
        /\ p = upto[N]
  BY PacketLoop
<1>3. p \in Seq(Nat)
  BY <1>1, <1>2
<1>4. PICK rec \in [1 .. N + 1 -> Nat] :
        /\ rec[1] = 1
        /\ \A n \in 1 .. N : rec[n + 1] = After(p, rec[n])
        /\ analyse_records(p, N, i) = [n \in 1 .. N |-> ReadAt(p, rec[n], i)]
  <2> HIDE DEF N, p
  <2>1. QED
    BY <1>1, <1>3, AnalyseLoop
<1>5. \A n \in 1 .. N :
        /\ Len(upto[n - 1]) \in Nat
        /\ Len(upto[n]) = Len(upto[n - 1]) + Len(Written(report[n]))
        /\ \A j \in 1 .. Len(Written(report[n])) :
              Word(p, Len(upto[n - 1]) + j) = Written(report[n])[j]
  BY <1>2, PacketWords
<1>6. ASSUME NEW n \in 1 .. N, NEW w, w = Len(upto[n - 1]) + 1
      PROVE  /\ w \in Nat /\ Word(p, w) = report[n].type /\ Word(p, w + 1) = report[n].aux
             /\ Word(p, w + 2) = Len(report[n].srcs) /\ Word(p, w + 3) = report[n].gaddr
             /\ \A j \in 1 .. Len(report[n].srcs) : Word(p, w + 3 + j) = report[n].srcs[j]
             /\ After(p, w) = Len(upto[n]) + 1
  <2> DEFINE r == report[n]
             L == Len(upto[n - 1])
  <2>1. /\ Len(r.srcs) \in Nat /\ r.aux \in Nat
        /\ Len(Written(r)) = 4 + Len(r.srcs) + r.aux
        /\ Written(r)[1] = r.type /\ Written(r)[2] = r.aux
        /\ Written(r)[3] = Len(r.srcs) /\ Written(r)[4] = r.gaddr
        /\ \A j \in 1 .. Len(r.srcs) : Written(r)[4 + j] = r.srcs[j]
    BY <1>1, WrittenWords
  <2>2. /\ L \in Nat /\ Len(upto[n]) = L + Len(Written(r))
        /\ \A j \in 1 .. Len(Written(r)) : Word(p, L + j) = Written(r)[j]
    BY <1>5
  <2> HIDE DEF r, L, p
  <2>3. /\ w = L + 1 /\ w + 1 = L + 2 /\ w + 2 = L + 3 /\ w + 3 = L + 4
        /\ \A j \in 1 .. Len(r.srcs) : w + 3 + j = L + (4 + j)
    <3>1. w = L + 1 /\ L \in Nat
      BY <1>6, <2>2 DEF L
    <3>2. QED
      BY <3>1
  <2>4. \A j \in 1 .. 4 : j \in 1 .. Len(Written(r))
    BY <2>1
  <2>5. \A j \in 1 .. Len(r.srcs) : 4 + j \in 1 .. Len(Written(r))
    BY <2>1
  <2>6. /\ Word(p, w) = r.type /\ Word(p, w + 1) = r.aux
        /\ Word(p, w + 2) = Len(r.srcs) /\ Word(p, w + 3) = r.gaddr
    <3>1. \A j \in 1 .. 4 : Word(p, L + j) = Written(r)[j]
      BY <2>2, <2>4
    <3>2. /\ Word(p, L + 1) = Written(r)[1] /\ Word(p, L + 2) = Written(r)[2]
          /\ Word(p, L + 3) = Written(r)[3] /\ Word(p, L + 4) = Written(r)[4]
      BY <3>1
    <3>3. QED
      BY <2>1, <2>3, <3>2
  <2>7. \A j \in 1 .. Len(r.srcs) : Word(p, w + 3 + j) = r.srcs[j]
    BY <2>1, <2>2, <2>3, <2>5
  <2>8. After(p, w) = Len(upto[n]) + 1
    <3> DEFINE c == Len(upto[n])
               d == Len(r.srcs)
               e == Len(Written(r))
               x == r.aux
    <3>1. After(p, w) = w + 4 + d + x
      BY <2>6 DEF After
    <3>2. w = L + 1 /\ c = L + e /\ e = 4 + d + x /\ L \in Nat /\ d \in Nat /\ x \in Nat
      BY <2>1, <2>2, <2>3
    <3> HIDE DEF c, d, e, x
    <3>3. After(p, w) = c + 1
      BY <3>1, <3>2
    <3>4. QED
      BY <3>3 DEF c
  <2>9. w \in Nat
    BY <2>2, <2>3
  <2>10. QED
    BY <2>6, <2>7, <2>8, <2>9 DEF r
<1> DEFINE P == {n \in 0 .. N : rec[n + 1] = Len(upto[n]) + 1}
<1>7. 0 \in P
  <2>1. Len(upto[0]) = 0
    BY <1>2
  <2>2. QED
    BY <1>1, <1>4, <2>1
<1>8. ASSUME NEW n \in 0 .. N - 1, n \in P PROVE n + 1 \in P
  <2>1. n + 1 \in 1 .. N /\ (n + 1) - 1 = n /\ n + 1 \in 0 .. N
    BY <1>1
  <2>2. rec[n + 1] = Len(upto[(n + 1) - 1]) + 1
    BY <1>8, <2>1
  <2>3. After(p, rec[n + 1]) = Len(upto[n + 1]) + 1
    BY <1>6, <2>1, <2>2
  <2>4. rec[(n + 1) + 1] = After(p, rec[n + 1])
    BY <1>4, <2>1
  <2>5. QED
    BY <2>1, <2>3, <2>4
<1>9. \A n \in 0 .. N : n \in P
  <2> HIDE DEF P, N
  <2>1. QED
    BY <1>1, <1>7, <1>8, IntervalInduction
<1>10. ASSUME NEW n \in 1 .. N
       PROVE  ReadAt(p, rec[n], i)
                = [if_index |-> i, type |-> report[n].type, gaddr |-> report[n].gaddr,
                   slist |-> {report[n].srcs[j] : j \in DOMAIN report[n].srcs}]
  <2> DEFINE w == rec[n]
             r == report[n]
  <2>1. n - 1 \in 0 .. N /\ (n - 1) + 1 = n
    BY <1>1
  <2>2. n - 1 \in P
    BY <1>9, <2>1
  <2>3. w = Len(upto[n - 1]) + 1
    BY <2>1, <2>2
  <2>4. DOMAIN r.srcs = 1 .. Len(r.srcs)
    <3>1. r.srcs \in Seq(Sources)
      BY <1>1 DEF Record
    <3>2. QED
      BY <3>1, LenProperties
  <2>5. /\ Word(p, w) = r.type /\ Word(p, w + 3) = r.gaddr /\ Word(p, w + 2) = Len(r.srcs)
        /\ \A j \in 1 .. Len(r.srcs) : Word(p, w + 3 + j) = r.srcs[j]
    BY <1>6, <2>3
  <2> HIDE DEF w, r, p
  <2>6. {Word(p, w + 3 + j) : j \in 1 .. Word(p, w + 2)} = {r.srcs[j] : j \in DOMAIN r.srcs}
    BY <2>4, <2>5
  <2>7. ReadAt(p, w, i) = [if_index |-> i, type |-> r.type, gaddr |-> r.gaddr,
                           slist |-> {r.srcs[j] : j \in DOMAIN r.srcs}]
    BY <2>5, <2>6 DEF ReadAt
  <2>8. QED
    BY <2>7 DEF w, r
<1>11. QED
  BY <1>1, <1>4, <1>10

(***************************************************************************)
(* The base of all invariants: types, and a snapshot in which every link   *)
(* has a subnet of its own                                                 *)
(***************************************************************************)
SnapshotOK ==
    /\ subnet \in [Ifs -> Nat] /\ \A i \in Ifs : subnet[i] \in DOMAIN Subnets[i]
    /\ \A i, j \in Ifs : Subnet(i) = Subnet(j) => i = j
    /\ m_if_map # <<>> =>
          /\ DOMAIN m_if_map = Ifs
          /\ \A i, j \in Ifs : m_if_map[i] = m_if_map[j] => i = j

ControlOK ==
    /\ protocol \in Protocols
    /\ DOMAIN asked \subseteq Upstreams \X Groups
    /\ queriers \subseteq Downstreams /\ ended \in {"no", "exception", "destructor"}
    /\ m_upstreams \subseteq Upstreams /\ m_relevant_if_index \subseteq Ifs
    /\ m_upstreams \cup queriers \subseteq m_relevant_if_index
    /\ last.link \in Ifs \cup {0}

BaseInv == member \in Memberships /\ SnapshotOK /\ ControlOK

(* The filters a querier asks for are filters.                             *)
LEMMA FilterValues == Nothing \in Filter /\ Everything \in Filter /\ Everything # Nothing
BY DEF Filter, Nothing, Everything, Modes

(* A fresh instance.                                                       *)
LEMMA BaseInvInit == Init => BaseInv
<1> SUFFICES ASSUME Init PROVE BaseInv
  OBVIOUS
<1> USE DEF Init
<1>1. member \in Memberships
  <2> DEFINE D == {}
  <2>1. D \in SUBSET Key /\ member \in [D -> Filter]
    OBVIOUS
  <2>2. IsFiniteSet(D) /\ Cardinality(D) = 0
    BY FS_EmptySet
  <2>3. Cardinality(D) <= MaxMemberships
    BY <2>2, SocketsAssumption
  <2> HIDE DEF D
  <2>4. QED
    BY <2>1, <2>2, <2>3, MembershipsIntro
<1>2. SnapshotOK
  <2>1. ASSUME NEW i \in Ifs PROVE 1 \in DOMAIN Subnets[i]
    <3>1. Subnets[i] \in Seq(Nat) /\ Len(Subnets[i]) > 0
      BY SocketsAssumption
    <3>2. DOMAIN Subnets[i] = 1 .. Len(Subnets[i]) /\ Len(Subnets[i]) \in Nat
      BY <3>1, LenProperties
    <3>3. QED
      BY <3>1, <3>2
  <2>2. \A i, j \in Ifs : Subnet(i) = Subnet(j) => i = j
    BY SocketsAssumption DEF Subnet
  <2>3. QED
    BY <2>1, <2>2 DEF SnapshotOK
<1>3. ControlOK
  BY DEF ControlOK, NoPacket
<1>4. QED
  BY <1>1, <1>2, <1>3 DEF BaseInv

(* Every step keeps the base.                                              *)
LEMMA BaseInvNext == BaseInv /\ [Next]_vars => BaseInv'
<1> SUFFICES ASSUME BaseInv, [Next]_vars PROVE BaseInv'
  OBVIOUS
<1> USE DEF BaseInv
<1>0. NoPacket.link = 0
  BY DEF NoPacket
<1>1. CASE refresh_network_interfaces
  <2>1. SnapshotOK'
    <3>1. /\ subnet' = subnet /\ DOMAIN m_if_map' = Ifs
          /\ \A i \in Ifs : m_if_map'[i] = Subnet(i)
      BY <1>1 DEF refresh_network_interfaces
    <3>2. \A i, j \in Ifs : m_if_map'[i] = m_if_map'[j] => i = j
      BY <3>1 DEF SnapshotOK
    <3>3. QED
      BY <3>1, <3>2 DEF SnapshotOK, Subnet
  <2>2. ControlOK'
    BY <1>0, <1>1 DEF refresh_network_interfaces, ControlOK
  <2>3. QED
    BY <1>1, <2>1, <2>2 DEF refresh_network_interfaces
<1>2. ASSUME NEW i \in Ifs, Readdress(i) PROVE BaseInv'
  <2>1. subnet[i] + 1 \in DOMAIN Subnets[i]
    <3>1. subnet[i] \in Nat /\ subnet[i] < Len(Subnets[i]) /\ Subnets[i] \in Seq(Nat)
      BY <1>2, SocketsAssumption DEF Readdress, SnapshotOK
    <3>2. DOMAIN Subnets[i] = 1 .. Len(Subnets[i]) /\ Len(Subnets[i]) \in Nat
      BY <3>1, LenProperties
    <3>3. QED
      BY <3>1, <3>2
  <2>2. SnapshotOK'
    <3>1. subnet' = [subnet EXCEPT ![i] = @ + 1] /\ m_if_map' = m_if_map
      BY <1>2 DEF Readdress
    <3>2. subnet' \in [Ifs -> Nat] /\ \A j \in Ifs : subnet'[j] \in DOMAIN Subnets[j]
      BY <2>1, <3>1 DEF SnapshotOK
    <3>3. \A j, k \in Ifs : Subnet(j)' = Subnet(k)' => j = k
      <4>1. \A j \in Ifs : Subnet(j)' = IF j = i THEN Subnets[i][subnet[i] + 1] ELSE Subnet(j)
        BY <3>1 DEF SnapshotOK, Subnet
      <4>2. \A j \in Ifs : j # i => Subnet(j) # Subnets[i][subnet[i] + 1]
        BY <1>2 DEF Readdress
      <4>3. \A j, k \in Ifs : Subnet(j) = Subnet(k) => j = k
        BY DEF SnapshotOK
      <4>4. QED
        BY <4>1, <4>2, <4>3
    <3>4. QED
      BY <3>1, <3>2, <3>3 DEF SnapshotOK
  <2>3. ControlOK'
    BY <1>0, <1>2 DEF Readdress, ControlOK
  <2>4. QED
    BY <1>2, <2>2, <2>3 DEF Readdress
<1>10. ASSUME NEW u \in Upstreams, AddUpstream(u) PROVE BaseInv'
  <2>1. SnapshotOK'
    BY <1>10 DEF AddUpstream, SnapshotOK, Subnet
  <2>2. ControlOK'
    BY <1>0, <1>10 DEF AddUpstream, ControlOK, Ifs
  <2>3. QED
    BY <1>10, <2>1, <2>2 DEF AddUpstream
<1>3. ASSUME NEW i \in Downstreams, AddDownstream(i) PROVE BaseInv'
  <2>1. i \in Ifs
    BY DEF Ifs
  <2>2. router_groups_function(i, Everything) \in Results
    BY <2>1, FilterValues, RouterGroupsEffect
  <2>3. member' = router_groups_function(i, Everything).member
    BY <1>3 DEF AddDownstream, Everything
  <2>4. SnapshotOK'
    BY <1>3 DEF AddDownstream, SnapshotOK, Subnet
  <2>5. ControlOK'
    BY <1>0, <1>3, <2>1 DEF AddDownstream, ControlOK
  <2>6. QED
    BY <2>2, <2>3, <2>4, <2>5 DEF Results
<1>4. ASSUME NEW i \in Downstreams, DestroyQuerier(i) PROVE BaseInv'
  <2>1. i \in Ifs
    BY DEF Ifs
  <2>2. router_groups_function(i, Nothing) \in Results
    BY <2>1, FilterValues, RouterGroupsEffect
  <2>3. member' = router_groups_function(i, Nothing).member
    BY <1>4 DEF DestroyQuerier, Nothing
  <2>4. SnapshotOK'
    BY <1>4 DEF DestroyQuerier, SnapshotOK, wire, Subnet
  <2>5. ControlOK'
    BY <1>0, <1>4 DEF DestroyQuerier, ControlOK, wire
  <2>6. QED
    BY <2>2, <2>3, <2>4, <2>5 DEF Results
<1>5. ASSUME NEW u \in Upstreams, NEW g \in Groups, NEW f \in RecordFilters, SendRecord(u, g, f)
      PROVE  BaseInv'
  <2>1. <<u, g>> \in Key
    BY DEF Key, Ifs
  <2>2. send_record(member, <<u, g>>, f) \in Results
    BY <2>1, SendRecordType, SocketsAssumption
  <2>3. member' = send_record(member, <<u, g>>, f).member
    BY <1>5 DEF SendRecord
  <2>4. SnapshotOK'
    BY <1>5 DEF SendRecord, SnapshotOK, wire, Subnet
  <2>5. DOMAIN asked' = DOMAIN asked \cup {<<u, g>>}
    BY <1>5 DEF SendRecord, With
  <2>6. ControlOK'
    BY <1>0, <1>5, <2>5 DEF SendRecord, ControlOK, wire
  <2>7. QED
    BY <2>2, <2>3, <2>4, <2>6 DEF Results
<1>6. ASSUME NEW l \in Ifs, NEW r \in Reports, NEW info \in BOOLEAN, ReceiveReport(l, r, info)
      PROVE  BaseInv'
  <2>1. last'.link = l
    BY <1>6 DEF ReceiveReport, NoPacket
  <2>2. SnapshotOK' /\ ControlOK'
    BY <1>6, <2>1 DEF ReceiveReport, SnapshotOK, ControlOK, wire, Subnet
  <2>3. QED
    BY <1>6, <2>2 DEF ReceiveReport
<1>7. ASSUME NEW l \in Ifs, NEW k \in OlderPackets, NEW g \in Groups, NEW info \in BOOLEAN,
             ReceiveOlder(l, k, g, info)
      PROVE  BaseInv'
  <2>1. last'.link = l
    BY <1>7 DEF ReceiveOlder, NoPacket
  <2>2. SnapshotOK' /\ ControlOK'
    BY <1>7, <2>1 DEF ReceiveOlder, SnapshotOK, ControlOK, wire, Subnet
  <2>3. QED
    BY <1>7, <2>2 DEF ReceiveOlder
<1>8. CASE UNCHANGED vars
  BY <1>8 DEF vars, SnapshotOK, ControlOK, Subnet
<1>9. QED
  BY <1>1, <1>2, <1>3, <1>4, <1>5, <1>6, <1>7, <1>8, <1>10 DEF Next

(* The base holds in every reachable state.                                *)
LEMMA BaseInvAlways == Spec => []BaseInv
BY BaseInvInit, BaseInvNext, PTL DEF Spec

(* Types, and the limit of the kernel: whatever is joined and left, the
   memberships stay within it (mc_socket::join_group).                     *)
THEOREM SocketsTypeCorrect == Spec => []TypeOK
<1>1. BaseInv => TypeOK
  <2> SUFFICES ASSUME BaseInv PROVE TypeOK
    OBVIOUS
  <2>1. /\ DOMAIN member \in SUBSET Key /\ member \in [DOMAIN member -> Filter]
        /\ Cardinality(DOMAIN member) <= MaxMemberships
    BY MembershipsElim DEF BaseInv
  <2>2. \A k \in DOMAIN member : member[k] \in Filter
    BY <2>1
  <2>3. QED
    BY <2>1, <2>2 DEF BaseInv, ControlOK, TypeOK, Key, RouterGroup
<1>2. QED
  BY <1>1, BaseInvAlways, PTL

(***************************************************************************)
(* Memberships: what the routing management and the queriers asked for     *)
(***************************************************************************)
(* A router group of a querier that runs: without a record for it the one
   of the querier is in force, and otherwise only the record ends it.      *)
JoinedAt(m, a, k) ==
    IF k \in DOMAIN a THEN k \in DOMAIN m \/ ~a[k].ok \/ a[k].filter = Nothing
                      ELSE InForce(m, k, Everything)

JoinedOK ==
    \A i \in queriers : \A n \in DOMAIN RouterGroups :
        JoinedAt(member, asked, <<i, RouterGroups[n]>>)

(* Nothing else is joined on a downstream, unless a constructor has thrown. *)
NoneLeftOK ==
    ended # "exception" =>
        \A k \in DOMAIN member :
            k[1] \in Downstreams => \/ k[1] \in queriers /\ k[2] \in RouterGroup
                                    \/ k \in DOMAIN asked

AskedOK ==
    /\ \A k \in DOMAIN asked :
          asked[k].ok /\ ~Contested(k) => InForce(member, k, asked[k].filter)
    /\ protocol = "IGMPv3" => AcceptedBelowLimits

MemberInv == JoinedOK /\ NoneLeftOK /\ AskedOK

(* The queriers' loop disturbs no record and no other querier.             *)
LEMMA QuerierKeeps ==
    ASSUME BaseInv, MemberInv, NEW i \in Downstreams, NEW filter \in Filter,
           member' = router_groups_function(i, filter).member,
           asked' = asked, protocol' = protocol
    PROVE  /\ AskedOK'
           /\ \A j \in queriers : j # i => \A n \in DOMAIN RouterGroups :
                 JoinedAt(member', asked, <<j, RouterGroups[n]>>)
<1> DEFINE Mine == {<<i, g>> : g \in RouterGroup}
<1>1. \A k : k \notin Mine => SameAt(member', member, k)
  BY RouterGroupsEffect DEF BaseInv, Ifs
<1>2. \A k \in Mine : Contested(k)
  BY DEF Contested, RouterGroup
<1>3. \A k \in DOMAIN asked : ~Contested(k) => SameAt(member', member, k)
  BY <1>1, <1>2
<1>4. AskedOK'
  <2>1. \A k \in DOMAIN asked :
          asked[k].ok /\ ~Contested(k) => InForce(member', k, asked[k].filter)
    BY <1>3 DEF MemberInv, AskedOK, SameAt, InForce
  <2>2. protocol = "IGMPv3" => AcceptedBelowLimits'
    BY DEF MemberInv, AskedOK, AcceptedBelowLimits
  <2>3. QED
    BY <2>1, <2>2 DEF AskedOK
<1>5. ASSUME NEW j \in queriers, j # i, NEW n \in DOMAIN RouterGroups
      PROVE  JoinedAt(member', asked, <<j, RouterGroups[n]>>)
  <2>1. <<j, RouterGroups[n]>> \notin Mine
    BY <1>5
  <2>2. SameAt(member', member, <<j, RouterGroups[n]>>)
    BY <1>1, <2>1
  <2>3. QED
    BY <2>2 DEF MemberInv, JoinedOK, JoinedAt, SameAt, InForce
<1>6. QED
  BY <1>4, <1>5

(* A new querier is in its groups, or the instance ends.                   *)
LEMMA AddDownstreamKeeps ==
    ASSUME BaseInv, MemberInv, NEW i \in Downstreams, AddDownstream(i)
    PROVE  MemberInv'
<1> DEFINE r == router_groups_function(i, Everything)
           Mine == {<<i, g>> : g \in RouterGroup}
<1>1. /\ ended = "no" /\ i \notin queriers /\ member' = r.member
      /\ IF r.ok THEN queriers' = queriers \cup {i} /\ ended' = ended
                 ELSE ended' = "exception" /\ queriers' = queriers
      /\ asked' = asked /\ protocol' = protocol
  BY DEF AddDownstream, Everything
<1>2. /\ \A k : k \notin Mine => SameAt(member', member, k)
      /\ r.ok => \A n \in DOMAIN RouterGroups :
                    InForce(member', <<i, RouterGroups[n]>>, Everything)
  <2> HIDE DEF r
  <2>1. i \in Ifs /\ Everything \in Filter /\ member \in Memberships
    BY FilterValues DEF Ifs, BaseInv
  <2>2. r = router_groups_function(i, Everything)
    BY DEF r
  <2>3. QED
    BY <1>1, <2>1, <2>2, RouterGroupsEffect
<1>3. /\ AskedOK'
      /\ \A j \in queriers : j # i => \A n \in DOMAIN RouterGroups :
            JoinedAt(member', asked, <<j, RouterGroups[n]>>)
  BY <1>1, QuerierKeeps, FilterValues
<1> HIDE DEF r
<1>4. JoinedOK'
  <2>1. ASSUME r.ok, NEW n \in DOMAIN RouterGroups
        PROVE  JoinedAt(member', asked, <<i, RouterGroups[n]>>)
    BY <1>2, <2>1 DEF InForce, JoinedAt, Everything, Nothing
  <2>2. QED
    BY <1>1, <1>3, <2>1 DEF JoinedOK
<1>5. NoneLeftOK'
  <2> SUFFICES ASSUME ended' # "exception", NEW k \in DOMAIN member', k[1] \in Downstreams
               PROVE  (k[1] \in queriers' /\ k[2] \in RouterGroup) \/ k \in DOMAIN asked'
    BY DEF NoneLeftOK
  <2>1. queriers' = queriers \cup {i}
    BY <1>1
  <2>2. CASE k \in Mine
    <3>1. PICK g \in RouterGroup : k = <<i, g>>
      BY <2>2
    <3>2. QED
      BY <2>1, <3>1
  <2>3. CASE k \notin Mine
    <3>1. k \in DOMAIN member
      BY <1>2, <2>3 DEF SameAt
    <3>2. (k[1] \in queriers /\ k[2] \in RouterGroup) \/ k \in DOMAIN asked
      BY <1>1, <3>1 DEF MemberInv, NoneLeftOK
    <3>3. QED
      BY <1>1, <2>1, <3>2
  <2>4. QED
    BY <2>2, <2>3
<1>6. QED
  BY <1>3, <1>4, <1>5 DEF MemberInv

(* A querier that is destroyed leaves its groups and nothing behind.       *)
LEMMA DestroyQuerierKeeps ==
    ASSUME BaseInv, MemberInv, NEW i \in Downstreams, DestroyQuerier(i)
    PROVE  MemberInv'
<1> DEFINE r == router_groups_function(i, Nothing)
           Mine == {<<i, g>> : g \in RouterGroup}
<1>1. /\ ended # "exception" /\ member' = r.member /\ queriers' = queriers \ {i}
      /\ asked' = asked /\ protocol' = protocol
  BY DEF DestroyQuerier, Nothing, wire
<1>2. /\ \A k : k \notin Mine => SameAt(member', member, k)
      /\ \A n \in DOMAIN RouterGroups : <<i, RouterGroups[n]>> \notin DOMAIN member'
  <2> HIDE DEF r
  <2>1. i \in Ifs /\ Nothing \in Filter /\ member \in Memberships
    BY FilterValues DEF Ifs, BaseInv
  <2>2. r = router_groups_function(i, Nothing)
    BY DEF r
  <2>3. \A n \in DOMAIN RouterGroups : InForce(r.member, <<i, RouterGroups[n]>>, Nothing)
    BY <2>1, <2>2, RouterGroupsEffect
  <2>4. \A k : k \notin Mine => SameAt(r.member, member, k)
    BY <2>1, <2>2, RouterGroupsEffect
  <2>5. QED
    BY <1>1, <2>3, <2>4 DEF InForce
<1>3. /\ AskedOK'
      /\ \A j \in queriers : j # i => \A n \in DOMAIN RouterGroups :
            JoinedAt(member', asked, <<j, RouterGroups[n]>>)
  BY <1>1, QuerierKeeps, FilterValues
<1> HIDE DEF r
<1>4. JoinedOK'
  BY <1>1, <1>3 DEF JoinedOK
<1>5. NoneLeftOK'
  <2> SUFFICES ASSUME NEW k \in DOMAIN member', k[1] \in Downstreams, k \notin DOMAIN asked
               PROVE  k[1] \in queriers' /\ k[2] \in RouterGroup
    BY <1>1 DEF NoneLeftOK
  <2>1. k \notin Mine
    <3> SUFFICES ASSUME NEW g \in RouterGroup, k = <<i, g>> PROVE FALSE
      OBVIOUS
    <3>1. PICK n \in DOMAIN RouterGroups : g = RouterGroups[n]
      BY DEF RouterGroup
    <3>2. QED
      BY <1>2, <3>1
  <2>2. k \in DOMAIN member
    BY <1>2, <2>1 DEF SameAt
  <2>3. k[1] \in queriers /\ k[2] \in RouterGroup
    BY <1>1, <2>2 DEF MemberInv, NoneLeftOK
  <2>4. k \in Key
    BY <2>2, MembershipsElim DEF BaseInv
  <2>5. k = <<k[1], k[2]>>
    BY <2>4 DEF Key
  <2>6. k[1] # i
    BY <2>1, <2>3, <2>5
  <2>7. QED
    BY <1>1, <2>3, <2>6
<1>6. QED
  BY <1>3, <1>4, <1>5 DEF MemberInv

(* A record of the routing management disturbs no other group of a querier. *)
LEMMA SendRecordKeeps ==
    ASSUME BaseInv, MemberInv, NEW u \in Upstreams, NEW g \in Groups,
           NEW f \in RecordFilters, SendRecord(u, g, f)
    PROVE  MemberInv'
<1> DEFINE key == <<u, g>>
           r == send_record(member, key, f)
           new == [filter |-> f, ok |-> r.ok, full |-> Full(member)]
<1>1. /\ member' = r.member /\ asked' = With(asked, key, new)
      /\ queriers' = queriers /\ ended' = ended /\ protocol' = protocol
  BY DEF SendRecord, wire
<1>2. \A k : k # key => SameAt(member', member, k)
  BY <1>1, SendRecordOthers
<1>3. r.ok => InForce(member', key, f)
  BY <1>1, SendRecordInForce, SocketsAssumption
<1>4. protocol = "IGMPv3" /\ ~r.ok => Full(member) \/ Cardinality(f.srcs) > MaxSources
  BY IgmpRefusesAtLimits, SocketsAssumption
<1>6. /\ new.filter = f /\ new.ok = r.ok /\ new.full = Full(member)
  OBVIOUS
<1> HIDE DEF r, new
<1>7. /\ DOMAIN asked' = DOMAIN asked \cup {key}
      /\ asked'[key] = new
      /\ \A k \in DOMAIN asked : k # key => asked'[k] = asked[k]
  BY <1>1 DEF With
<1>8. JoinedOK'
  <2> SUFFICES ASSUME NEW i \in queriers, NEW n \in DOMAIN RouterGroups
               PROVE  JoinedAt(member', asked', <<i, RouterGroups[n]>>)
    BY <1>1 DEF JoinedOK
  <2> DEFINE k == <<i, RouterGroups[n]>>
  <2>1. JoinedAt(member, asked, k)
    BY DEF MemberInv, JoinedOK
  <2>2. CASE k = key
    <3>1. k \in DOMAIN asked' /\ asked'[k].ok = r.ok /\ asked'[k].filter = f
      BY <1>6, <1>7, <2>2
    <3>2. r.ok /\ f # Nothing => k \in DOMAIN member'
      BY <1>3, <2>2 DEF InForce
    <3>3. QED
      BY <3>1, <3>2 DEF JoinedAt
  <2>3. CASE k # key
    <3>1. SameAt(member', member, k)
      BY <1>2, <2>3
    <3>2. k \in DOMAIN asked' <=> k \in DOMAIN asked
      BY <1>7, <2>3
    <3>3. k \in DOMAIN asked => asked'[k] = asked[k]
      BY <1>7, <2>3
    <3>4. QED
      BY <2>1, <3>1, <3>2, <3>3 DEF JoinedAt, SameAt, InForce
  <2>4. QED
    BY <2>2, <2>3
<1>9. NoneLeftOK'
  <2> SUFFICES ASSUME ended # "exception", NEW k \in DOMAIN member', k[1] \in Downstreams
               PROVE  (k[1] \in queriers /\ k[2] \in RouterGroup) \/ k \in DOMAIN asked'
    BY <1>1 DEF NoneLeftOK
  <2>1. CASE k = key
    BY <1>7, <2>1
  <2>2. CASE k # key
    <3>1. k \in DOMAIN member
      BY <1>2, <2>2 DEF SameAt
    <3>2. (k[1] \in queriers /\ k[2] \in RouterGroup) \/ k \in DOMAIN asked
      BY <3>1 DEF MemberInv, NoneLeftOK
    <3>3. QED
      BY <1>7, <3>2
  <2>3. QED
    BY <2>1, <2>2
<1>10. \A k \in DOMAIN asked' :
          asked'[k].ok /\ ~Contested(k) => InForce(member', k, asked'[k].filter)
  <2> TAKE k \in DOMAIN asked'
  <2>1. CASE k = key
    BY <1>3, <1>6, <1>7, <2>1
  <2>2. CASE k # key
    <3>1. k \in DOMAIN asked /\ asked'[k] = asked[k] /\ SameAt(member', member, k)
      BY <1>2, <1>7, <2>2
    <3>2. asked[k].ok /\ ~Contested(k) => InForce(member, k, asked[k].filter)
      BY <3>1 DEF MemberInv, AskedOK
    <3>3. QED
      BY <3>1, <3>2 DEF SameAt, InForce
  <2>3. QED
    BY <2>1, <2>2
<1>11. protocol = "IGMPv3" => AcceptedBelowLimits'
  <2> SUFFICES ASSUME protocol = "IGMPv3", NEW k \in DOMAIN asked', ~asked'[k].ok
               PROVE  asked'[k].full \/ Cardinality(asked'[k].filter.srcs) > MaxSources
    BY DEF AcceptedBelowLimits
  <2>1. CASE k = key
    BY <1>4, <1>6, <1>7, <2>1
  <2>2. CASE k # key
    BY <1>7, <2>2 DEF MemberInv, AskedOK, AcceptedBelowLimits
  <2>3. QED
    BY <2>1, <2>2
<1>12. QED
  BY <1>1, <1>8, <1>9, <1>10, <1>11 DEF MemberInv, AskedOK

(* The other steps leave all of it alone.                                  *)
LEMMA MemberInvUnchanged ==
    ASSUME MemberInv, UNCHANGED <<protocol, member, asked, queriers, ended>>
    PROVE  MemberInv'
BY DEF MemberInv, JoinedOK, NoneLeftOK, AskedOK, AcceptedBelowLimits

(* Every step keeps what was asked for.                                    *)
LEMMA MemberInvNext == BaseInv /\ MemberInv /\ [Next]_vars => MemberInv'
<1> SUFFICES ASSUME BaseInv, MemberInv, [Next]_vars PROVE MemberInv'
  OBVIOUS
<1>1. CASE refresh_network_interfaces
  BY <1>1, MemberInvUnchanged DEF refresh_network_interfaces
<1>2. ASSUME NEW i \in Ifs, Readdress(i) PROVE MemberInv'
  BY <1>2, MemberInvUnchanged DEF Readdress
<1>10. ASSUME NEW u \in Upstreams, AddUpstream(u) PROVE MemberInv'
  BY <1>10, MemberInvUnchanged DEF AddUpstream
<1>3. ASSUME NEW i \in Downstreams, AddDownstream(i) PROVE MemberInv'
  BY <1>3, AddDownstreamKeeps
<1>4. ASSUME NEW i \in Downstreams, DestroyQuerier(i) PROVE MemberInv'
  BY <1>4, DestroyQuerierKeeps
<1>5. ASSUME NEW u \in Upstreams, NEW g \in Groups, NEW f \in RecordFilters, SendRecord(u, g, f)
      PROVE  MemberInv'
  BY <1>5, SendRecordKeeps
<1>6. ASSUME NEW l \in Ifs, NEW r \in Reports, NEW info \in BOOLEAN, ReceiveReport(l, r, info)
      PROVE  MemberInv'
  BY <1>6, MemberInvUnchanged DEF ReceiveReport, wire
<1>7. ASSUME NEW l \in Ifs, NEW k \in OlderPackets, NEW g \in Groups, NEW info \in BOOLEAN,
             ReceiveOlder(l, k, g, info)
      PROVE  MemberInv'
  BY <1>7, MemberInvUnchanged DEF ReceiveOlder, wire
<1>8. CASE UNCHANGED vars
  BY <1>8, MemberInvUnchanged DEF vars
<1>9. QED
  BY <1>1, <1>2, <1>3, <1>4, <1>5, <1>6, <1>7, <1>8, <1>10 DEF Next

(* It holds in every reachable state.                                      *)
LEMMA MemberInvAlways == Spec => []MemberInv
<1>1. Init => MemberInv
  BY DEF Init, MemberInv, JoinedOK, NoneLeftOK, AskedOK, AcceptedBelowLimits
<1>2. BaseInv /\ MemberInv /\ [Next]_vars => MemberInv'
  BY MemberInvNext
<1>3. QED
  BY <1>1, <1>2, BaseInvAlways, PTL DEF Spec

(* A record that was reported as sent is in force, whatever records and
   queriers came before and after it, also on a peering interface, but for the
   router groups there; and IGMP refuses records only at a limit of the kernel
   (igmp_sender::send_record, mld_sender::send_record,
   mc_socket::set_source_filter).                                          *)
THEOREM RecordsAreInForce == Spec => []RecordsInForce
<1>1. MemberInv => RecordsInForce
  BY DEF MemberInv, AskedOK, InForce, Nothing, RecordsInForce
<1>2. QED
  BY <1>1, MemberInvAlways, PTL

(* And a querier that runs is in its router groups, of which only a record for
   the group on its own link can take it out, and none is left behind on the
   link of one that has been destroyed (querier::router_groups_function in its
   constructor and destructor).  Interfaces may have both roles.           *)
THEOREM RouterGroupsAreKept == Spec => []RouterGroupsStay
<1>1. MemberInv => RouterGroupsStay
  <2> SUFFICES ASSUME MemberInv PROVE RouterGroupsStay
    OBVIOUS
  <2>1. ended = "destructor" =>
          \A k \in DOMAIN member :
             k[1] \in Downstreams => k[1] \in queriers \/ k \in DOMAIN asked
    BY DEF MemberInv, NoneLeftOK
  <2>2. \A i \in queriers : \A n \in DOMAIN RouterGroups :
          LET k == <<i, RouterGroups[n]>>
          IN  IF k \in DOMAIN asked
              THEN k \in DOMAIN member \/ ~asked[k].ok \/ asked[k].filter = Nothing
              ELSE k \in DOMAIN member /\ member[k] = Everything
    BY FilterValues DEF MemberInv, JoinedOK, JoinedAt, InForce
  <2>3. QED
    BY <2>1, <2>2 DEF RouterGroupsStay, Everything, Nothing
<1>2. QED
  BY <1>1, MemberInvAlways, PTL

(***************************************************************************)
(* Reports: the right link and the right records, or nothing, unless a     *)
(* subnet has moved                                                        *)
(***************************************************************************)
(* The snapshot names the link of a sender; once the subnet of this has
   changed it names no link, or the one that had that subnet before.       *)
LEMMA SnapshotNamesTheLink ==
    ASSUME SnapshotOK, m_if_map # <<>>, NEW link \in Ifs
    PROVE  LET i == get_if_index(Subnet(link))
           IN  \/ i = link
               \/ i = 0 /\ Stale(link)
               \/ /\ i \in Ifs /\ m_if_map[i] = Subnet(link)
                  /\ Stale(link) /\ Stale(i)
<1> DEFINE net == Subnet(link)
           match == {i \in DOMAIN m_if_map : m_if_map[i] = net}
<1>1. /\ DOMAIN m_if_map = Ifs
      /\ \A i, j \in Ifs : m_if_map[i] = m_if_map[j] => i = j
      /\ \A i, j \in Ifs : Subnet(i) = Subnet(j) => i = j
  BY DEF SnapshotOK
<1>2. CASE match = {}
  <2>1. get_if_index(net) = 0
    BY <1>2 DEF get_if_index
  <2>2. m_if_map[link] # net
    BY <1>1, <1>2
  <2>3. QED
    BY <2>1, <2>2 DEF Stale
<1>3. CASE match # {}
  <2>1. PICK i \in match : TRUE
    BY <1>3
  <2>2. i \in Ifs /\ m_if_map[i] = net
    BY <1>1, <2>1
  <2>3. match = {i}
    BY <1>1, <2>1, <2>2
  <2>4. i <= i
    BY <2>2, SocketsAssumption
  <2>5. get_if_index(net) = CHOOSE k \in match : \A j \in match : k <= j
    BY <1>3 DEF get_if_index
  <2>6. get_if_index(net) = i
    <3> HIDE DEF match, net
    <3>1. QED
      BY <2>3, <2>4, <2>5
  <2>7. CASE i = link
    BY <2>6, <2>7
  <2>8. CASE i # link
    <3>1. m_if_map[link] # net /\ Subnet(i) # net
      BY <1>1, <2>2, <2>8
    <3>2. QED
      BY <2>2, <2>6, <3>1 DEF Stale
  <2>9. QED
    BY <2>7, <2>8
<1>4. QED
  BY <1>2, <1>3

(* So a packet is taken to come from its link, or is dropped, or its subnet
   has moved.                                                              *)
LEMMA PacketsAreAttributed ==
    ASSUME BaseInv, m_if_map # <<>>, NEW link \in Ifs, NEW words \in Nat, NEW info \in BOOLEAN
    PROVE  LET i == ReceivedOn(link, words, info)
           IN  \/ i = link /\ link # 0
               \/ /\ i = 0
                  /\ \/ protocol = "IGMPv3" /\ (Stale(link) \/ words > MaxWords)
                     \/ protocol = "MLDv2" /\ ~info
               \/ /\ i \in Ifs /\ protocol = "IGMPv3" /\ m_if_map[i] = Subnet(link)
                  /\ Stale(link) /\ Stale(i)
<1>1. link # 0 /\ MaxWords \in Nat
  BY SocketsAssumption
<1>2. SnapshotOK /\ protocol \in {"IGMPv3", "MLDv2"}
  BY SocketsAssumption DEF BaseInv, ControlOK
<1>3. CASE protocol = "IGMPv3" /\ words <= MaxWords
  BY <1>1, <1>2, <1>3, SnapshotNamesTheLink DEF ReceivedOn
<1>4. CASE protocol = "IGMPv3" /\ words > MaxWords
  BY <1>1, <1>4 DEF ReceivedOn
<1>5. CASE protocol = "MLDv2"
  BY <1>1, <1>5 DEF ReceivedOn
<1>6. QED
  BY <1>1, <1>2, <1>3, <1>4, <1>5

(* Every step keeps this: a report reaches the instance as the host wrote
   it and for the host's link, or not at all, unless a subnet has moved.   *)
LEMMA AttributedNext == BaseInv /\ ReportsAreAttributed /\ [Next]_vars => ReportsAreAttributed'
<1> SUFFICES ASSUME BaseInv, ReportsAreAttributed, [Next]_vars PROVE ReportsAreAttributed'
  OBVIOUS
<1>1. CASE refresh_network_interfaces
  BY <1>1 DEF refresh_network_interfaces, ReportsAreAttributed
<1>2. ASSUME NEW i \in Ifs, Readdress(i) PROVE ReportsAreAttributed'
  BY <1>2 DEF Readdress, ReportsAreAttributed
<1>11. ASSUME NEW u \in Upstreams, AddUpstream(u) PROVE ReportsAreAttributed'
  BY <1>11 DEF AddUpstream, ReportsAreAttributed
<1>3. ASSUME NEW i \in Downstreams, AddDownstream(i) PROVE ReportsAreAttributed'
  BY <1>3 DEF AddDownstream, ReportsAreAttributed
<1>4. ASSUME NEW i \in Downstreams, DestroyQuerier(i) PROVE ReportsAreAttributed'
  BY <1>4 DEF DestroyQuerier, ReportsAreAttributed
<1>5. ASSUME NEW u \in Upstreams, NEW g \in Groups, NEW f \in RecordFilters, SendRecord(u, g, f)
      PROVE  ReportsAreAttributed'
  BY <1>5 DEF SendRecord, ReportsAreAttributed
<1>6. ASSUME NEW l \in Ifs, NEW p, NEW words \in Nat, NEW info \in BOOLEAN, NEW i,
             i = ReceivedOn(l, words, info),
             last' = p, p.link = l, p.info = info, m_if_map # <<>>,
             words > MaxWords => Len(Packet(p.report)) > MaxWords,
             p.msgs = (IF i # 0 /\ is_if_index_relevant(i) THEN Meaning(p, i) ELSE <<>>),
             UNCHANGED <<queriers, protocol, m_if_map, subnet>>
      PROVE  ReportsAreAttributed'
  <2> DEFINE Attributed ==
        \/ p.msgs = Meaning(p, l)
        \/ /\ p.msgs = <<>>
           /\ \/ l \notin queriers
              \/ protocol = "IGMPv3" /\ (Stale(l) \/ Len(Packet(p.report)) > MaxWords)
              \/ protocol = "MLDv2" /\ ~info
        \/ /\ protocol = "IGMPv3" /\ Stale(l)
           /\ \E j \in Ifs : /\ m_if_map[j] = Subnet(l) /\ Stale(j)
                             /\ p.msgs = Meaning(p, j)
  <2>1. Attributed
    <3>1. \/ i = l /\ l # 0
          \/ /\ i = 0
             /\ \/ protocol = "IGMPv3" /\ (Stale(l) \/ words > MaxWords)
                \/ protocol = "MLDv2" /\ ~info
          \/ /\ i \in Ifs /\ protocol = "IGMPv3" /\ m_if_map[i] = Subnet(l)
             /\ Stale(l) /\ Stale(i)
      BY <1>6, PacketsAreAttributed
    <3>2. CASE i = l /\ l # 0
      <4>1. CASE is_if_index_relevant(l)
        BY <1>6, <3>2, <4>1
      <4>2. CASE ~is_if_index_relevant(l)
        <5>1. l \notin queriers
          BY <4>2 DEF BaseInv, ControlOK, is_if_index_relevant
        <5>2. QED
          BY <1>6, <3>2, <4>2, <5>1
      <4>3. QED
        BY <4>1, <4>2
    <3>3. CASE /\ i = 0
               /\ \/ protocol = "IGMPv3" /\ (Stale(l) \/ words > MaxWords)
                  \/ protocol = "MLDv2" /\ ~info
      BY <1>6, <3>3
    <3>4. CASE /\ i \in Ifs /\ protocol = "IGMPv3" /\ m_if_map[i] = Subnet(l)
               /\ Stale(l) /\ Stale(i)
      BY <1>6, <3>4
    <3>5. QED
      BY <3>1, <3>2, <3>3, <3>4
  <2>2. /\ \A k : Stale(k)' = Stale(k) /\ Subnet(k)' = Subnet(k)
        /\ \A k : Meaning(last, k)' = Meaning(p, k)
        /\ Len(Packet(last.report))' = Len(Packet(p.report))
    BY <1>6 DEF Stale, Subnet, Meaning, analyse_older, Packet, Written
  <2>3. QED
    BY <1>6, <2>1, <2>2 DEF ReportsAreAttributed
<1>7. ASSUME NEW l \in Ifs, NEW r \in Reports, NEW info \in BOOLEAN, ReceiveReport(l, r, info)
      PROVE  ReportsAreAttributed'
  <2> DEFINE i == ReceivedOn(l, Len(Packet(r)), info)
             msgs == IF i # 0 /\ is_if_index_relevant(i)
                     THEN analyse_records(Packet(r), Len(r), i) ELSE <<>>
             p == [NoPacket EXCEPT !.link = l, !.kind = "records", !.report = r, !.info = info,
                                   !.msgs = msgs]
  <2>1. last' = p /\ m_if_map # <<>> /\ UNCHANGED <<queriers, protocol, m_if_map, subnet>>
    BY <1>7 DEF ReceiveReport, wire
  <2>2. r \in Seq(Record) /\ Len(Packet(r)) \in Nat
    <3>1. r \in Seq(Record) /\ Len(r) \in Nat
      BY SocketsAssumption, LenProperties
    <3>2. PICK upto \in [0 .. Len(r) -> Seq(Nat)] : Packet(r) = upto[Len(r)]
      BY <3>1, PacketLoop
    <3>4. Packet(r) \in Seq(Nat)
      BY <3>1, <3>2
    <3>3. QED
      BY <3>1, <3>4, LenProperties
  <2>3. /\ p.link = l /\ p.info = info /\ p.kind = "records" /\ p.report = r
        /\ p.msgs = msgs
    BY DEF NoPacket
  <2>7. i = ReceivedOn(l, Len(Packet(r)), info)
    OBVIOUS
  <2> HIDE DEF i, p
  <2>4. analyse_records(Packet(r), Len(r), i) = Meaning(p, i)
    BY <2>2, <2>3, RecordsReadBack DEF Meaning
  <2>5. p.msgs = (IF i # 0 /\ is_if_index_relevant(i) THEN Meaning(p, i) ELSE <<>>)
    BY <2>3, <2>4
  <2>6. QED
    BY <1>6, <2>1, <2>2, <2>3, <2>5, <2>7
<1>8. ASSUME NEW l \in Ifs, NEW k \in OlderPackets, NEW g \in Groups, NEW info \in BOOLEAN,
             ReceiveOlder(l, k, g, info)
      PROVE  ReportsAreAttributed'
  <2> DEFINE i == ReceivedOn(l, 0, info)
             msgs == IF i # 0 /\ is_if_index_relevant(i) THEN analyse_older(k, g, i) ELSE <<>>
             p == [NoPacket EXCEPT !.link = l, !.kind = k, !.group = g, !.info = info,
                                   !.msgs = msgs]
  <2>1. last' = p /\ m_if_map # <<>> /\ UNCHANGED <<queriers, protocol, m_if_map, subnet>>
    BY <1>8 DEF ReceiveOlder, wire
  <2>2. k # "records" /\ ~(0 > MaxWords)
    BY SocketsAssumption
  <2>3. p.link = l /\ p.info = info /\ p.kind = k /\ p.group = g /\ p.msgs = msgs
    BY DEF NoPacket
  <2>7. i = ReceivedOn(l, 0, info)
    OBVIOUS
  <2> HIDE DEF i, p
  <2>4. analyse_older(k, g, i) = Meaning(p, i)
    BY <2>2, <2>3 DEF Meaning
  <2>5. p.msgs = (IF i # 0 /\ is_if_index_relevant(i) THEN Meaning(p, i) ELSE <<>>)
    BY <2>3, <2>4
  <2>6. QED
    BY <1>6, <2>1, <2>2, <2>3, <2>5, <2>7
<1>9. CASE UNCHANGED vars
  <2>1. UNCHANGED <<queriers, protocol, m_if_map, subnet, last>>
    BY <1>9 DEF vars
  <2>2. /\ \A k : Stale(k)' = Stale(k) /\ Subnet(k)' = Subnet(k)
        /\ \A k : Meaning(last, k)' = Meaning(last, k)
        /\ Len(Packet(last.report))' = Len(Packet(last.report))
    BY <2>1 DEF Stale, Subnet, Meaning, analyse_older, Packet, Written
  <2>3. QED
    BY <2>1, <2>2 DEF ReportsAreAttributed
<1>10. QED
  BY <1>1, <1>2, <1>3, <1>4, <1>5, <1>7, <1>8, <1>9, <1>11 DEF Next

(* Reports reach the instance as the hosts meant them and for the links the
   hosts are on, or not at all; only when a subnet has moved since the snapshot
   can a report be taken for one from the link that had it (analyse_packet,
   interfaces::get_if_index).  For reports of any number of records, with
   sources and auxiliary data of any length, and interfaces that change their
   subnet at any time.                                                     *)
THEOREM ReportsAreUnderstood == Spec => []ReportsAreAttributed
<1>1. Init => ReportsAreAttributed
  BY DEF Init, ReportsAreAttributed
<1>2. QED
  BY <1>1, BaseInvAlways, AttributedNext, PTL DEF Spec
=============================================================================

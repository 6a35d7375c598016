------------------------- MODULE ShardConfigProofs -------------------------
(***************************************************************************)
(* What the assignment of shards does, for any number of shards and any    *)
(* set of groups: redistributeShards comes to an end, and the shares are   *)
(* even then.                                                              *)
(***************************************************************************)
EXTENDS ShardConfig, Induction, FiniteSetTheorems

LEMMA GroupsFinite ==
    ASSUME NEW groups \in SUBSET Gid
    PROVE  /\ IsFiniteSet(groups) /\ Cardinality(groups) \in Nat
           /\ groups \subseteq Nat /\ 0 \notin groups
           /\ groups = {} <=> Cardinality(groups) = 0
<1>1. IsFiniteSet(groups)
  BY GidAssumption, FS_Subset
<1> QED
  BY <1>1, GidAssumption, FS_CardinalityType, FS_EmptySet

-----------------------------------------------------------------------------
(* Void shards *)

below(groups, g) == {h \in groups : h < g}

(* There is a group with n smaller ones. *)
LEMMA sortedKeyOK ==
    ASSUME NEW groups \in SUBSET Gid, NEW n \in Nat, n < Cardinality(groups)
    PROVE  sortedKey(groups, n) \in groups
<1> DEFINE G == Cardinality(groups)
           S == {m \in Nat : m < G => \E g \in groups : Cardinality(below(groups, g)) = m}
<1>1. IsFiniteSet(groups) /\ G \in Nat /\ groups \subseteq Nat /\ groups # {}
  BY GroupsFinite
<1>2. 0 \in S
  <2>1. PICK g \in groups : \A h \in groups : g <= h
    BY <1>1, LeastNumber
  <2>2. below(groups, g) = {}
    <3>1. \A h \in groups : ~ (h < g)
      BY <1>1, <2>1
    <3> QED
      BY <3>1, Zenon DEF below
  <2>3. Cardinality(below(groups, g)) = 0
    BY <2>2, FS_EmptySet
  <2> QED
    BY <2>3
<1>3. ASSUME NEW m \in 0 .. n - 1, m \in S PROVE m + 1 \in S
  <2>1. SUFFICES ASSUME m + 1 < G
                 PROVE  \E g \in groups : Cardinality(below(groups, g)) = m + 1
    BY <1>3
  <2>2. PICK g \in groups : Cardinality(below(groups, g)) = m
    BY <1>1, <1>3, <2>1
  <2> DEFINE above == {h \in groups : h > g}
             upTo == below(groups, g) \cup {g}
  <2>3. IsFiniteSet(below(groups, g)) /\ g \notin below(groups, g)
    <3>1. below(groups, g) \in SUBSET groups
      BY DEF below
    <3> QED
      BY <1>1, <3>1, FS_Subset DEF below
  <2>4. Cardinality(upTo) = m + 1
    BY <2>2, <2>3, FS_AddElement
  <2>0. \A h \in groups : h < g \/ h = g \/ h > g
    BY <1>1
  <2>5. groups = upTo \cup above
    BY <2>0, Zenon DEF below
  <2>6. above # {}
    BY <1>1, <1>3, <2>1, <2>4, <2>5
  <2>7. PICK a \in above : \A h \in above : a <= h
    <3>1. above \subseteq Nat
      BY <1>1
    <3> HIDE DEF above
    <3> QED
      BY <2>6, <3>1, LeastNumber
  <2>8. below(groups, a) = upTo
    <3>1. a \in groups /\ \A h \in groups : h < a <=> h < g \/ h = g
      BY <1>1, <2>7
    <3> QED
      BY <3>1, Zenon DEF below
  <2> QED
    BY <2>4, <2>7, <2>8
<1>4. n \in S
  <2> HIDE DEF S
  <2>1. \A m \in 0 .. n : m \in S
    BY <1>2, <1>3, InductionUpTo
  <2> QED
    BY <2>1
<1>5. \E g \in groups : Cardinality({h \in groups : h < g}) = n
  BY <1>4 DEF below
<1> QED
  BY <1>5 DEF sortedKey

(* A shard of group 0 goes to a group, the others stay. *)
LEMMA assignVoidShardsOK ==
    ASSUME NEW shards \in Shards, NEW groups \in SUBSET Gid, groups # {}
    PROVE  /\ assignVoidShards(shards, groups) \in Shards
           /\ \A k \in Shard :
                 IF shards[k] = 0 THEN assignVoidShards(shards, groups)[k] \in groups
                 ELSE assignVoidShards(shards, groups)[k] = shards[k]
<1> DEFINE G == Cardinality(groups)
           C(k) == Cardinality({h \in 0 .. k - 1 : shards[h] <= 0})
           new == assignVoidShards(shards, groups)
<1>1. G \in Nat \ {0}
  BY GroupsFinite
<1>2. \A k \in Shard : shards[k] \in Nat /\ (shards[k] > 0 <=> shards[k] # 0)
  <2>1. \A g \in Gid \cup {0} : g \in Nat /\ (g > 0 <=> g # 0)
    BY GidAssumption
  <2>2. \A k \in Shard : shards[k] \in Gid \cup {0}
    BY DEF Shards
  <2> QED
    BY <2>1, <2>2
<1>3. ASSUME NEW k \in Shard PROVE sortedKey(groups, C(k) % G) \in groups
  <2>1. IsFiniteSet(0 .. k - 1)
    BY FS_Interval DEF Shard
  <2>2. {h \in 0 .. k - 1 : shards[h] <= 0} \in SUBSET (0 .. k - 1)
    OBVIOUS
  <2>3. C(k) \in Nat
    BY <2>1, <2>2, FS_Subset, FS_CardinalityType
  <2> HIDE DEF C, G
  <2>4. C(k) % G \in Nat /\ C(k) % G < G
    BY <1>1, <2>3
  <2> QED
    BY <2>4, sortedKeyOK DEF G
<1>4. new = [k \in Shard |-> IF shards[k] > 0 THEN shards[k] ELSE sortedKey(groups, C(k) % G)]
  BY DEF assignVoidShards
<1> HIDE DEF C, G, new
<1>5. \A k \in Shard : IF shards[k] = 0 THEN new[k] \in groups ELSE new[k] = shards[k]
  BY <1>2, <1>3, <1>4
<1>6. new \in Shards
  BY <1>3, <1>4 DEF Shards
<1> QED
  BY <1>5, <1>6 DEF new

-----------------------------------------------------------------------------
(* Shares *)

holding(shards, g) == {k \in Shard : shards[k] = g}

LEMMA ShardFacts ==
    /\ IsFiniteSet(Shard) /\ Cardinality(Shard) = NShards
    /\ Shard \subseteq Nat
    /\ \A k \in Shard : 0 .. k - 1 \subseteq Shard
<1>1. IsFiniteSet(0 .. NShards - 1) /\ Cardinality(0 .. NShards - 1) = NShards
  BY ShardsAssumption, FS_Interval
<1> QED
  BY <1>1, ShardsAssumption DEF Shard

LEMMA shareType ==
    ASSUME NEW shards, NEW g
    PROVE  /\ IsFiniteSet(holding(shards, g))
           /\ share(shards, g) = Cardinality(holding(shards, g))
           /\ share(shards, g) \in Nat /\ share(shards, g) <= NShards
           /\ share(shards, g) > 0 => \E k \in Shard : shards[k] = g
<1>1. holding(shards, g) \in SUBSET Shard
  BY DEF holding
<1>2. /\ IsFiniteSet(holding(shards, g))
      /\ Cardinality(holding(shards, g)) <= NShards
      /\ Cardinality(holding(shards, g)) \in Nat
  BY <1>1, ShardFacts, FS_Subset, FS_CardinalityType
<1>3. share(shards, g) = Cardinality(holding(shards, g))
  BY DEF share, holding
<1>4. ASSUME ~ \E k \in Shard : shards[k] = g PROVE share(shards, g) = 0
  <2>1. holding(shards, g) = {}
    BY <1>4 DEF holding
  <2> QED
    BY <1>3, <2>1, FS_EmptySet
<1> QED
  BY <1>2, <1>3, <1>4

(* A shard that moves changes the shares of the two groups by one. *)
LEMMA shareMove ==
    ASSUME NEW shards \in Shards, NEW k \in Shard, NEW to \in Gid \cup {0}, shards[k] # to
    PROVE  LET new == [shards EXCEPT ![k] = to] IN
           /\ new \in Shards
           /\ share(new, to) = share(shards, to) + 1
           /\ share(new, shards[k]) = share(shards, shards[k]) - 1
           /\ \A g : g # to /\ g # shards[k] => share(new, g) = share(shards, g)
<1> DEFINE new == [shards EXCEPT ![k] = to]
           from == shards[k]
<1>1. new \in Shards /\ new[k] = to /\ \A h \in Shard : h # k => new[h] = shards[h]
  BY DEF Shards
<1> HIDE DEF new
<1>2. share(new, to) = share(shards, to) + 1
  <2>1. holding(new, to) = holding(shards, to) \cup {k}
    BY <1>1 DEF holding
  <2>2. k \notin holding(shards, to)
    BY DEF holding
  <2> QED
    BY <2>1, <2>2, shareType, FS_AddElement
<1>3. share(new, from) = share(shards, from) - 1
  <2>1. holding(new, from) = holding(shards, from) \ {k}
    BY <1>1 DEF holding
  <2>2. k \in holding(shards, from)
    BY DEF holding
  <2> HIDE DEF from
  <2> QED
    BY <2>1, <2>2, shareType, FS_RemoveElement
<1>4. ASSUME NEW g, g # to, g # from PROVE share(new, g) = share(shards, g)
  <2>1. holding(new, g) = holding(shards, g)
    BY <1>1, <1>4 DEF holding
  <2> QED
    BY <2>1, shareType
<1> QED
  BY <1>1, <1>2, <1>3, <1>4 DEF new

LEMMA minGroupOK ==
    ASSUME NEW shards \in Shards, NEW groups \in SUBSET Gid, groups # {}
    PROVE  /\ minGroup(shards, groups) \in groups
           /\ \A h \in groups : share(shards, minGroup(shards, groups)) <= share(shards, h)
<1>1. groups \subseteq Nat
  BY GroupsFinite
<1> DEFINE sizes == {share(shards, g) : g \in groups}
<1>2. PICK m \in sizes : \A n \in sizes : m <= n
  <2>1. sizes \subseteq Nat /\ sizes # {}
    BY shareType
  <2> HIDE DEF sizes
  <2> QED
    BY <2>1, LeastNumber
<1> DEFINE small == {g \in groups : share(shards, g) = m}
<1>3. PICK g \in small : \A h \in small : g <= h
  <2>1. small \subseteq Nat /\ small # {}
    BY <1>1, <1>2
  <2> HIDE DEF small
  <2> QED
    BY <2>1, LeastNumber
<1>4. \A h \in groups :
        \/ share(shards, g) < share(shards, h)
        \/ share(shards, g) = share(shards, h) /\ g <= h
  BY <1>2, <1>3, shareType
<1>5. minGroup(shards, groups) \in groups
      /\ \A h \in groups :
            \/ share(shards, minGroup(shards, groups)) < share(shards, h)
            \/ /\ share(shards, minGroup(shards, groups)) = share(shards, h)
               /\ minGroup(shards, groups) <= h
  BY <1>3, <1>4, Zenon DEF minGroup
<1> QED
  BY <1>5, shareType

LEMMA maxGroupOK ==
    ASSUME NEW shards \in Shards, NEW groups \in SUBSET Gid, groups # {}
    PROVE  /\ maxGroup(shards, groups) \in groups
           /\ \A h \in groups : share(shards, maxGroup(shards, groups)) >= share(shards, h)
<1>1. groups \subseteq Nat
  BY GroupsFinite
<1> DEFINE sizes == {NShards - share(shards, g) : g \in groups}
<1>2. PICK m \in sizes : \A n \in sizes : m <= n
  <2>1. sizes \subseteq Nat /\ sizes # {}
    BY shareType, ShardsAssumption
  <2> HIDE DEF sizes
  <2> QED
    BY <2>1, LeastNumber
<1> DEFINE large == {g \in groups : NShards - share(shards, g) = m}
<1>3. PICK g \in large : \A h \in large : g <= h
  <2>1. large \subseteq Nat /\ large # {}
    BY <1>1, <1>2
  <2> HIDE DEF large
  <2> QED
    BY <2>1, LeastNumber
<1>4. \A h \in groups :
        \/ share(shards, g) > share(shards, h)
        \/ share(shards, g) = share(shards, h) /\ g <= h
  <2>1. SUFFICES ASSUME NEW h \in groups
                 PROVE  \/ share(shards, g) > share(shards, h)
                        \/ share(shards, g) = share(shards, h) /\ g <= h
    OBVIOUS
  <2>2. share(shards, h) \in Nat /\ share(shards, g) \in Nat /\ NShards \in Nat
    BY shareType, ShardsAssumption
  <2>3. NShards - share(shards, g) = m
    BY <1>3
  <2>4. m <= NShards - share(shards, h)
    BY <1>2
  <2>5. NShards - share(shards, h) = m => g <= h
    BY <1>3
  <2> QED
    BY <2>2, <2>3, <2>4, <2>5
<1>5. maxGroup(shards, groups) \in groups
      /\ \A h \in groups :
            \/ share(shards, maxGroup(shards, groups)) > share(shards, h)
            \/ /\ share(shards, maxGroup(shards, groups)) = share(shards, h)
               /\ maxGroup(shards, groups) <= h
  BY <1>3, <1>4, Zenon DEF maxGroup
<1> QED
  BY <1>5, shareType

-----------------------------------------------------------------------------
(* One round of the loop *)

(* While the shares are uneven a shard of the largest group goes to the smallest. *)
LEMMA moveOneOK ==
    ASSUME NEW shards \in Shards, NEW groups \in SUBSET Gid, groups # {},
           uneven(shards, groups)
    PROVE  LET from == maxGroup(shards, groups)
               to == minGroup(shards, groups)
               new == moveOne(shards, groups)
           IN
           /\ from \in groups /\ to \in groups /\ from # to
           /\ share(shards, to) + 2 <= share(shards, from)
           /\ new \in Shards
           /\ \E k \in Shard : shards[k] = from /\ new = [shards EXCEPT ![k] = to]
           /\ share(new, to) = share(shards, to) + 1
           /\ share(new, from) = share(shards, from) - 1
           /\ \A g : g # to /\ g # from => share(new, g) = share(shards, g)
<1> DEFINE from == maxGroup(shards, groups)
           to == minGroup(shards, groups)
           first(n) == shards[n] = from /\ \A h \in 0 .. n - 1 : shards[h] # from
           k == CHOOSE n \in Shard : first(n)
<1>1. from \in groups /\ to \in groups
  BY minGroupOK, maxGroupOK
<1>2. share(shards, to) + 2 <= share(shards, from) /\ from # to
  BY shareType DEF uneven
<1>3. k \in Shard /\ shards[k] = from
  <2>1. holding(shards, from) # {} /\ holding(shards, from) \subseteq Nat
    <3>1. share(shards, from) > 0
      BY <1>2, shareType
    <3>2. \E n \in Shard : shards[n] = from
      BY <3>1, shareType
    <3> QED
      BY <3>2, ShardFacts, Zenon DEF holding
  <2>2. PICK n \in holding(shards, from) : \A h \in holding(shards, from) : n <= h
    BY <2>1, LeastNumber
  <2>3. n \in Shard /\ shards[n] = from
    BY <2>2 DEF holding
  <2>4. ASSUME NEW h \in 0 .. n - 1 PROVE shards[h] # from
    <3>1. h \in Shard /\ ~ (n <= h)
      BY <2>3, ShardFacts
    <3> QED
      BY <2>2, <3>1 DEF holding
  <2>5. first(n)
    BY <2>3, <2>4
  <2>6. k \in Shard /\ first(k)
    <3> HIDE DEF first
    <3> QED
      BY <2>3, <2>5, Zenon
  <2> QED
    BY <2>6
<1>4. moveOne(shards, groups) = [shards EXCEPT ![k] = to]
  BY Zenon DEF moveOne
<1> HIDE DEF k
<1>5. to \in Gid \cup {0} /\ shards[k] # to
  BY <1>1, <1>2, <1>3
<1> DEFINE new == moveOne(shards, groups)
<1> HIDE DEF to, from
<1>6. /\ new \in Shards
      /\ share(new, to) = share(shards, to) + 1
      /\ share(new, from) = share(shards, from) - 1
      /\ \A g : g # to /\ g # from => share(new, g) = share(shards, g)
  <2> DEFINE moved == [shards EXCEPT ![k] = to]
  <2>1. /\ moved \in Shards
        /\ share(moved, to) = share(shards, to) + 1
        /\ share(moved, shards[k]) = share(shards, shards[k]) - 1
        /\ \A g : g # to /\ g # shards[k] => share(moved, g) = share(shards, g)
    BY <1>3, <1>5, shareMove, Zenon
  <2> HIDE DEF moved
  <2> QED
    BY <1>3, <1>4, <2>1, Zenon DEF moved
<1>7. \E n \in Shard : shards[n] = from /\ new = [shards EXCEPT ![n] = to]
  BY <1>3, <1>4, Zenon
<1> QED
  BY <1>1, <1>2, <1>6, <1>7, Zenon DEF from, to

-----------------------------------------------------------------------------
(* The loop ends: the largest share shrinks, or fewer groups have it. *)

largest(shards, groups) == share(shards, maxGroup(shards, groups))
top(shards, groups) == {g \in groups : share(shards, g) = largest(shards, groups)}

rank(shards, groups) ==
    largest(shards, groups) * (Cardinality(groups) + 1) + Cardinality(top(shards, groups))

LEMMA topFacts ==
    ASSUME NEW shards \in Shards, NEW groups \in SUBSET Gid, groups # {}
    PROVE  /\ largest(shards, groups) \in Nat /\ largest(shards, groups) <= NShards
           /\ \A g \in groups : share(shards, g) <= largest(shards, groups)
           /\ IsFiniteSet(top(shards, groups))
           /\ Cardinality(top(shards, groups)) \in 1 .. Cardinality(groups)
<1>1. /\ largest(shards, groups) \in Nat /\ largest(shards, groups) <= NShards
      /\ \A g \in groups : share(shards, g) <= largest(shards, groups)
  BY maxGroupOK, shareType DEF largest
<1>2. top(shards, groups) \in SUBSET groups /\ maxGroup(shards, groups) \in top(shards, groups)
  BY maxGroupOK DEF top, largest
<1>3. /\ IsFiniteSet(top(shards, groups))
      /\ Cardinality(top(shards, groups)) <= Cardinality(groups)
      /\ Cardinality(top(shards, groups)) \in Nat
      /\ Cardinality(top(shards, groups)) # 0
  BY <1>2, GroupsFinite, FS_Subset, FS_CardinalityType, FS_EmptySet
<1> QED
  BY <1>1, <1>3, GroupsFinite

LEMMA Multiples ==
    ASSUME NEW a \in Nat, NEW b \in Nat, NEW c \in Nat, a <= b
    PROVE  a * c <= b * c
  OBVIOUS

LEMMA rankType ==
    ASSUME NEW shards \in Shards, NEW groups \in SUBSET Gid, groups # {}
    PROVE  rank(shards, groups) \in 1 .. NShards * (Cardinality(groups) + 1) + Cardinality(groups)
<1> DEFINE G == Cardinality(groups)
           M == largest(shards, groups)
           T == Cardinality(top(shards, groups))
<1>1. G \in Nat /\ M \in Nat /\ M <= NShards /\ T \in 1 .. G /\ NShards \in Nat
  BY topFacts, GroupsFinite, ShardsAssumption
<1> HIDE DEF G, M, T
<1>2. M * (G + 1) <= NShards * (G + 1) /\ M * (G + 1) \in Nat /\ NShards * (G + 1) \in Nat
  BY <1>1, Multiples
<1> DEFINE x == M * (G + 1)
           y == NShards * (G + 1)
<1> HIDE DEF x, y
<1>3. x + T \in 1 .. y + G
  BY <1>1, <1>2 DEF x, y
<1> QED
  BY <1>3 DEF rank, G, M, T, x, y

LEMMA rankDecreases ==
    ASSUME NEW shards \in Shards, NEW groups \in SUBSET Gid, groups # {},
           uneven(shards, groups)
    PROVE  rank(moveOne(shards, groups), groups) < rank(shards, groups)
<1> DEFINE new == moveOne(shards, groups)
           from == maxGroup(shards, groups)
           to == minGroup(shards, groups)
           G == Cardinality(groups)
           M == largest(shards, groups)
           T == Cardinality(top(shards, groups))
           N == largest(new, groups)
           U == Cardinality(top(new, groups))
<1>0. new \in Shards
  BY moveOneOK
<1>1. G \in Nat /\ M \in Nat /\ T \in 1 .. G /\ N \in Nat /\ U \in 1 .. G
  BY <1>0, topFacts, GroupsFinite
<1>2. /\ from \in groups /\ share(shards, from) = M
      /\ share(new, from) = M - 1
      /\ share(new, to) <= M - 1
      /\ \A g : g # to /\ g # from => share(new, g) = share(shards, g)
  BY <1>1, moveOneOK, shareType DEF largest
<1>3. \A g \in groups : share(new, g) <= M /\ (share(new, g) = M => share(shards, g) = M /\ g # from)
  BY <1>1, <1>2, topFacts, shareType
<1>4. N <= M
  BY <1>0, <1>3, maxGroupOK DEF largest
<1>5. CASE N = M
  <2>1. top(new, groups) \in SUBSET (top(shards, groups) \ {from})
    BY <1>3, <1>5 DEF top
  <2>2. from \in top(shards, groups)
    BY <1>2 DEF top
  <2>3. IsFiniteSet(top(shards, groups))
    BY topFacts
  <2>4. /\ IsFiniteSet(top(shards, groups) \ {from})
        /\ Cardinality(top(shards, groups) \ {from}) = T - 1
    BY <2>2, <2>3, FS_RemoveElement
  <2>5. U <= T - 1
    BY <2>1, <2>4, FS_Subset
  <2> HIDE DEF G, M, T, N, U, new
  <2>6. M * (G + 1) \in Nat
    BY <1>1
  <2>7. M * (G + 1) + U < M * (G + 1) + T
    BY <1>1, <2>5, <2>6
  <2> QED
    BY <1>5, <2>7 DEF rank, G, M, T, N, U, new
<1>6. CASE N # M
  <2> HIDE DEF G, M, T, N, U, new
  <2>1. N \in Nat /\ M - 1 \in Nat /\ N <= M - 1
    BY <1>1, <1>4, <1>6
  <2>2. N * (G + 1) <= (M - 1) * (G + 1)
    BY <1>1, <2>1, Multiples
  <2>3. (M - 1) * (G + 1) = M * (G + 1) - (G + 1)
    BY <1>1
  <2>4. N * (G + 1) \in Nat /\ M * (G + 1) \in Nat
    BY <1>1
  <2> DEFINE x == N * (G + 1)
             y == M * (G + 1)
  <2>5. x <= y - (G + 1) /\ x \in Nat /\ y \in Nat
    BY <2>2, <2>3, <2>4
  <2> HIDE DEF x, y
  <2>6. x + U < y + T
    BY <1>1, <2>5
  <2> QED
    BY <2>6 DEF rank, G, M, T, N, U, new, x, y
<1> QED
  BY <1>5, <1>6

loopStep(f, s, groups) == IF uneven(s, groups) THEN f[moveOne(s, groups)] ELSE s

(* There is a function that satisfies the recursion, so redistribution does. *)
LEMMA redistributionDef ==
    ASSUME NEW groups \in SUBSET Gid, groups # {}
    PROVE  redistribution(groups) =
              [s \in Shards |-> loopStep(redistribution(groups), s, groups)]
<1> DEFINE B == NShards * (Cardinality(groups) + 1) + Cardinality(groups)
           S == {m \in Nat : \E f : \A s \in Shards :
                    rank(s, groups) <= m => f[s] = loopStep(f, s, groups)}
<1>0. /\ B \in Nat
      /\ \A s \in Shards : rank(s, groups) \in 1 .. B
      /\ \A s \in Shards : uneven(s, groups) =>
            moveOne(s, groups) \in Shards /\ rank(moveOne(s, groups), groups) < rank(s, groups)
  <2>1. B \in Nat
    BY ShardsAssumption, GroupsFinite
  <2> HIDE DEF B
  <2> QED
    BY <2>1, rankType, rankDecreases, moveOneOK DEF B
<1> HIDE DEF B
<1>1. 0 \in S
  <2>1. \A s \in Shards : ~ (rank(s, groups) <= 0)
    BY <1>0
  <2> QED
    BY <2>1
<1>2. ASSUME NEW m \in 0 .. B - 1, m \in S PROVE m + 1 \in S
  <2>1. PICK f : \A s \in Shards : rank(s, groups) <= m => f[s] = loopStep(f, s, groups)
    BY <1>2
  <2> DEFINE g == [s \in Shards |-> loopStep(f, s, groups)]
  <2>2. ASSUME NEW s \in Shards, rank(s, groups) <= m + 1
        PROVE  g[s] = loopStep(g, s, groups)
    <3>1. CASE ~ uneven(s, groups)
      BY <3>1 DEF loopStep
    <3>2. CASE uneven(s, groups)
      <4> DEFINE t == moveOne(s, groups)
      <4>1. t \in Shards /\ rank(t, groups) <= m
        BY <1>0, <2>2, <3>2
      <4>2. g[t] = f[t]
        BY <2>1, <4>1
      <4>3. g[s] = f[t]
        BY <3>2 DEF loopStep
      <4> QED
        BY <3>2, <4>2, <4>3 DEF loopStep
    <3> QED
      BY <3>1, <3>2
  <2> HIDE DEF g
  <2> QED
    BY <2>2
<1>3. B \in S
  <2> HIDE DEF S
  <2>1. \A m \in 0 .. B : m \in S
    BY <1>0, <1>1, <1>2, InductionUpTo
  <2> QED
    BY <1>0, <2>1
<1>4. PICK f : \A s \in Shards : f[s] = loopStep(f, s, groups)
  BY <1>0, <1>3
<1> DEFINE g == [s \in Shards |-> f[s]]
<1>5. g = [s \in Shards |-> loopStep(g, s, groups)]
  <2>1. ASSUME NEW s \in Shards PROVE g[s] = loopStep(g, s, groups)
    BY <1>0, <1>4 DEF loopStep
  <2> QED
    BY <2>1
<1> HIDE DEF g
<1>6. \E h : h = [s \in Shards |-> loopStep(h, s, groups)]
  BY <1>5
<1> QED
  BY <1>6 DEF redistribution, loopStep

(* What every round keeps holds at the end, and the shares are even then. *)
LEMMA redistributionEnds ==
    ASSUME NEW groups \in SUBSET Gid, groups # {}, NEW P, P \subseteq Shards,
           \A s \in P : uneven(s, groups) => moveOne(s, groups) \in P
    PROVE  \A s \in P : /\ redistribution(groups)[s] \in P
                        /\ ~ uneven(redistribution(groups)[s], groups)
<1> DEFINE B == NShards * (Cardinality(groups) + 1) + Cardinality(groups)
           loop == redistribution(groups)
           S == {m \in Nat : \A s \in P : rank(s, groups) <= m =>
                    loop[s] \in P /\ ~ uneven(loop[s], groups)}
<1>0. /\ B \in Nat
      /\ \A s \in P : rank(s, groups) \in 1 .. B
      /\ \A s \in P : uneven(s, groups) => rank(moveOne(s, groups), groups) < rank(s, groups)
  <2>1. B \in Nat
    BY ShardsAssumption, GroupsFinite
  <2> HIDE DEF B
  <2> QED
    BY <2>1, rankType, rankDecreases DEF B
<1> HIDE DEF B
<1>1. \A s \in P : loop[s] = IF uneven(s, groups) THEN loop[moveOne(s, groups)] ELSE s
  <2>1. loop = [s \in Shards |-> loopStep(loop, s, groups)]
    BY redistributionDef
  <2> HIDE DEF loop
  <2> QED
    BY <2>1 DEF loopStep
<1> HIDE DEF loop
<1>2. 0 \in S
  <2>1. \A s \in P : ~ (rank(s, groups) <= 0)
    BY <1>0
  <2> QED
    BY <2>1
<1>3. ASSUME NEW m \in 0 .. B - 1, m \in S PROVE m + 1 \in S
  <2>1. ASSUME NEW s \in P, rank(s, groups) <= m + 1
        PROVE  loop[s] \in P /\ ~ uneven(loop[s], groups)
    <3>1. CASE ~ uneven(s, groups)
      BY <1>1, <3>1
    <3>2. CASE uneven(s, groups)
      <4> DEFINE t == moveOne(s, groups)
      <4>1. t \in P
        BY <3>2
      <4>2. rank(t, groups) <= m
        BY <1>0, <2>1, <3>2, <4>1
      <4>3. loop[t] \in P /\ ~ uneven(loop[t], groups)
        BY <1>3, <4>1, <4>2
      <4>4. loop[s] = loop[t]
        BY <1>1, <3>2
      <4> QED
        BY <4>3, <4>4
    <3> QED
      BY <3>1, <3>2
  <2> QED
    BY <2>1
<1>4. B \in S
  <2> HIDE DEF S
  <2>1. \A m \in 0 .. B : m \in S
    BY <1>0, <1>2, <1>3, InductionUpTo
  <2> QED
    BY <1>0, <2>1
<1> QED
  BY <1>0, <1>4 DEF loop

-----------------------------------------------------------------------------
(* What the loop ends with *)

LEMMA evenAtEnd ==
    ASSUME NEW shards \in Shards, NEW groups \in SUBSET Gid, groups # {},
           ~ uneven(shards, groups)
    PROVE  Balanced(shards, groups)
<1> SUFFICES ASSUME NEW g \in groups, NEW h \in groups
             PROVE  share(shards, g) - share(shards, h) <= 1
  BY DEF Balanced
<1>1. share(shards, maxGroup(shards, groups)) >= share(shards, g)
  BY maxGroupOK
<1>2. share(shards, minGroup(shards, groups)) <= share(shards, h)
  BY minGroupOK
<1>3. ~ (share(shards, maxGroup(shards, groups)) - share(shards, minGroup(shards, groups)) > 1)
  BY DEF uneven
<1> QED
  BY <1>1, <1>2, <1>3, shareType

LEMMA FewGroups ==
    ASSUME NEW shards, NEW groups \in SUBSET Gid, groups # {}, ~ (Cardinality(groups) > 1)
    PROVE  Balanced(shards, groups)
<1>1. IsFiniteSet(groups) /\ Cardinality(groups) = 1
  BY GroupsFinite
<1>2. PICK g : groups = {g}
  BY <1>1, FS_Singleton
<1>3. share(shards, g) - share(shards, g) = 0
  BY shareType
<1> QED
  BY <1>2, <1>3 DEF Balanced

(* Shards go from groups to groups. *)
LEMMA redistributeShardsOK ==
    ASSUME NEW shards \in Shards, NEW groups \in SUBSET Gid, groups # {}
    PROVE  LET new == redistributeShards(shards, groups) IN
           /\ new \in Shards
           /\ Balanced(new, groups)
           /\ \A k \in Shard : new[k] \in groups \/ new[k] = shards[k]
<1>1. CASE ~ (Cardinality(groups) > 1)
  BY <1>1, FewGroups DEF redistributeShards
<1>2. CASE Cardinality(groups) > 1
  <2> DEFINE P == {s \in Shards : \A k \in Shard : s[k] \in groups \/ s[k] = shards[k]}
             new == redistribution(groups)[shards]
  <2>1. ASSUME NEW s \in P, uneven(s, groups) PROVE moveOne(s, groups) \in P
    <3>1. PICK k \in Shard : moveOne(s, groups) = [s EXCEPT ![k] = minGroup(s, groups)]
      BY <2>1, moveOneOK, Zenon
    <3>2. minGroup(s, groups) \in groups /\ moveOne(s, groups) \in Shards
      BY <2>1, moveOneOK, Zenon
    <3>3. \A h \in Shard : moveOne(s, groups)[h] = IF h = k THEN minGroup(s, groups) ELSE s[h]
      BY <3>1 DEF Shards
    <3> QED
      BY <3>2, <3>3
  <2>2. shards \in P /\ P \subseteq Shards
    OBVIOUS
  <2>3. new \in P /\ ~ uneven(new, groups)
    <3> HIDE DEF P
    <3> QED
      BY <2>1, <2>2, redistributionEnds
  <2>4. Balanced(new, groups)
    BY <2>3, evenAtEnd
  <2>5. redistributeShards(shards, groups) = new
    BY <1>2 DEF redistributeShards
  <2> HIDE DEF new
  <2> QED
    BY <2>3, <2>4, <2>5
<1> QED
  BY <1>1, <1>2

(* What Join and Leave end with is an assignment again, even when no group is left. *)
LEMMA RebalanceType ==
    ASSUME NEW shards \in Shards, NEW groups \in SUBSET Gid
    PROVE  rebalance(shards, groups) \in Shards
<1>1. CASE groups = {}
  <2>1. ~ (Cardinality(groups) > 1)
    BY <1>1, FS_EmptySet
  <2> QED
    BY <1>1, <2>1 DEF rebalance, redistributeShards, assignVoidShards
<1>2. CASE groups # {}
  <2>1. assignVoidShards(shards, groups) \in Shards
    BY <1>2, assignVoidShardsOK
  <2> QED
    BY <1>2, <2>1, redistributeShardsOK DEF rebalance
<1> QED
  BY <1>1, <1>2

(* The shares of the groups are even, and every shard has a group, unless it had been
   moved to one that is not there. *)
LEMMA rebalanceOK ==
    ASSUME NEW shards \in Shards, NEW groups \in SUBSET Gid, groups # {}
    PROVE  LET new == rebalance(shards, groups) IN
           /\ new \in Shards
           /\ Balanced(new, groups)
           /\ \A k \in Shard :
                 new[k] \in groups \/ (new[k] = shards[k] /\ shards[k] \notin groups \cup {0})
<1> DEFINE dealt == assignVoidShards(shards, groups)
           new == rebalance(shards, groups)
<1>1. /\ dealt \in Shards
      /\ \A k \in Shard : IF shards[k] = 0 THEN dealt[k] \in groups ELSE dealt[k] = shards[k]
  BY assignVoidShardsOK
<1>2. new = redistributeShards(dealt, groups)
  BY DEF rebalance
<1> HIDE DEF dealt, new
<1>3. /\ new \in Shards /\ Balanced(new, groups)
      /\ \A k \in Shard : new[k] \in groups \/ new[k] = dealt[k]
  BY <1>1, <1>2, redistributeShardsOK
<1> QED
  BY <1>1, <1>3 DEF new

(* When the shares of the old groups are even and all shards are theirs, the group with
   the least shards is a new one as long as the loop runs. *)
LEMMA joinOK ==
    ASSUME NEW shards \in Shards, NEW old \in SUBSET Gid, NEW gids \in SUBSET (Gid \ old),
           Balanced(shards, old), \A k \in Shard : shards[k] \in old
    PROVE  \A k \in Shard : rebalance(shards, old \cup gids)[k] \in {shards[k]} \cup gids
<1> DEFINE groups == old \cup gids
           fits(s) == /\ \A k \in Shard : s[k] = shards[k] \/ s[k] \in gids
                      /\ Balanced(s, old)
                      /\ \A g \in gids, h \in old : share(s, g) <= share(s, h) + 1
           P == {s \in Shards : fits(s)}
<1>0. groups \in SUBSET Gid /\ groups # {} /\ 0 \notin old
  <2>1. 0 \in Shard
    BY ShardsAssumption DEF Shard
  <2> QED
    BY <2>1, GroupsFinite
<1>1. assignVoidShards(shards, groups) = shards
  <2> DEFINE dealt == assignVoidShards(shards, groups)
  <2>1. dealt \in Shards /\ \A k \in Shard : shards[k] # 0 => dealt[k] = shards[k]
    BY <1>0, assignVoidShardsOK
  <2> HIDE DEF dealt
  <2>2. \A k \in Shard : dealt[k] = shards[k]
    BY <1>0, <2>1
  <2>3. dealt = shards
    BY <2>1, <2>2 DEF Shards
  <2> QED
    BY <2>3 DEF dealt
<1>2. rebalance(shards, groups) = redistributeShards(shards, groups)
  BY <1>1 DEF rebalance
<1> HIDE DEF groups
<1>3. CASE ~ (Cardinality(groups) > 1)
  BY <1>2, <1>3 DEF redistributeShards, groups
<1>4. CASE Cardinality(groups) > 1
  <2>1. shards \in P /\ P \subseteq Shards
    <3>1. ASSUME NEW g \in gids PROVE share(shards, g) = 0
      <4>1. ~ \E k \in Shard : shards[k] = g
        OBVIOUS
      <4> QED
        BY <4>1, shareType
    <3> QED
      BY <3>1, shareType
  <2>2. ASSUME NEW s \in P, uneven(s, groups) PROVE moveOne(s, groups) \in P
    <3> DEFINE t == moveOne(s, groups)
               from == maxGroup(s, groups)
               to == minGroup(s, groups)
    <3>0. s \in Shards /\ fits(s)
      OBVIOUS
    <3>1. /\ from \in groups /\ to \in groups /\ from # to
          /\ share(s, to) + 2 <= share(s, from)
          /\ t \in Shards
          /\ share(t, to) = share(s, to) + 1
          /\ share(t, from) = share(s, from) - 1
          /\ \A g : g # to /\ g # from => share(t, g) = share(s, g)
      BY <1>0, <2>2, <3>0, moveOneOK, Zenon
    <3>2. PICK k \in Shard : s[k] = from /\ t = [s EXCEPT ![k] = to]
      BY <1>0, <2>2, <3>0, moveOneOK, Zenon
    <3>3. \A h \in groups : share(s, to) <= share(s, h) /\ share(s, h) <= share(s, from)
      BY <1>0, <3>0, minGroupOK, maxGroupOK
    <3>4. \A h \in Shard : t[h] = IF h = k THEN to ELSE s[h]
      BY <3>0, <3>2 DEF Shards
    <3> HIDE DEF t, from, to
    <3>n. \A g : share(s, g) \in Nat /\ share(t, g) \in Nat
      BY shareType
    <3>5. to \in gids
      <4> SUFFICES ASSUME to \in old PROVE FALSE
        BY <3>1 DEF groups
      <4>1. CASE from \in old
        BY <3>0, <3>1, <3>n, <4>1 DEF Balanced
      <4>2. CASE from \in gids
        BY <3>0, <3>1, <3>n, <4>2
      <4> QED
        BY <3>1, <4>1, <4>2 DEF groups
    <3>6. \A h \in Shard : t[h] = shards[h] \/ t[h] \in gids
      BY <3>0, <3>4, <3>5
    <3>7. Balanced(t, old)
      <4> SUFFICES ASSUME NEW g \in old, NEW h \in old PROVE share(t, g) - share(t, h) <= 1
        BY DEF Balanced
      <4>1. share(s, g) - share(s, h) <= 1 /\ g # to /\ h # to
        BY <3>0, <3>5 DEF Balanced
      <4>2. share(s, g) <= share(s, from)
        BY <3>3 DEF groups
      <4> QED
        BY <3>1, <3>n, <4>1, <4>2
    <3>8. \A g \in gids, h \in old : share(t, g) <= share(t, h) + 1
      <4> SUFFICES ASSUME NEW g \in gids, NEW h \in old PROVE share(t, g) <= share(t, h) + 1
        OBVIOUS
      <4>1. h # to /\ share(s, g) <= share(s, h) + 1
        BY <3>0, <3>5
      <4>2. share(s, g) <= share(s, from) /\ share(s, to) <= share(s, h)
        BY <3>3 DEF groups
      <4> QED
        BY <3>1, <3>n, <4>1, <4>2
    <3> QED
      BY <3>1, <3>6, <3>7, <3>8 DEF t
  <2>3. redistribution(groups)[shards] \in P
    <3> HIDE DEF P
    <3> QED
      BY <1>0, <2>1, <2>2, redistributionEnds
  <2> QED
    BY <1>2, <1>4, <2>3 DEF redistributeShards, groups
<1> QED
  BY <1>3, <1>4

-----------------------------------------------------------------------------
(* From one configuration to the next *)

LEMMA initialConfigOK == initialConfig \in Config
  BY ShardsAssumption DEF initialConfig, Config, Shards, Shard

(* op changes the configuration, and names what there is *)
IsChange(op) ==
    \/ op.Type \in {"JOIN", "LEAVE"} /\ op.GIDs \in SUBSET Gid
    \/ op.Type = "MOVE" /\ op.Shard \in Shard /\ op.GID \in Gid

(* Join, Leave and Move make one configuration, with the next number. *)
LEMMA nextConfigsFit ==
    ASSUME NEW config \in Config, NEW op, IsChange(op)
    PROVE  \E c \in Config : nextConfigs(config, op) = <<c>> /\ c.Num = config.Num + 1
<1>0. config.Num \in Nat /\ config.Shards \in Shards /\ config.Groups \in SUBSET Gid
  BY DEF Config
<1>1. CASE op.Type = "JOIN"
  <2> DEFINE c == handleJoin(config, op.GIDs)
  <2>1. op.GIDs \in SUBSET Gid
    BY <1>1 DEF IsChange
  <2>2. rebalance(config.Shards, config.Groups \cup op.GIDs) \in Shards
    BY <1>0, <2>1, RebalanceType
  <2>3. c \in Config /\ c.Num = config.Num + 1
    BY <1>0, <2>1, <2>2 DEF handleJoin, Config
  <2>4. nextConfigs(config, op) = <<c>>
    BY <1>1 DEF nextConfigs
  <2> QED
    BY <2>3, <2>4
<1>2. CASE op.Type = "LEAVE"
  <2> DEFINE c == handleLeave(config, op.GIDs)
             left == [k \in Shard |-> IF config.Shards[k] \in op.GIDs THEN 0 ELSE config.Shards[k]]
  <2>1. op.GIDs \in SUBSET Gid
    BY <1>2 DEF IsChange
  <2>2. left \in Shards
    BY <1>0 DEF Shards
  <2>3. rebalance(left, config.Groups \ op.GIDs) \in Shards
    <3> HIDE DEF left
    <3> QED
      BY <1>0, <2>1, <2>2, RebalanceType
  <2>4. c = [Num |-> config.Num + 1, Groups |-> config.Groups \ op.GIDs,
             Shards |-> rebalance(left, config.Groups \ op.GIDs)]
    BY DEF handleLeave
  <2>5. c \in Config /\ c.Num = config.Num + 1
    <3> HIDE DEF left
    <3> QED
      BY <1>0, <2>3, <2>4 DEF Config
  <2>6. nextConfigs(config, op) = <<c>>
    BY <1>2 DEF nextConfigs
  <2> QED
    BY <2>5, <2>6
<1>3. CASE op.Type = "MOVE"
  <2> DEFINE c == handleMove(config, op.Shard, op.GID)
  <2>1. op.Shard \in Shard /\ op.GID \in Gid
    BY <1>3 DEF IsChange
  <2> DEFINE moved == [config.Shards EXCEPT ![op.Shard] = op.GID]
  <2>2. moved \in Shards
    BY <1>0, <2>1 DEF Shards
  <2>3. c = [Num |-> config.Num + 1, Groups |-> config.Groups, Shards |-> moved]
    BY DEF handleMove
  <2>4. c \in Config /\ c.Num = config.Num + 1
    <3> HIDE DEF moved, c
    <3> QED
      BY <1>0, <2>2, <2>3 DEF Config
  <2>5. nextConfigs(config, op) = <<c>>
    BY <1>3 DEF nextConfigs
  <2> QED
    BY <2>4, <2>5
<1> QED
  BY <1>1, <1>2, <1>3 DEF IsChange

LEMMA nextConfigsOK ==
    ASSUME NEW config \in Config, NEW op \in CtrlerOp
    PROVE  \E c \in Config : nextConfigs(config, op) = <<c>> /\ c.Num = config.Num + 1
<1>1. IsChange(op)
  BY DEF CtrlerOp, IsChange
<1> QED
  BY <1>1, nextConfigsFit

(* handleJoin and handleLeave: whatever configuration Moves have made, after a Join or
   a Leave the shares of the groups differ by at most one, and the only shards without
   one of the groups are those that had been moved to a group that was not there. *)
THEOREM RebalancesWell == \A old \in Config : rebalancesWell(old)
<1> SUFFICES ASSUME NEW old \in Config PROVE rebalancesWell(old)
  OBVIOUS
<1>0. old.Shards \in Shards /\ old.Groups \in SUBSET Gid
  BY DEF Config
<1> DEFINE good(config) ==
              config.Groups # {} =>
              /\ Balanced(config.Shards, config.Groups)
              /\ \A k \in Shard :
                    \/ config.Shards[k] \in config.Groups
                    \/ /\ config.Shards[k] = old.Shards[k]
                       /\ old.Shards[k] \notin old.Groups \cup {0}
<1>1. ASSUME NEW gids \in SUBSET (Gid \ old.Groups) PROVE good(handleJoin(old, gids))
  <2> DEFINE config == handleJoin(old, gids)
  <2>1. /\ config.Groups = old.Groups \cup gids
        /\ config.Shards = rebalance(old.Shards, config.Groups)
    BY DEF handleJoin
  <2> HIDE DEF config
  <2>2. SUFFICES ASSUME config.Groups # {}
                 PROVE  /\ Balanced(config.Shards, config.Groups)
                        /\ \A k \in Shard :
                              \/ config.Shards[k] \in config.Groups
                              \/ /\ config.Shards[k] = old.Shards[k]
                                 /\ old.Shards[k] \notin old.Groups \cup {0}
    BY DEF config
  <2>3. config.Groups \in SUBSET Gid
    BY <1>0, <2>1
  <2> QED
    BY <1>0, <2>1, <2>2, <2>3, rebalanceOK
<1>2. ASSUME NEW gids \in SUBSET old.Groups PROVE good(handleLeave(old, gids))
  <2> DEFINE config == handleLeave(old, gids)
             left == [k \in Shard |-> IF old.Shards[k] \in gids THEN 0 ELSE old.Shards[k]]
  <2>1. /\ config.Groups = old.Groups \ gids
        /\ config.Shards = rebalance(left, config.Groups)
    BY DEF handleLeave
  <2>2. /\ left \in Shards
        /\ \A k \in Shard : left[k] = IF old.Shards[k] \in gids THEN 0 ELSE old.Shards[k]
    BY <1>0 DEF Shards
  <2> HIDE DEF config, left
  <2>3. SUFFICES ASSUME config.Groups # {}
                 PROVE  /\ Balanced(config.Shards, config.Groups)
                        /\ \A k \in Shard :
                              \/ config.Shards[k] \in config.Groups
                              \/ /\ config.Shards[k] = old.Shards[k]
                                 /\ old.Shards[k] \notin old.Groups \cup {0}
    BY DEF config
  <2>4. config.Groups \in SUBSET Gid
    BY <1>0, <2>1
  <2>5. /\ Balanced(config.Shards, config.Groups)
        /\ \A k \in Shard : \/ config.Shards[k] \in config.Groups
                            \/ config.Shards[k] = left[k] /\ left[k] \notin config.Groups \cup {0}
    BY <2>1, <2>2, <2>3, <2>4, rebalanceOK
  <2> QED
    BY <2>1, <2>2, <2>5
<1>3. rebalancesWell(old) <=>
        \A config \in {handleJoin(old, gids) : gids \in SUBSET (Gid \ old.Groups)}
                 \cup {handleLeave(old, gids) : gids \in (SUBSET old.Groups) \ {old.Groups}} :
           good(config)
  BY Zenon DEF rebalancesWell
<1> HIDE DEF good
<1> QED
  BY <1>1, <1>2, <1>3

(* handleJoin: when the groups have even shares of all shards, no shard goes from one
   of them to another. *)
THEOREM JoinsMinimally == \A old \in Config : joinsMinimally(old)
<1> SUFFICES ASSUME NEW old \in Config,
                    Balanced(old.Shards, old.Groups),
                    \A k \in Shard : old.Shards[k] \in old.Groups,
                    NEW gids \in SUBSET (Gid \ old.Groups), NEW k \in Shard
             PROVE  handleJoin(old, gids).Shards[k] \in {old.Shards[k]} \cup gids
  BY DEF joinsMinimally
<1>1. old.Shards \in Shards /\ old.Groups \in SUBSET Gid
  BY DEF Config
<1>2. handleJoin(old, gids).Shards = rebalance(old.Shards, old.Groups \cup gids)
  BY DEF handleJoin
<1> QED
  BY <1>1, <1>2, joinOK
=============================================================================

---------------------------- MODULE ReindexProofs ---------------------------
(* Reorganisations leave no trace in the indexed state and lose no action, *)
(* for chains and blocks of any length.                                    *)
EXTENDS Reindex, EngineProofs

Entries == [action : BlockActions, height : Nat]

(* A chain of n blocks. *)
IsChain(c, n) ==
    /\ n \in Nat
    /\ c \in [1 .. n -> Seq(BlockActions)]

LEMMA ChainsAreChains ==
    ASSUME NEW c \in Chains
    PROVE  c \in Seq(Seq(BlockActions)) /\ IsChain(c, Len(c))
<1>1. PICK n \in 0 .. MaxBlocks : c \in [1 .. n -> Blocks]
    BY DEF Chains
<1>2. Blocks \subseteq Seq(BlockActions)
    BY ReindexAssumption DEF Blocks
<1>3. n \in Nat
    BY ReindexAssumption
<1>4. c \in [1 .. n -> Seq(BlockActions)]
    BY <1>1, <1>2
<1> QED BY <1>3, <1>4 DEF IsChain

LEMMA EntriesOfBlock ==
    ASSUME NEW c, NEW n, IsChain(c, n), NEW height \in 1 .. n
    PROVE  EntriesOf(c, height) \in Seq(Entries)
<1>1. c[height] \in Seq(BlockActions) /\ height \in Nat
    BY DEF IsChain
<1>2. PICK m \in Nat : c[height] \in [1 .. m -> BlockActions]
    BY <1>1
<1>3. DOMAIN c[height] = 1 .. m /\ \A i \in 1 .. m : c[height][i] \in BlockActions
    BY <1>2
<1>4. \A i \in 1 .. m : [action |-> c[height][i], height |-> height] \in Entries
    BY <1>1, <1>3 DEF Entries
<1>5. EntriesOf(c, height) \in [1 .. m -> Entries]
    BY <1>3, <1>4 DEF EntriesOf
<1> QED BY <1>5

-----------------------------------------------------------------------------
(* What flatten computes, block by block. *)

IsListing(f, c, first, n) ==
    f = [height \in 0 .. n |->
           IF height < first THEN << >> ELSE f[height - 1] \o EntriesOf(c, height)]

LEMMA ListingExists ==
    ASSUME NEW c, NEW first \in Nat \ {0}, NEW n \in Nat
    PROVE  \E f : IsListing(f, c, first, n)
<1> DEFINE T == {m \in Nat : ~\E f : IsListing(f, c, first, m)}
<1> SUFFICES ASSUME T # {} PROVE FALSE
    OBVIOUS
<1>1. PICK m \in T : \A y \in T : m <= y
    <2> HIDE DEF T
    <2>1. T \subseteq Nat BY DEF T
    <2> QED BY <2>1, LeastNat
<1>2. m # 0
    <2> DEFINE f == [height \in 0 .. 0 |-> << >>]
    <2>1. IsListing(f, c, first, 0)
        BY DEF IsListing
    <2> QED BY <2>1
<1>3. m - 1 \in Nat /\ m - 1 \notin T
    BY <1>1, <1>2
<1>4. PICK f : IsListing(f, c, first, m - 1)
    BY <1>3
<1> DEFINE Further(g, k) == IF k < first THEN << >> ELSE g[k - 1] \o EntriesOf(c, k)
           g == [k \in 0 .. m |-> IF k = m THEN Further(f, m) ELSE f[k]]
<1>5. \A k \in 0 .. m - 1 : g[k] = f[k]
    BY <1>3
<1>6. \A k \in 0 .. m : g[k] = Further(g, k)
    <2> SUFFICES ASSUME NEW k \in 0 .. m PROVE g[k] = Further(g, k)
        OBVIOUS
    <2>1. CASE k = m
        <3>1. g[k] = Further(f, m)
            BY <2>1
        <3>2. g[m - 1] = f[m - 1]
            BY <1>3, <1>5
        <3> QED BY <2>1, <3>1, <3>2
    <2>2. CASE k # m
        <3>1. k \in 0 .. m - 1 /\ (~(k < first) => k - 1 \in 0 .. m - 1)
            BY <1>3, <2>2
        <3>2. f[k] = Further(f, k)
            BY <1>4, <3>1 DEF IsListing
        <3> HIDE DEF g
        <3> QED BY <1>5, <3>1, <3>2
    <2> QED BY <2>1, <2>2
<1>7. IsListing(g, c, first, m)
    <2>1. g = [k \in 0 .. m |-> g[k]]
        OBVIOUS
    <2> HIDE DEF g
    <2> QED BY <1>6, <2>1 DEF IsListing
<1> QED BY <1>7

LEMMA ListingsAgree ==
    ASSUME NEW c, NEW d, NEW first \in Nat \ {0}, NEW n \in Nat, NEW m \in Nat, n <= m,
           \A k \in first .. n : EntriesOf(c, k) = EntriesOf(d, k),
           NEW f, IsListing(f, c, first, n), NEW g, IsListing(g, d, first, m)
    PROVE  \A k \in 0 .. n : f[k] = g[k]
<1> DEFINE T == {k \in 0 .. n : f[k] # g[k]}
<1> SUFFICES ASSUME T # {} PROVE FALSE
    OBVIOUS
<1>1. PICK k \in T : \A y \in T : k <= y
    <2>1. T \subseteq Nat OBVIOUS
    <2> HIDE DEF T
    <2> QED BY <2>1, LeastNat
<1>2. k \in 0 .. n /\ k \in 0 .. m /\ f[k] # g[k]
    OBVIOUS
<1>3. f[k] = IF k < first THEN << >> ELSE f[k - 1] \o EntriesOf(c, k)
    BY <1>2 DEF IsListing
<1>4. g[k] = IF k < first THEN << >> ELSE g[k - 1] \o EntriesOf(d, k)
    BY <1>2 DEF IsListing
<1>5. ~(k < first)
    BY <1>2, <1>3, <1>4
<1>6. k - 1 \in 0 .. n /\ k - 1 \notin T /\ k \in first .. n
    BY <1>1, <1>2, <1>5
<1>7. f[k - 1] = g[k - 1] /\ EntriesOf(c, k) = EntriesOf(d, k)
    BY <1>6
<1> QED BY <1>2, <1>3, <1>4, <1>5, <1>7

(* flatten up to every height is one listing. *)
LEMMA FlattenIsListing ==
    ASSUME NEW c, NEW first \in Nat \ {0}, NEW n \in Nat, NEW f, IsListing(f, c, first, n),
           NEW k \in 0 .. n
    PROVE  flatten(c, first, k) = f[k]
<1> DEFINE upTo == CHOOSE g : IsListing(g, c, first, k)
<1>1. IsListing(upTo, c, first, k)
    BY ListingExists
<1>2. flatten(c, first, k) = upTo[k]
    BY DEF flatten, IsListing
<1> HIDE DEF upTo
<1>3. k \in Nat /\ k <= n /\ k \in 0 .. k
    OBVIOUS
<1>4. upTo[k] = f[k]
    BY <1>1, <1>3, ListingsAgree
<1> QED BY <1>2, <1>4

(* Nothing lies before the first block, and each further block adds its    *)
(* entries at the end.                                                     *)
LEMMA FlattenBlocks ==
    ASSUME NEW c, NEW first \in Nat \ {0}, NEW n \in Nat
    PROVE  flatten(c, first, n) =
             IF n < first THEN << >> ELSE flatten(c, first, n - 1) \o EntriesOf(c, n)
<1>1. PICK f : IsListing(f, c, first, n)
    BY ListingExists
<1>2. f[n] = IF n < first THEN << >> ELSE f[n - 1] \o EntriesOf(c, n)
    <2>1. n \in 0 .. n
        OBVIOUS
    <2> QED BY <1>1, <2>1 DEF IsListing
<1>3. flatten(c, first, n) = f[n]
    BY <1>1, FlattenIsListing
<1>4. ~(n < first) => n - 1 \in 0 .. n
    OBVIOUS
<1>5. \A k \in 0 .. n : flatten(c, first, k) = f[k]
    BY <1>1, FlattenIsListing
<1> QED BY <1>2, <1>3, <1>4, <1>5

(* Two chains with the same blocks up to n have the same entries there. *)
LEMMA FlattenShared ==
    ASSUME NEW c, NEW d, NEW n \in Nat, \A k \in 1 .. n : c[k] = d[k]
    PROVE  flatten(c, 1, n) = flatten(d, 1, n)
<1>1. PICK f : IsListing(f, c, 1, n)
    BY ListingExists
<1>2. PICK g : IsListing(g, d, 1, n)
    BY ListingExists
<1>3. \A k \in 1 .. n : EntriesOf(c, k) = EntriesOf(d, k)
    BY DEF EntriesOf
<1>4. f[n] = g[n]
    BY <1>1, <1>2, <1>3, ListingsAgree
<1>5. flatten(c, 1, n) = f[n] /\ flatten(d, 1, n) = g[n]
    BY <1>1, <1>2, FlattenIsListing
<1> QED BY <1>4, <1>5

(* The entries of blocks first .. n are a sequence of entries. *)
LEMMA FlattenType ==
    ASSUME NEW c, NEW len, IsChain(c, len), NEW first \in Nat \ {0}, NEW n \in 0 .. len
    PROVE  flatten(c, first, n) \in Seq(Entries)
<1> DEFINE T == {m \in 0 .. len : flatten(c, first, m) \notin Seq(Entries)}
<1> SUFFICES ASSUME T # {} PROVE FALSE
    OBVIOUS
<1>0. len \in Nat
    BY DEF IsChain
<1>1. PICK m \in T : \A y \in T : m <= y
    <2>1. T \subseteq Nat BY <1>0
    <2> HIDE DEF T
    <2> QED BY <2>1, LeastNat
<1>2. m \in Nat /\ m \in 0 .. len /\ flatten(c, first, m) \notin Seq(Entries)
    BY <1>0
<1>3. flatten(c, first, m) =
        IF m < first THEN << >> ELSE flatten(c, first, m - 1) \o EntriesOf(c, m)
    BY <1>2, FlattenBlocks
<1>4. ~(m < first)
    BY <1>2, <1>3
<1>5. m \in 1 .. len /\ m - 1 \in 0 .. len /\ m - 1 \notin T
    BY <1>0, <1>1, <1>2, <1>4
<1>6. flatten(c, first, m - 1) \in Seq(Entries)
    BY <1>5
<1>7. EntriesOf(c, m) \in Seq(Entries)
    BY <1>5, EntriesOfBlock
<1>8. flatten(c, first, m) = flatten(c, first, m - 1) \o EntriesOf(c, m)
    BY <1>3, <1>4
<1> HIDE DEF T
<1> QED BY <1>2, <1>6, <1>7, <1>8

(* A chain's entries fall apart at any block. *)
LEMMA FlattenSplits ==
    ASSUME NEW c, NEW len, IsChain(c, len), NEW n \in 0 .. len, NEW k \in 0 .. n
    PROVE  flatten(c, 1, n) = flatten(c, 1, k) \o flatten(c, k + 1, n)
<1> DEFINE j == k + 1
           Splits(m) == flatten(c, 1, m) = flatten(c, 1, k) \o flatten(c, j, m)
           T == {m \in k .. len : ~Splits(m)}
<1>0. len \in Nat /\ k \in Nat /\ j \in Nat \ {0} /\ k \in 0 .. len /\ n \in k .. len
    BY DEF IsChain
<1> SUFFICES ASSUME T # {} PROVE FALSE
    BY <1>0
<1>1. PICK m \in T : \A y \in T : m <= y
    <2>1. T \subseteq Nat BY <1>0
    <2> HIDE DEF T
    <2> QED BY <2>1, LeastNat
<1>2. m \in Nat /\ m \in 0 .. len /\ m \in k .. len /\ ~Splits(m)
    BY <1>0
<1>a. \A y \in k .. len : y < m => Splits(y)
    <2>1. \A y \in k .. len : ~Splits(y) => y \in T
        OBVIOUS
    <2>2. \A y \in k .. len : y < m => ~(m <= y)
        BY <1>0, <1>2
    <2> HIDE DEF T, Splits
    <2> QED BY <1>1, <2>1, <2>2
<1>b. \A y \in Int : (y < j) = (y <= k)
    BY <1>0
<1> HIDE DEF T, j
<1>3. flatten(c, j, m) = IF m < j THEN << >> ELSE flatten(c, j, m - 1) \o EntriesOf(c, m)
    BY <1>0, <1>2, FlattenBlocks
<1>4. flatten(c, 1, k) \in Seq(Entries)
    BY <1>0, FlattenType
<1>5. m # k
    <2> SUFFICES ASSUME m = k PROVE FALSE
        OBVIOUS
    <2>1. m < j
        BY <1>0, <1>b
    <2>2. flatten(c, j, m) = << >>
        BY <1>3, <2>1
    <2>3. \A x \in Seq(Entries) : x \o << >> = x
        OBVIOUS
    <2>4. flatten(c, 1, m) = flatten(c, 1, k) \o flatten(c, j, m)
        BY <1>4, <2>2, <2>3
    <2> QED BY <1>2, <2>4
<1>6. m \in 1 .. len /\ m - 1 \in 0 .. len /\ m - 1 \in k .. len /\ m - 1 < m /\ ~(m < j)
    BY <1>0, <1>2, <1>5, <1>b
<1>7. Splits(m - 1)
    BY <1>6, <1>a
<1>8. flatten(c, 1, m) = flatten(c, 1, m - 1) \o EntriesOf(c, m)
    <2>1. m \in Nat /\ 1 \in Nat \ {0} /\ ~(m < 1)
        BY <1>6
    <2> QED BY <2>1, FlattenBlocks
<1>9. flatten(c, j, m) = flatten(c, j, m - 1) \o EntriesOf(c, m)
    BY <1>3, <1>6
<1>10. flatten(c, j, m - 1) \in Seq(Entries)
    BY <1>0, <1>6, FlattenType
<1>11. EntriesOf(c, m) \in Seq(Entries)
    BY <1>6, EntriesOfBlock
<1>12. \A x, y, z \in Seq(Entries) : (x \o y) \o z = x \o (y \o z)
    OBVIOUS
<1>13. Splits(m)
    <2> DEFINE x == flatten(c, 1, k)
               y == flatten(c, j, m - 1)
               z == EntriesOf(c, m)
    <2>1. flatten(c, 1, m) = (x \o y) \o z /\ flatten(c, j, m) = y \o z
        BY <1>7, <1>8, <1>9
    <2>2. (x \o y) \o z = x \o (y \o z)
        <3> HIDE DEF x, y, z
        <3> QED BY <1>4, <1>10, <1>11, <1>12 DEF x, y, z
    <2> QED BY <2>1, <2>2
<1> QED BY <1>2, <1>13

-----------------------------------------------------------------------------
(* The ancestor is a number of blocks that both chains have and share. *)
LEMMA AncestorIsShared ==
    ASSUME NEW old \in Chains, NEW new \in Chains
    PROVE  /\ DeepestCommonAncestor(old, new) \in 0 .. Len(old)
           /\ DeepestCommonAncestor(old, new) \in 0 .. Len(new)
           /\ \A k \in 1 .. DeepestCommonAncestor(old, new) : old[k] = new[k]
<1> DEFINE S == {i \in 0 .. Len(old) : i <= Len(new)
                   /\ \A j \in 1 .. i : Hash(old, j) = Hash(new, j)}
           T == {Len(old) - i : i \in S}
           anc == DeepestCommonAncestor(old, new)
<1>0. /\ old \in Seq(Seq(BlockActions)) /\ new \in Seq(Seq(BlockActions))
      /\ Len(old) \in Nat /\ Len(new) \in Nat
    BY ChainsAreChains
<1>1. 0 \in S
    BY <1>0
<1>2. T \subseteq Nat /\ T # {}
    <2>1. \A i \in S : i \in 0 .. Len(old) /\ Len(old) - i \in Nat
        BY <1>0
    <2> HIDE DEF S
    <2> QED BY <1>1, <2>1
<1>3. PICK x \in T : \A y \in T : x <= y
    <2> HIDE DEF T
    <2> QED BY <1>2, LeastNat
<1>4. PICK i \in S : x = Len(old) - i
    OBVIOUS
<1>5. \A j \in S : i >= j
    <2>1. \A j \in S : j \in Int
        OBVIOUS
    <2>2. \A j \in S : Len(old) - j \in T
        OBVIOUS
    <2> HIDE DEF S, T
    <2> QED BY <1>0, <1>3, <1>4, <2>1, <2>2
<1>6. anc = Max(S)
    BY DEF DeepestCommonAncestor
<1>7. anc \in S
    <2> HIDE DEF S, T, anc
    <2> QED BY <1>5, <1>6 DEF Max
<1>8. ASSUME NEW k \in 1 .. anc PROVE old[k] = new[k]
    <2>1. k \in 1 .. Len(old) /\ k \in 1 .. Len(new) /\ Hash(old, k) = Hash(new, k)
        BY <1>0, <1>7, SMTT(30)
    <2>2. SubSeq(old, 1, k)[k] = old[k] /\ SubSeq(new, 1, k)[k] = new[k]
        BY <1>0, <2>1, SMTT(30)
    <2> QED BY <2>1, <2>2 DEF Hash
<1> QED BY <1>0, <1>7, <1>8

(* Whatever chains came and went, the indexed state is that of a fresh     *)
(* replay of the present chain: Reindex's rewind to the ancestor and its   *)
(* forward replay lose nothing and keep nothing of the abandoned blocks.   *)
THEOREM IndexFollowsChain == ReindexSpec => []StateIsOfChain
<1> DEFINE Inv == chain \in Chains /\ StateIsOfChain
<1>1. ReindexInit => Inv
    <2> SUFFICES ASSUME ReindexInit PROVE Inv
        OBVIOUS
    <2>1. chain \in Chains
        <3>1. chain \in [1 .. 0 -> Blocks]
            BY DEF ReindexInit
        <3> QED BY <3>1, ReindexAssumption DEF Chains
    <2>2. flatten(chain, 1, 0) = << >>
        <3>1. 1 \in Nat \ {0} /\ 0 \in Nat /\ 0 < 1
            OBVIOUS
        <3> QED BY <3>1, FlattenBlocks
    <2> QED BY <2>1, <2>2, ReplayNothing DEF ReindexInit, StateIsOfChain
<1>2. Inv /\ [ReindexNext]_reindexVars => Inv'
    <2> SUFFICES ASSUME Inv, ReindexNext PROVE Inv'
        BY DEF reindexVars, StateIsOfChain
    <2>1. PICK new \in Chains : Reorg(new)
        BY DEF ReindexNext
    <2> DEFINE anc == DeepestCommonAncestor(chain, new)
               shared == flatten(new, 1, anc)
               rest == flatten(new, anc + 1, Len(new))
    <2>2. chain' = new /\ indexed' = ReplayFrom(ReplayFrom(initialState, shared), rest)
        BY <2>1 DEF Reorg, Reindexed
    <2>3. anc \in 0 .. Len(new) /\ IsChain(new, Len(new))
        BY AncestorIsShared, ChainsAreChains
    <2>4. Len(new) \in 0 .. Len(new) /\ anc + 1 \in Nat \ {0} /\ Len(new) \in Nat
        BY <2>3 DEF IsChain
    <2> HIDE DEF anc
    <2>5. shared \in Seq(Entries) /\ rest \in Seq(Entries)
        BY <2>3, <2>4, FlattenType
    <2>6. flatten(new, 1, Len(new)) = shared \o rest
        BY <2>3, <2>4, FlattenSplits
    <2> HIDE DEF shared, rest
    <2>7. ReplayFrom(initialState, shared \o rest)
            = ReplayFrom(ReplayFrom(initialState, shared), rest)
        BY <2>5, ReplayConcat
    <2> QED BY <2>2, <2>6, <2>7 DEF StateIsOfChain
<1> QED BY <1>1, <1>2, PTL DEF ReindexSpec

(* What the old chain confirmed, the new one confirms or Reindex hands     *)
(* back: the orphans start at the first block the chains do not share.     *)
THEOREM ReorgsLoseNothing == ReindexSpec => NoActionLost
<1> DEFINE Inv == chain \in Chains
           Kept == Confirmed(chain) \subseteq
                       Confirmed(chain') \cup {e.action : e \in Range(orphaned')}
<1>1. ReindexInit => Inv
    <2> SUFFICES ASSUME ReindexInit PROVE Inv
        OBVIOUS
    <2>1. chain \in [1 .. 0 -> Blocks]
        BY DEF ReindexInit
    <2> QED BY <2>1, ReindexAssumption DEF Chains
<1>2. Inv /\ [ReindexNext]_reindexVars => Inv'
    BY DEF ReindexNext, Reorg, reindexVars
<1>3. Inv /\ [ReindexNext]_reindexVars => [Kept]_reindexVars
    <2> SUFFICES ASSUME Inv, ReindexNext PROVE Kept
        OBVIOUS
    <2>1. PICK new \in Chains : Reorg(new)
        BY DEF ReindexNext
    <2> DEFINE anc == DeepestCommonAncestor(chain, new)
               n == Len(chain)
               m == Len(new)
               old1 == flatten(chain, 1, anc)
               old2 == flatten(chain, anc + 1, n)
               new1 == flatten(new, 1, anc)
               new2 == flatten(new, anc + 1, m)
    <2>2. chain' = new /\ orphaned' = old2
        BY <2>1 DEF Reorg, Orphans
    <2>3. /\ anc \in 0 .. n /\ anc \in 0 .. m
          /\ \A k \in 1 .. anc : chain[k] = new[k]
          /\ IsChain(chain, n) /\ IsChain(new, m)
        BY AncestorIsShared, ChainsAreChains
    <2>4. /\ n \in 0 .. n /\ m \in 0 .. m /\ anc \in Nat /\ anc + 1 \in Nat \ {0}
        BY <2>3 DEF IsChain
    <2> HIDE DEF anc, n, m
    <2>5. /\ old1 \in Seq(Entries) /\ old2 \in Seq(Entries)
          /\ new1 \in Seq(Entries) /\ new2 \in Seq(Entries)
        BY <2>3, <2>4, FlattenType
    <2>6. flatten(chain, 1, n) = old1 \o old2 /\ flatten(new, 1, m) = new1 \o new2
        BY <2>3, <2>4, FlattenSplits
    <2>7. old1 = new1
        BY <2>3, <2>4, FlattenShared
    <2> HIDE DEF old1, old2, new1, new2
    <2>8. Range(old1 \o old2) \subseteq Range(old1) \cup Range(old2)
        BY <2>5 DEF Range
    <2>9. Range(new1) \subseteq Range(new1 \o new2)
        <3> SUFFICES ASSUME NEW i \in DOMAIN new1
                     PROVE  new1[i] \in Range(new1 \o new2)
            BY DEF Range
        <3>1. i \in DOMAIN (new1 \o new2) /\ (new1 \o new2)[i] = new1[i]
            BY <2>5
        <3> QED BY <3>1 DEF Range
    <2>10. /\ Confirmed(chain) = {e.action : e \in Range(old1 \o old2)}
           /\ Confirmed(chain') = {e.action : e \in Range(new1 \o new2)}
        BY <2>2, <2>6 DEF Confirmed, n, m
    <2> QED BY <2>2, <2>7, <2>8, <2>9, <2>10
<1> QED BY <1>1, <1>2, <1>3, PTL DEF ReindexSpec, NoActionLost
=============================================================================

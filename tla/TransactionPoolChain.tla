------------------------ MODULE TransactionPoolChain ------------------------
(* What the pool, the start and the end of a block, finality and a           *)
(* reorganisation do to the invariant of TransactionPool, for every set of   *)
(* accounts and offers.                                                      *)
EXTENDS TransactionPoolInvariant, FiniteSetTheorems, WellFoundedInduction, TLAPS

\* The contexts are large: a leaf that names no prover is given to Zenon, whose translation is
\* the lightest, then to the SMT solver and to Z3 under its own name.
USE ZenonT(3), SMTT(20), Z3T(20)

-----------------------------------------------------------------------------
(* The sum of the fees a set of extrinsics reports.  Inductions are by least *)
(* counterexample, on the number of elements.                                *)

\* A set of numbers has a least element.
LEMMA LeastNat ==
    ASSUME NEW T, T \subseteq Nat, T # {}
    PROVE  \E n \in T : \A m \in T : n <= m
<1>1. IsWellFoundedOn(OpToRel(<, Nat), Nat)
  BY Zenon, NatLessThanWellFounded
<1>2. \E x \in T : \A y \in T : ~ (<<y, x>> \in OpToRel(<, Nat))
  BY Zenon, <1>1, WFMin
<1>3. \A x, y \in Nat : y < x => <<y, x>> \in OpToRel(<, Nat)
  BY Zenon DEF OpToRel
<1>4. \E x \in T : \A y \in T : ~(y < x)
  BY <1>2, <1>3, Zenon
<1> QED
  BY <1>4

\* Among the subsets of a finite set that have some property, one is smallest.
LEMMA SmallestSubset ==
    ASSUME NEW S, IsFiniteSet(S), NEW C, C \subseteq SUBSET S, C # {}
    PROVE  \E s \in C : \A t \in C : Cardinality(s) <= Cardinality(t)
<1> DEFINE T == {Cardinality(s) : s \in C}
<1>1. T \subseteq Nat /\ T # {}
  BY FS_Subset, FS_CardinalityType
<1>2. \E n \in T : \A m \in T : n <= m
  <2> HIDE DEF T
  <2> QED BY Zenon, <1>1, LeastNat
<1> QED
  BY <1>2

Total(S) == MapThenSumSet(LAMBDA tx : tx.paid, S)

pick(s) == CHOOSE x \in s : TRUE

\* One step of the sum: f has the sums of smaller sets.
step_of(f, s) == IF s = {} THEN 0 ELSE pick(s).paid + f[s \ {pick(s)}]

\* The recursive function of MapThenFoldSet.
sums(S) == CHOOSE f : f = [s \in SUBSET S |-> step_of(f, s)]

\* The fold that Total is defined by is a sum over subsets.
LEMMA TotalIsSum == \A S : Total(S) = sums(S)[S]
BY DEF Total, sums, step_of, pick, MapThenSumSet, MapThenFoldSet

\* Removing an element makes a finite set smaller by one.
LEMMA RemoveOne ==
    ASSUME NEW S, IsFiniteSet(S), NEW s \in SUBSET S, NEW x \in s
    PROVE  /\ Cardinality(s) \in Nat /\ Cardinality(s \ {x}) \in Nat
           /\ Cardinality(s \ {x}) = Cardinality(s) - 1
<1>1. IsFiniteSet(s) /\ IsFiniteSet(s \ {x})
  BY FS_Subset, FS_RemoveElement
<1> QED
  BY <1>1, FS_CardinalityType, FS_RemoveElement

\* The function exists: the sums of the sets of at most n elements give those of n + 1.
LEMMA SumsExist ==
    ASSUME NEW S, IsFiniteSet(S)
    PROVE  \E f : f = [s \in SUBSET S |-> step_of(f, s)]
<1> DEFINE upto(n) == {s \in SUBSET S : Cardinality(s) <= n}
           good(n) == \E f : f = [s \in upto(n) |-> step_of(f, s)]
           T       == {n \in Nat : ~good(n)}
<1>0. \A s \in SUBSET S : IsFiniteSet(s) /\ Cardinality(s) \in Nat
  BY FS_Subset, FS_CardinalityType
<1>1. good(0)
  <2> DEFINE f == [s \in upto(0) |-> 0]
  <2>1. \A s \in upto(0) : s = {}
    BY <1>0, FS_EmptySet
  <2>2. \A s \in upto(0) : step_of(f, s) = 0
    BY <2>1 DEF step_of
  <2>3. f = [s \in upto(0) |-> step_of(f, s)]
    <3> DEFINE U == upto(0)
    <3> HIDE DEF U
    <3> QED BY <2>2 DEF U
  <2> QED BY Zenon, <2>3
<1>2. ASSUME NEW n \in Nat, good(n) PROVE good(n + 1)
  <2>1. PICK f : f = [s \in upto(n) |-> step_of(f, s)]
    BY <1>2
  <2> DEFINE g == [s \in upto(n + 1) |-> step_of(f, s)]
  <2>2. \A s \in upto(n) : g[s] = f[s]
    <3>1. \A s \in upto(n) : s \in upto(n + 1)
      BY <1>0
    <3>2. \A s \in upto(n) : f[s] = step_of(f, s)
      BY <2>1
    <3> HIDE DEF upto
    <3> QED BY <3>1, <3>2
  <2>3. \A s \in upto(n + 1) : s # {} => s \ {pick(s)} \in upto(n)
    <3> SUFFICES ASSUME NEW s \in upto(n + 1), s # {} PROVE s \ {pick(s)} \in upto(n)
      OBVIOUS
    <3>1. pick(s) \in s
      BY DEF pick
    <3> QED BY <3>1, RemoveOne
  <2>4. \A s \in upto(n + 1) : step_of(g, s) = step_of(f, s)
    <3> HIDE DEF g, upto
    <3> QED BY <2>2, <2>3 DEF step_of
  <2>5. g = [s \in upto(n + 1) |-> step_of(g, s)]
    <3> DEFINE U == upto(n + 1)
    <3>1. g = [s \in U |-> step_of(f, s)] /\ \A s \in U : step_of(g, s) = step_of(f, s)
      BY <2>4
    <3>2. g = [s \in U |-> step_of(g, s)]
      <4> HIDE DEF U, g
      <4> QED BY <3>1
    <3> QED BY <3>2
  <2> QED BY Zenon, <2>5
<1>3. T = {}
  <2> SUFFICES ASSUME T # {} PROVE FALSE
    BY Zenon
  <2>1. T \subseteq Nat
    OBVIOUS
  <2>2. PICK n \in T : \A m \in T : n <= m
    <3> HIDE DEF T
    <3> QED BY Zenon, <2>1, LeastNat
  <2>3. n \in Nat /\ ~good(n)
    BY Zenon
  <2>4. n # 0
    BY Zenon, <1>1, <2>3
  <2>5. n - 1 \in Nat /\ good(n - 1)
    <3> HIDE DEF good
    <3> QED BY <2>2, <2>3, <2>4
  <2>6. good((n - 1) + 1)
    <3> HIDE DEF good
    <3> QED BY <1>2, <2>5
  <2>7. (n - 1) + 1 = n
    BY <2>3
  <2> QED BY Zenon, <2>3, <2>6, <2>7
<1>4. good(Cardinality(S))
  BY Zenon, <1>0, <1>3
<1>5. upto(Cardinality(S)) = SUBSET S
  <2>1. \A s \in SUBSET S : Cardinality(s) <= Cardinality(S)
    BY FS_Subset
  <2> QED BY <2>1
<1> QED
  BY Zenon, <1>4, <1>5

\* The sum of a set of numbers is a number, and does not depend on the order the elements
\* are taken in.
LEMMA SumsFacts ==
    ASSUME NEW S, IsFiniteSet(S), \A t \in S : t.paid \in Nat
    PROVE  /\ sums(S)[{}] = 0
           /\ \A s \in SUBSET S : sums(S)[s] \in Nat
           /\ \A s \in SUBSET S : \A x \in s : sums(S)[s] = x.paid + sums(S)[s \ {x}]
<1> DEFINE f == sums(S)
<1>1. f = [s \in SUBSET S |-> step_of(f, s)]
  <2> DEFINE P(g) == g = [s \in SUBSET S |-> step_of(g, s)]
  <2>1. \E g : P(g)
    BY Zenon, SumsExist
  <2>2. P(CHOOSE g : P(g))
    <3> HIDE DEF P
    <3> QED BY <2>1
  <2> QED BY <2>2 DEF sums
<1> HIDE DEF f
<1>2. \A s \in SUBSET S : f[s] = step_of(f, s)
  BY <1>1
<1>3. f[{}] = 0
  BY Zenon, <1>2 DEF step_of
<1>4. \A s \in SUBSET S : s # {} => pick(s) \in s /\ f[s] = pick(s).paid + f[s \ {pick(s)}]
  BY <1>2 DEF step_of, pick
<1>5. \A s \in SUBSET S : f[s] \in Nat
  <2> DEFINE C == {s \in SUBSET S : f[s] \notin Nat}
  <2> SUFFICES ASSUME C # {} PROVE FALSE
    OBVIOUS
  <2>1. PICK s \in C : \A t \in C : Cardinality(s) <= Cardinality(t)
    BY Zenon, SmallestSubset
  <2>2. s # {}
    BY <1>3
  <2>3. s \ {pick(s)} \notin C
    BY <1>4, <2>1, <2>2, RemoveOne
  <2> QED BY <1>4, <2>2, <2>3
<1>6. \A s \in SUBSET S : \A x \in s : f[s] = x.paid + f[s \ {x}]
  <2> DEFINE C == {s \in SUBSET S : \E x \in s : f[s] # x.paid + f[s \ {x}]}
  <2> SUFFICES ASSUME C # {} PROVE FALSE
    BY Zenon
  <2>1. PICK s \in C : \A t \in C : Cardinality(s) <= Cardinality(t)
    BY Zenon, SmallestSubset
  <2>2. PICK x \in s : f[s] # x.paid + f[s \ {x}]
    OBVIOUS
  <2> DEFINE p == pick(s)
  <2>3. p \in s /\ f[s] = p.paid + f[s \ {p}] /\ p # x
    BY Zenon, <1>4, <2>2
  <2>4. s \ {p} \in SUBSET S /\ s \ {x} \in SUBSET S /\ s \in SUBSET S
    OBVIOUS
  <2> HIDE DEF p
  <2>5. s \ {p} \notin C /\ s \ {x} \notin C
    <3>1. /\ Cardinality(s) \in Nat
          /\ Cardinality(s \ {p}) = Cardinality(s) - 1
          /\ Cardinality(s \ {x}) = Cardinality(s) - 1
      BY Zenon, <2>3, <2>4, RemoveOne
    <3> HIDE DEF C
    <3> QED BY <2>1, <3>1
  <2>6. x \in s \ {p} /\ p \in s \ {x}
    BY <2>3
  <2>7. f[s \ {p}] = x.paid + f[(s \ {p}) \ {x}] /\ f[s \ {x}] = p.paid + f[(s \ {x}) \ {p}]
    BY Zenon, <2>4, <2>5, <2>6
  <2> DEFINE r == (s \ {x}) \ {p}
  <2>8. (s \ {p}) \ {x} = r /\ r \in SUBSET S
    OBVIOUS
  <2>9. /\ f[s \ {p}] = x.paid + f[r] /\ f[s \ {x}] = p.paid + f[r]
        /\ x.paid \in Nat /\ p.paid \in Nat /\ f[r] \in Nat
    BY Zenon, <1>5, <2>3, <2>4, <2>7, <2>8
  <2> HIDE DEF r, C
  <2>10. x.paid + (p.paid + f[r]) = p.paid + (x.paid + f[r])
    BY <2>9
  <2> QED BY Zenon, <2>2, <2>3, <2>9, <2>10
<1> QED
  BY Zenon, <1>3, <1>5, <1>6 DEF f

\* The sum of a set does not depend on the larger set it is taken in.
LEMMA SumsAgree ==
    ASSUME NEW S, IsFiniteSet(S), \A t \in S : t.paid \in Nat, NEW R \in SUBSET S
    PROVE  sums(R)[R] = sums(S)[R]
<1> DEFINE f == sums(S)
           g == sums(R)
           C == {s \in SUBSET R : g[s] # f[s]}
<1>0. IsFiniteSet(R) /\ \A t \in R : t.paid \in Nat
  BY FS_Subset
<1>1. /\ f[{}] = 0 /\ \A s \in SUBSET S : \A x \in s : f[s] = x.paid + f[s \ {x}]
      /\ g[{}] = 0 /\ \A s \in SUBSET R : \A x \in s : g[s] = x.paid + g[s \ {x}]
  BY Zenon, <1>0, SumsFacts
<1> HIDE DEF f, g
<1>2. C = {}
  <2> SUFFICES ASSUME C # {} PROVE FALSE
    OBVIOUS
  <2>1. PICK s \in C : \A t \in C : Cardinality(s) <= Cardinality(t)
    BY Zenon, <1>0, SmallestSubset
  <2>2. PICK x : x \in s
    BY Zenon, <1>1
  <2>3. s \ {x} \notin C
    BY <1>0, <2>1, <2>2, RemoveOne
  <2> QED BY <1>1, <2>2, <2>3
<1> QED
  BY <1>2 DEF f, g

\* The sum of the fees in a block grows by the fee of the extrinsic that settle adds.
LEMMA TotalFacts ==
    ASSUME NEW S, IsFiniteSet(S), \A t \in S : t.paid \in Nat
    PROVE  /\ Total({}) = 0
           /\ Total(S) \in Nat
           /\ \A x \in S : Total(S) = Total(S \ {x}) + x.paid
<1>1. Total({}) = 0
  <2>1. {} \in SUBSET S
    OBVIOUS
  <2>2. sums({})[{}] = sums(S)[{}]
    BY <2>1, SumsAgree
  <2> QED BY <2>2, SumsFacts, TotalIsSum
<1>2. Total(S) \in Nat
  BY SumsFacts, TotalIsSum
<1>3. ASSUME NEW x \in S PROVE Total(S) = Total(S \ {x}) + x.paid
  <2>0. S \in SUBSET S /\ S \ {x} \in SUBSET S
    OBVIOUS
  <2>1. Total(S) = x.paid + sums(S)[S \ {x}] /\ sums(S)[S \ {x}] \in Nat
    <3>1. /\ \A s \in SUBSET S : sums(S)[s] \in Nat
          /\ \A s \in SUBSET S : \A y \in s : sums(S)[s] = y.paid + sums(S)[s \ {y}]
      BY SumsFacts
    <3>2. sums(S)[S] = x.paid + sums(S)[S \ {x}] /\ sums(S)[S \ {x}] \in Nat
      BY <2>0, <3>1
    <3> QED BY Zenon, <3>2, TotalIsSum
  <2>2. Total(S \ {x}) = sums(S)[S \ {x}]
    BY SumsAgree, TotalIsSum
  <2> QED BY <2>1, <2>2
<1> QED
  BY <1>1, <1>2, <1>3

\* An extrinsic keeps its slot and its fee while it ages.
LEMMA OlderFacts ==
    ASSUME NEW tx \in SignedExtrinsic
    PROVE  /\ older(tx) \in SignedExtrinsic
           /\ older(tx).signer = tx.signer /\ older(tx).sponsor = tx.sponsor
           /\ older(tx).nonce = tx.nonce /\ older(tx).paid = tx.paid
           /\ older(tx).life = tx.life
           /\ older(tx).id = tx.id /\ older(tx).ok = tx.ok /\ older(tx).call = tx.call
<1>1. Lesser(tx.age + 1, Period) \in Nat
  BY TransactionPoolAssumption DEF Lesser, SignedExtrinsic
<1> QED
  BY <1>1 DEF older, SignedExtrinsic

\* A finite block stays finite when its extrinsics age.
LEMMA OlderFinite ==
    ASSUME NEW S, IsFiniteSet(S)
    PROVE  IsFiniteSet({older(tx) : tx \in S})
<1> DEFINE T == {older(tx) : tx \in S}
           f == [tx \in S |-> older(tx)]
<1>1. f \in Surjection(S, T)
  <2>1. f \in [S -> T] /\ \A t \in T : \E x \in S : f[x] = t
    OBVIOUS
  <2> HIDE DEF f, T
  <2> QED BY <2>1 DEF Surjection
<1> HIDE DEF f, T
<1>2. IsFiniteSet(T)
  BY <1>1, FS_Surjection
<1> QED
  BY <1>2 DEF T

\* The sum of the fees of a block stays the same when its extrinsics age.
LEMMA TotalOlder ==
    ASSUME NEW S \in SUBSET SignedExtrinsic, IsFiniteSet(S), UniqueSlots(S)
    PROVE  Total({older(tx) : tx \in S}) = Total(S)
<1> DEFINE grown(s) == {older(tx) : tx \in s}
           C == {s \in SUBSET S : Total(grown(s)) # Total(s)}
<1>0. \A t \in SignedExtrinsic : t.paid \in Nat
  BY DEF SignedExtrinsic
<1>1. \A t, u \in S : older(t) = older(u) => t = u
  BY OlderFacts DEF UniqueSlots, same_use, same_slot
<1>2. ASSUME NEW s \in SUBSET S
      PROVE  /\ IsFiniteSet(s) /\ IsFiniteSet(grown(s))
             /\ s \subseteq SignedExtrinsic /\ grown(s) \subseteq SignedExtrinsic
  <2>1. IsFiniteSet(s) /\ s \subseteq SignedExtrinsic
    BY FS_Subset
  <2>2. IsFiniteSet(grown(s))
    BY <2>1, OlderFinite
  <2> QED BY Zenon, <2>1, <2>2, OlderFacts
<1>3. C = {}
  <2> SUFFICES ASSUME C # {} PROVE FALSE
    BY Zenon
  <2>1. PICK s \in C : \A t \in C : Cardinality(s) <= Cardinality(t)
    BY Zenon, SmallestSubset
  <2>2. s # {}
    <3>1. grown({}) = {}
      OBVIOUS
    <3> QED BY <2>1, <3>1
  <2>3. PICK x : x \in s
    BY <2>2
  <2> DEFINE r == s \ {x}
  <2>4. r \in SUBSET S /\ r \notin C
    <3>1. Cardinality(s) \in Nat /\ Cardinality(r) = Cardinality(s) - 1
      BY <2>3, RemoveOne
    <3>2. r \in SUBSET S
      OBVIOUS
    <3> HIDE DEF C, r
    <3> QED BY <2>1, <3>1, <3>2
  <2>5. grown(r) = grown(s) \ {older(x)} /\ older(x) \in grown(s)
    BY <1>1, <2>3
  <2>6. x \in SignedExtrinsic /\ x.paid \in Nat /\ older(x).paid = x.paid
    BY Zenon, <1>0, <2>3, OlderFacts
  <2>7. s \in SUBSET S /\ Total(grown(s)) # Total(s)
    OBVIOUS
  <2>8. Total(grown(r)) = Total(r)
    BY <2>4
  <2> HIDE DEF grown, C
  <2>9. Total(s) = Total(r) + x.paid
    BY Zenon, <1>0, <1>2, <2>3, <2>7, TotalFacts
  <2>10. Total(grown(s)) = Total(grown(r)) + older(x).paid
    <3>1. IsFiniteSet(grown(s)) /\ \A t \in grown(s) : t.paid \in Nat
      BY Zenon, <1>0, <1>2, <2>7
    <3> QED BY Zenon, <2>5, <3>1, TotalFacts
  <2> QED BY Zenon, <2>6, <2>7, <2>8, <2>9, <2>10
<1> QED
  BY <1>3

-----------------------------------------------------------------------------
(* Facts about the chain. *)

\* What appending a block does to a chain.
LEMMA Appended ==
    ASSUME NEW S, NEW s \in Seq(S), NEW e \in S
    PROVE  /\ Append(s, e) \in Seq(S) /\ Len(Append(s, e)) = Len(s) + 1
           /\ DOMAIN Append(s, e) = 1 .. Len(s) + 1
           /\ \A i \in 1 .. Len(s) : Append(s, e)[i] = s[i]
           /\ Append(s, e)[Len(s) + 1] = e
OBVIOUS

\* The node always keeps a block, and the last one is the best.
LEMMA BestFacts ==
    ASSUME PoolTypeOK
    PROVE  /\ Best = chain[Len(chain)] /\ Len(chain) \in DOMAIN chain
           /\ DOMAIN chain = 1 .. Len(chain) /\ Len(chain) \in Nat
           /\ \A i \in DOMAIN chain : chain[i] \in Block
           /\ Best \in Block
BY DEF PoolTypeOK, Best

\* The fields of a block.
LEMMA BlockFacts ==
    ASSUME NEW b \in Block
    PROVE  /\ b.account \in [AccountId -> Account]
           /\ b.Sponsors \in [AccountId -> Option(SponsorState)]
           /\ b.nonce \in [AccountId -> Nat] /\ b.deaths \in [AccountId -> Nat]
           /\ b.body \subseteq SignedExtrinsic
BY DEF Block

\* The fields of a signed extrinsic.
LEMMA SignedFacts ==
    ASSUME NEW tx \in SignedExtrinsic
    PROVE  /\ tx.signer \in AccountId /\ tx.sponsor \in Option(AccountId)
           /\ tx.nonce \in Nat /\ tx.paid \in Nat /\ tx.tip \in Tip
           /\ tx.call \in RuntimeCall /\ tx # None /\ tx.life \in Nat
BY TransactionPoolAssumption DEF SignedExtrinsic

\* Lives and nonces of accounts, as a block has them.
Counted(b) == b.nonce \in [AccountId -> Nat] /\ b.deaths \in [AccountId -> Nat]

\* Growth is an order on them, and a nonce that is used by then is not unused.
LEMMA GrowthFacts ==
    ASSUME NEW b, NEW c, Counted(b), Counted(c), grows(b, c)
    PROVE  /\ \A d : Counted(d) /\ grows(c, d) => grows(b, d)
           /\ \A t \in SignedExtrinsic : used_by(t, b) => used_by(t, c)
           /\ \A t \in SignedExtrinsic : unused_at(t, c) => unused_at(t, b)
           /\ \A t, u \in SignedExtrinsic :
                 used_by(t, b) /\ unused_at(u, c) => ~same_use(t, u) /\ ~same_use(u, t)
<1>1. \A t \in SignedExtrinsic : t.signer \in AccountId /\ t.nonce \in Nat /\ t.life \in Nat
  BY SignedFacts
<1>2. ASSUME NEW d, Counted(d), grows(c, d) PROVE grows(b, d)
  BY <1>2 DEF Counted, grows, not_after
<1>3. \A t \in SignedExtrinsic : used_by(t, b) => used_by(t, c)
  BY <1>1 DEF Counted, grows, used_by, not_after
<1>4. \A t \in SignedExtrinsic : unused_at(t, c) => unused_at(t, b)
  BY <1>1 DEF Counted, grows, unused_at, not_after
<1>5. ASSUME NEW t \in SignedExtrinsic, NEW u \in SignedExtrinsic,
             used_by(t, b), unused_at(u, c), same_use(t, u) \/ same_use(u, t)
      PROVE  FALSE
  BY <1>1, <1>5 DEF Counted, grows, used_by, unused_at, not_after, same_use, same_slot
<1> QED
  BY <1>2, <1>3, <1>4, <1>5

\* Every block has them, and so has the one being built.
LEMMA BlocksCounted ==
    ASSUME PoolTypeOK
    PROVE  /\ \A b \in Block : Counted(b) /\ grows(b, b)
           /\ Counted(here) /\ Counted(Best)
<1>1. ASSUME NEW b \in Block PROVE Counted(b) /\ grows(b, b)
  <2>1. Counted(b)
    BY BlockFacts DEF Counted
  <2> QED BY <2>1 DEF Counted, grows, not_after
<1>2. Counted(here)
  BY DEF PoolTypeOK, Counted, here
<1> QED
  BY <1>1, <1>2, BestFacts

\* The conjuncts that are about the chain alone.
ChainInv == BlocksSettled /\ NoncesGrow /\ BlockRespectsSponsor

\* What holds of the chain holds while the chain stays as it is.
LEMMA ChainUnchanged ==
    ASSUME ChainInv, chain' = chain, final' = final
    PROVE  ChainInv' /\ Best' = Best
<1>1. BlocksSettled'
  BY DEF ChainInv, BlocksSettled, Settled
<1>2. NoncesGrow'
  BY DEF ChainInv, NoncesGrow, applied
<1>3. BlockRespectsSponsor'
  BY DEF ChainInv, BlockRespectsSponsor
<1> QED
  BY <1>1, <1>2, <1>3 DEF ChainInv, Best

\* The conjuncts that are about the block being built.
HereInv == CurrentInFlight /\ NoncesGrowHere /\ ChargesAllowed

\* The invariant, split into the sponsorship pallet, the chain and the block being built.
LEMMA PoolInvParts == PoolInv <=> IInv /\ PoolTypeOK /\ ChainInv /\ HereInv
BY DEF PoolInv, ChainInv, HereInv

\* A step that leaves the runtime's state alone keeps the pallet's invariant.
LEMMA IInvUnchanged ==
    ASSUME IInv, UNCHANGED vars
    PROVE  IInv'
BY DEF IInv, TypeOK, NoDust, FlightOK, PendingIsReservation, UnregisteredHoldsNothing,
       pending_on_hold, sponsored_by, is_registered, Option, vars

\* Submissions, maintain and revalidate: the pool has no say in what the chain holds.
LEMMA PoolStep ==
    ASSUME PoolInv, UNCHANGED <<vars, chainVars>>,
           pool' \subseteq SignedExtrinsic, gossip' \subseteq SignedExtrinsic, signatures' \in Nat
    PROVE  PoolInv'
<1>0. /\ UNCHANGED vars /\ chain' = chain /\ final' = final /\ nonce' = nonce /\ deaths' = deaths
      /\ building' = building /\ extrinsics' = extrinsics /\ current' = current
      /\ retractions' = retractions
      /\ account' = account /\ Sponsors' = Sponsors /\ xt' = xt /\ event' = event
  BY DEF chainVars, vars
<1>1. IInv'
  BY <1>0, IInvUnchanged DEF PoolInv
<1>2. ChainInv' /\ Best' = Best
  BY <1>0, ChainUnchanged, PoolInvParts
<1>3. PoolTypeOK'
  BY Zenon, <1>0, <1>1, <1>2 DEF PoolInv, PoolTypeOK, IInv
<1>4. HereInv'
  <2>1. CurrentInFlight'
    BY <1>0 DEF PoolInv, CurrentInFlight, ConsensusHook
  <2>2. NoncesGrowHere'
    BY <1>0, <1>2 DEF PoolInv, NoncesGrowHere, here
  <2>3. ChargesAllowed'
    BY <1>0, <1>2 DEF PoolInv, ChargesAllowed, does_nothing, Allowed
  <2> QED BY Zenon, <2>1, <2>2, <2>3 DEF HereInv
<1> QED
  BY <1>1, <1>2, <1>3, <1>4 DEF PoolInv, ChainInv, HereInv

-----------------------------------------------------------------------------
(* The steps that move between blocks, one lemma each. *)

\* Opening a block changes no state of the runtime.
LEMMA InitializeBlockStep ==
    ASSUME PoolInv, initialize_block
    PROVE  PoolInv'
<1>0. /\ UNCHANGED vars /\ chain' = chain /\ final' = final /\ nonce' = nonce /\ deaths' = deaths
      /\ gossip' = gossip /\ building' = TRUE /\ extrinsics' = extrinsics /\ current' = current
      /\ retractions' = retractions /\ pool' = pool /\ signatures' = signatures
      /\ account' = account /\ Sponsors' = Sponsors /\ xt' = xt /\ event' = event
  BY DEF initialize_block, vars
<1>1. IInv'
  BY <1>0, IInvUnchanged DEF PoolInv
<1>2. ChainInv' /\ Best' = Best
  BY Zenon, <1>0, ChainUnchanged, PoolInvParts
<1>3. PoolTypeOK'
  BY <1>0, <1>1, <1>2 DEF PoolInv, PoolTypeOK, IInv
<1>4. CurrentInFlight'
  BY <1>0 DEF PoolInv, CurrentInFlight, initialize_block, can_build_upon, ConsensusHook
<1>5. NoncesGrowHere'
  BY <1>0, <1>2 DEF PoolInv, NoncesGrowHere, here
<1>6. ChargesAllowed'
  BY <1>0, <1>2 DEF PoolInv, ChargesAllowed, does_nothing, Allowed
<1> QED
  BY Zenon, <1>1, <1>2, <1>3, <1>4, <1>5, <1>6 DEF PoolInv, ChainInv

\* What a block charges to a sponsor adds up, extrinsic by extrinsic.
LEMMA SpentFacts ==
    ASSUME NEW a, NEW S \in SUBSET SignedExtrinsic, IsFiniteSet(S)
    PROVE  /\ spent(a, {}) = 0 /\ spent(a, S) \in Nat
           /\ \A x \in SignedExtrinsic \ S :
                 spent(a, S \cup {x}) = spent(a, S) + (IF x.sponsor = a THEN x.paid ELSE 0)
<1> DEFINE by(R) == {tx \in R : tx.sponsor = a}
<1>0. \A R : spent(a, R) = Total(by(R))
  BY DEF spent, Total
<1>1. /\ IsFiniteSet(by(S)) /\ by(S) \subseteq S
      /\ \A t \in by(S) : t.paid \in Nat
  BY FS_Subset, SignedFacts
<1>2. spent(a, S) \in Nat /\ Total({}) = 0
  <2> HIDE DEF by
  <2> QED BY <1>0, <1>1, TotalFacts
<1>3. spent(a, {}) = 0
  <2>1. by({}) = {}
    OBVIOUS
  <2> HIDE DEF by
  <2> QED BY Zenon, <1>0, <1>2, <2>1
<1>4. ASSUME NEW x \in SignedExtrinsic \ S
      PROVE  spent(a, S \cup {x}) = spent(a, S) + (IF x.sponsor = a THEN x.paid ELSE 0)
  <2>1. CASE x.sponsor = a
    <3> DEFINE T == by(S \cup {x})
    <3>1. T = by(S) \cup {x} /\ T \ {x} = by(S) /\ x \in T
      BY <2>1
    <3>2. IsFiniteSet(T) /\ (\A t \in T : t.paid \in Nat) /\ x.paid \in Nat
      <4>1. IsFiniteSet(by(S) \cup {x})
        BY <1>1, FS_AddElement
      <4> HIDE DEF T, by
      <4> QED BY Zenon, <1>1, <3>1, <4>1, SignedFacts
    <3> HIDE DEF T, by
    <3>3. Total(T) = Total(T \ {x}) + x.paid
      BY Zenon, <3>1, <3>2, TotalFacts
    <3> QED BY Zenon, <1>0, <2>1, <3>1, <3>3 DEF T
  <2>2. CASE x.sponsor # a
    <3>1. by(S \cup {x}) = by(S)
      BY <2>2
    <3> HIDE DEF by
    <3> QED BY <1>0, <1>2, <2>2, <3>1
  <2> QED BY <2>1, <2>2
<1> QED
  BY <1>2, <1>3, <1>4

\* Between blocks the state is the best block's, so all that is said of the block being
\* built is immediate.
LEMMA FreshBlock == Fresh => HereInv
<1> SUFFICES ASSUME Fresh PROVE HereInv
  OBVIOUS
<1> USE DEF Fresh
<1>00. /\ account = Best.account /\ Sponsors = Best.Sponsors
       /\ nonce = Best.nonce /\ deaths = Best.deaths
  BY DEF PoolTypeOK
<1>0. Best.account \in [AccountId -> Account] /\ grows(Best, Best)
  BY BestFacts, BlockFacts, BlocksCounted
<1>1. CurrentInFlight
  BY FS_EmptySet DEF CurrentInFlight
<1>2. NoncesGrowHere
  BY <1>00, <1>0 DEF NoncesGrowHere, UniqueSlots, grows, here
<1>3. ChargesAllowed
  <2> SUFFICES ASSUME NEW a \in AccountId
               PROVE  Allowed(Sponsors[a], OnHold(Best.account[a]), OnHold(account[a]), {}, a)
    BY <1>00 DEF ChargesAllowed
  <2>1. OnHold(account[a]) \in Nat /\ OnHold(account[a]) = OnHold(Best.account[a])
    BY <1>00, <1>0 DEF Account, HoldReason, OnHold
  <2>2. spent(a, {}) = 0
    BY SpentFacts, FS_EmptySet
  <2> QED BY <2>1, <2>2 DEF Allowed
<1> QED
  BY <1>1, <1>2, <1>3 DEF HereInv

\* The same after a step.
LEMMA FreshBlockNext == Fresh' => HereInv'
BY FreshBlock, PTL

\* Between extrinsics the state is one a block can end with.
LEMMA IdleIsSettled ==
    ASSUME IInv, xt.phase = "idle", NEW b, b.account = account, b.Sponsors = Sponsors
    PROVE  Settled(b)
<1>1. \A a \in AccountId : account[a]["SponsorshipPending"] = 0
  BY DEF IInv, PendingIsReservation, pending_on_hold, sponsored_by
<1> QED
  BY <1>1 DEF Settled, Sound, IInv, NoDust, UnregisteredHoldsNothing, is_registered

\* The block that is finished extends the chain as its parent allows.
LEMMA FinalizeBlockStep ==
    ASSUME PoolInv, finalize_block
    PROVE  PoolInv'
<1> DEFINE b == [account |-> account, Sponsors |-> Sponsors,
                 nonce |-> nonce, deaths |-> deaths, body |-> extrinsics]
           m == Len(chain)
<1>0. /\ building /\ xt.phase = "idle" /\ chain' = Append(chain, b)
      /\ pool' = pool \ {unapplied(tx) : tx \in extrinsics}
      /\ building' = FALSE /\ extrinsics' = {} /\ event' = None
      /\ account' = account /\ Sponsors' = Sponsors /\ xt' = xt /\ nonce' = nonce
      /\ deaths' = deaths /\ gossip' = gossip /\ current' = current /\ final' = final
      /\ retractions' = retractions /\ signatures' = signatures
  BY DEF finalize_block
<1>1. current = None /\ IsFiniteSet(extrinsics) /\ m <= UNINCLUDED_SEGMENT_CAPACITY
  BY <1>0, TransactionPoolAssumption, BestFacts DEF PoolInv, CurrentInFlight, ConsensusHook
<1>2. IInv'
  BY <1>0 DEF PoolInv, IInv, TypeOK, NoDust, FlightOK, PendingIsReservation, Option,
              UnregisteredHoldsNothing, pending_on_hold, sponsored_by, is_registered
<1>3. b \in Block /\ b.account = account /\ b.Sponsors = Sponsors /\ b.nonce = nonce
      /\ b.deaths = deaths /\ b.body = extrinsics
  BY DEF PoolInv, IInv, TypeOK, PoolTypeOK, Block
<1> HIDE DEF b
<1>4. /\ chain \in Seq(Block) /\ m \in Nat /\ m >= 1 /\ DOMAIN chain = 1 .. m
      /\ Best = chain[m] /\ \A i \in 1 .. m : chain[i] \in Block
  <2>1. PoolTypeOK
    BY DEF PoolInv
  <2>2. chain \in Seq(Block) /\ m \in 1 .. UNINCLUDED_SEGMENT_CAPACITY + 1
    BY <2>1 DEF PoolTypeOK
  <2> QED BY <2>1, <2>2, BestFacts
<1>5. /\ chain' \in Seq(Block) /\ Len(chain') = m + 1 /\ DOMAIN chain' = 1 .. m + 1
      /\ \A i \in 1 .. m : chain'[i] = chain[i]
      /\ chain'[m + 1] = b
  BY <1>0, <1>3, <1>4, Appended
<1> HIDE DEF m
<1>6. PoolTypeOK'
  <2>1. Len(chain') \in 1 .. UNINCLUDED_SEGMENT_CAPACITY + 1
    BY <1>1, <1>4, <1>5, TransactionPoolAssumption
  <2>2. Best' = b
    BY <1>4, <1>5 DEF Best
  <2> QED BY Zenon, <1>0, <1>2, <1>3, <1>5, <2>1, <2>2 DEF PoolInv, PoolTypeOK, IInv
<1>7. HereInv'
  BY Zenon, <1>0, <1>1, <1>6, FreshBlockNext DEF Fresh
<1>8. BlocksSettled'
  <2>1. Settled(b)
    BY <1>0, <1>3, IdleIsSettled DEF PoolInv
  <2>2. \A i \in 1 .. m : IsFiniteSet(chain[i].body) /\ Settled(chain[i])
    BY <1>4 DEF PoolInv, BlocksSettled
  <2>3. \A i \in 1 .. m + 1 : IsFiniteSet(chain'[i].body) /\ Settled(chain'[i])
    BY <1>1, <1>3, <1>4, <1>5, <2>1, <2>2
  <2> QED BY <1>5, <2>3 DEF BlocksSettled
<1>9. NoncesGrow'
  <2>0. /\ grows(b, b) /\ grows(chain[m], b)
        /\ \A t \in extrinsics : used_by(t, b) /\ unused_at(t, chain[m])
        /\ Counted(b) /\ \A i \in 1 .. m : Counted(chain[i])
    <3>1. Counted(b) /\ grows(b, b) /\ \A i \in 1 .. m : Counted(chain[i])
      BY Zenon, <1>3, <1>4, BlocksCounted DEF PoolInv
    <3>2. /\ grows(Best, here)
          /\ \A t \in extrinsics : unused_at(t, Best) /\ used_by(t, here)
      BY DEF PoolInv, NoncesGrowHere
    <3>3. grows(chain[m], b) /\ \A t \in extrinsics : used_by(t, b)
      BY <1>3, <1>4, <3>2 DEF grows, used_by, here
    <3> QED BY Zenon, <1>4, <3>1, <3>2, <3>3
  <2>1. \A i, j \in 1 .. m + 1 : i <= j => grows(chain'[i], chain'[j])
    <3> SUFFICES ASSUME NEW i \in 1 .. m + 1, NEW j \in 1 .. m + 1, i <= j
                 PROVE  grows(chain'[i], chain'[j])
      OBVIOUS
    <3>1. CASE j <= m
      BY <1>4, <1>5, <3>1 DEF PoolInv, NoncesGrow
    <3>2. CASE j = m + 1 /\ i = m + 1
      BY <1>5, <2>0, <3>2
    <3>3. CASE j = m + 1 /\ i <= m
      <4>1. i \in 1 .. m /\ m \in 1 .. m
        BY <1>4, <3>3
      <4>2. grows(chain[i], chain[m])
        BY <1>4, <3>3, <4>1 DEF PoolInv, NoncesGrow
      <4>3. grows(chain[i], b)
        BY Zenon, <2>0, <4>1, <4>2, GrowthFacts
      <4> QED BY <1>5, <3>3, <4>1, <4>3
    <3> QED BY <1>4, <3>1, <3>2, <3>3
  <2>2. ASSUME NEW i \in 1 .. m + 1
        PROVE  UniqueSlots(applied(i)') /\ \A t \in applied(i)' : used_by(t, chain'[i])
    <3>1. CASE i <= m
      <4>1. applied(i)' = applied(i) /\ chain'[i] = chain[i]
        BY <1>0, <1>4, <1>5, <3>1 DEF applied
      <4> QED BY <1>4, <3>1, <4>1 DEF PoolInv, NoncesGrow
    <3>2. CASE i = m + 1
      <4>1. applied(i)' = extrinsics /\ chain'[i] = b
        BY <1>3, <1>4, <1>5, <3>2 DEF applied
      <4> QED BY <2>0, <4>1 DEF PoolInv, NoncesGrowHere
    <3> QED BY <1>4, <3>1, <3>2
  <2>3. \A i \in 2 .. m + 1 : \A t \in chain'[i].body : unused_at(t, chain'[i - 1])
    <3> SUFFICES ASSUME NEW i \in 2 .. m + 1, NEW t \in chain'[i].body
                 PROVE  unused_at(t, chain'[i - 1])
      OBVIOUS
    <3>0. chain'[i - 1] = chain[i - 1]
      BY <1>4, <1>5
    <3>1. CASE i <= m
      BY <1>4, <1>5, <3>0, <3>1 DEF PoolInv, NoncesGrow
    <3>2. CASE i = m + 1
      BY <1>3, <1>4, <1>5, <2>0, <3>0, <3>2
    <3> QED BY <1>4, <3>1, <3>2
  <2> QED BY <1>5, <2>1, <2>2, <2>3 DEF NoncesGrow
<1>10. BlockRespectsSponsor'
  <2>1. \A i \in 2 .. m, a \in AccountId :
           (\A tx \in chain[i].body : origin(tx) # a) =>
               Allowed(chain[i - 1].Sponsors[a], OnHold(chain[i - 1].account[a]),
                       OnHold(chain[i].account[a]), chain[i].body, a)
    BY <1>4 DEF PoolInv, BlockRespectsSponsor, Allowed, m
  <2>2. \A a \in AccountId :
           (\A tx \in b.body : origin(tx) # a) =>
               Allowed(chain[m].Sponsors[a], OnHold(chain[m].account[a]),
                       OnHold(b.account[a]), b.body, a)
    BY <1>1, <1>3, <1>4 DEF PoolInv, ChargesAllowed, does_nothing
  <2>3. \A i \in 2 .. m + 1, a \in AccountId :
           (\A tx \in chain'[i].body : origin(tx) # a) =>
               Allowed(chain'[i - 1].Sponsors[a], OnHold(chain'[i - 1].account[a]),
                       OnHold(chain'[i].account[a]), chain'[i].body, a)
    <3> SUFFICES ASSUME NEW i \in 2 .. m + 1, NEW a \in AccountId,
                        \A tx \in chain'[i].body : origin(tx) # a
                 PROVE  Allowed(chain'[i - 1].Sponsors[a], OnHold(chain'[i - 1].account[a]),
                                OnHold(chain'[i].account[a]), chain'[i].body, a)
      OBVIOUS
    <3>0. chain'[i - 1] = chain[i - 1]
      BY <1>4, <1>5
    <3>1. CASE i <= m
      BY <1>4, <1>5, <2>1, <3>0, <3>1
    <3>2. CASE i = m + 1
      BY <1>4, <1>5, <2>2, <3>0, <3>2
    <3> QED BY <1>4, <3>1, <3>2
  <2> QED BY <1>5, <2>3 DEF BlockRespectsSponsor, Allowed
<1> QED
  BY <1>2, <1>6, <1>7, <1>8, <1>9, <1>10 DEF PoolInv, HereInv

\* Ageing changes nothing of what a block uses and charges.
LEMMA AgedFacts ==
    ASSUME NEW S \in SUBSET SignedExtrinsic, IsFiniteSet(S), UniqueSlots(S)
    PROVE  /\ aged(S) \in SUBSET SignedExtrinsic /\ IsFiniteSet(aged(S))
           /\ UniqueSlots(aged(S))
           /\ \A a : spent(a, aged(S)) = spent(a, S)
<1>1. aged(S) \in SUBSET SignedExtrinsic
  BY OlderFacts DEF aged
<1>2. IsFiniteSet(aged(S))
  BY OlderFinite DEF aged
<1>3. UniqueSlots(aged(S))
  <2> SUFFICES ASSUME NEW t \in aged(S), NEW u \in aged(S), same_use(t, u) PROVE t = u
    BY DEF UniqueSlots
  <2>1. PICK x \in S, y \in S : t = older(x) /\ u = older(y)
    BY DEF aged
  <2>2. same_use(x, y)
    BY <2>1, OlderFacts DEF same_use, same_slot
  <2> QED BY <2>1, <2>2 DEF UniqueSlots
<1>4. ASSUME NEW a PROVE spent(a, aged(S)) = spent(a, S)
  <2> DEFINE R == {tx \in S : tx.sponsor = a}
  <2>1. R \in SUBSET SignedExtrinsic /\ IsFiniteSet(R) /\ UniqueSlots(R)
    <3>1. IsFiniteSet(R)
      BY FS_Subset
    <3> QED BY <3>1 DEF UniqueSlots
  <2>2. {tx \in aged(S) : tx.sponsor = a} = {older(tx) : tx \in R}
    BY OlderFacts DEF aged
  <2>3. spent(a, S) = Total(R) /\ spent(a, aged(S)) = Total({older(tx) : tx \in R})
    <3>1. spent(a, aged(S)) = Total({tx \in aged(S) : tx.sponsor = a})
      BY DEF spent, Total
    <3>2. spent(a, S) = Total(R)
      BY DEF spent, Total
    <3> HIDE DEF R
    <3> QED BY Zenon, <2>2, <3>1, <3>2
  <2> HIDE DEF R
  <2> QED BY <2>1, <2>3, TotalOlder
<1> QED
  BY Zenon, <1>1, <1>2, <1>3, <1>4

\* Growing older leaves what a body may have cost its sponsors as it was.
LEMMA AgedAllowed ==
    ASSUME NEW S \in SUBSET SignedExtrinsic, IsFiniteSet(S), UniqueSlots(S),
           NEW st, NEW before, NEW after, NEW a, Allowed(st, before, after, S, a)
    PROVE  Allowed(st, before, after, aged(S), a)
<1>1. \A t \in aged(S) : \E x \in S : t.sponsor = x.sponsor /\ t.paid = x.paid
  BY OlderFacts DEF aged
<1>2. spent(a, aged(S)) = spent(a, S)
  BY AgedFacts
<1> QED
  BY <1>1, <1>2 DEF Allowed

\* A block that becomes final leaves the segment and its extrinsics join the final ones.
LEMMA FinalizeStep ==
    ASSUME PoolInv, finalize
    PROVE  PoolInv'
<1> DEFINE m    == Len(chain)
           kept == {[tx EXCEPT !.age = 0] : tx \in chain[2].body}
<1>0. /\ ~building /\ m > 1 /\ final' = final \cup kept
      /\ chain' = [i \in 1 .. m - 1 |-> [chain[i + 1] EXCEPT !.body = aged(@)]]
      /\ pool' = aged(pool) /\ gossip' = {tx \in aged(gossip) : tx.mortal => tx.age < Period}
      /\ UNCHANGED vars /\ nonce' = nonce /\ deaths' = deaths /\ building' = building
      /\ extrinsics' = extrinsics /\ current' = current
      /\ retractions' = retractions /\ signatures' = signatures
      /\ account' = account /\ Sponsors' = Sponsors /\ xt' = xt
  BY DEF finalize, vars, aged
<1>1. IInv'
  BY <1>0, IInvUnchanged DEF PoolInv
<1>2. extrinsics = {} /\ xt.phase = "idle" /\ current = None
  BY <1>0 DEF PoolInv, CurrentInFlight
<1>3. /\ m \in Nat /\ DOMAIN chain = 1 .. m /\ Best = chain[m]
      /\ m <= UNINCLUDED_SEGMENT_CAPACITY + 1
      /\ \A i \in 1 .. m : chain[i] \in Block
  BY BestFacts DEF PoolInv, PoolTypeOK
<1>4. /\ DOMAIN chain' = 1 .. m - 1
      /\ \A i \in 1 .. m - 1 :
            /\ chain'[i] = [chain[i + 1] EXCEPT !.body = aged(@)]
            /\ i + 1 \in 1 .. m /\ chain[i + 1] \in Block
  BY <1>0, <1>3
<1> HIDE DEF m
<1>5. \A i \in 2 .. m :
         /\ chain[i].body \in SUBSET SignedExtrinsic /\ IsFiniteSet(chain[i].body)
         /\ UniqueSlots(chain[i].body)
  <2> SUFFICES ASSUME NEW i \in 2 .. m
               PROVE  /\ chain[i].body \in SUBSET SignedExtrinsic
                      /\ IsFiniteSet(chain[i].body) /\ UniqueSlots(chain[i].body)
    OBVIOUS
  <2>1. i \in 1 .. m /\ i # 1
    BY <1>3
  <2>2. chain[i].body \in SUBSET SignedExtrinsic
    BY <1>3, <2>1, BlockFacts
  <2>3. IsFiniteSet(chain[i].body)
    BY <1>3, <2>1 DEF PoolInv, BlocksSettled
  <2>4. UniqueSlots(applied(i)) /\ applied(i) = chain[i].body
    BY <1>3, <2>1 DEF PoolInv, NoncesGrow, applied
  <2> QED BY <2>2, <2>3, <2>4
<1>6. \A i \in 1 .. m - 1 :
         /\ chain'[i].account = chain[i + 1].account
         /\ chain'[i].Sponsors = chain[i + 1].Sponsors
         /\ chain'[i].nonce = chain[i + 1].nonce
         /\ chain'[i].deaths = chain[i + 1].deaths
         /\ chain'[i].body = aged(chain[i + 1].body)
         /\ chain'[i] \in Block
  <2> SUFFICES ASSUME NEW i \in 1 .. m - 1
               PROVE  /\ chain'[i].account = chain[i + 1].account
                      /\ chain'[i].Sponsors = chain[i + 1].Sponsors
                      /\ chain'[i].nonce = chain[i + 1].nonce
                      /\ chain'[i].deaths = chain[i + 1].deaths
                      /\ chain'[i].body = aged(chain[i + 1].body)
                      /\ chain'[i] \in Block
    OBVIOUS
  <2>1. i + 1 \in 2 .. m
    BY <1>3
  <2>2. aged(chain[i + 1].body) \in SUBSET SignedExtrinsic
    BY <1>5, <2>1, AgedFacts
  <2> DEFINE S == aged(chain[i + 1].body)
  <2>3. chain[i + 1] \in Block /\ chain'[i] = [chain[i + 1] EXCEPT !.body = S]
    BY <1>4
  <2> HIDE DEF S
  <2>4. [chain[i + 1] EXCEPT !.body = S] \in Block
    BY <2>2, <2>3 DEF Block, S
  <2> QED BY <2>3, <2>4 DEF Block, S
<1>7. chain' \in Seq(Block) /\ Len(chain') = m - 1
  <2>1. m - 1 \in Nat /\ chain' \in [1 .. m - 1 -> Block]
    BY <1>0, <1>3, <1>6
  <2> QED BY <2>1
<1>8. /\ final' \subseteq SignedExtrinsic /\ pool' \subseteq SignedExtrinsic
      /\ gossip' \subseteq SignedExtrinsic
  <2>1. 2 \in 1 .. m
    BY <1>0, <1>3
  <2>2. chain[2].body \subseteq SignedExtrinsic
    BY <1>3, <2>1, BlockFacts
  <2>3. \A tx \in SignedExtrinsic : [tx EXCEPT !.age = 0] \in SignedExtrinsic
    BY DEF SignedExtrinsic
  <2>4. aged(pool) \subseteq SignedExtrinsic /\ aged(gossip) \subseteq SignedExtrinsic
    BY OlderFacts DEF aged, PoolInv, PoolTypeOK
  <2> QED BY <1>0, <2>2, <2>3, <2>4 DEF PoolInv, PoolTypeOK
<1>9. PoolTypeOK'
  <2>1. Len(chain') \in 1 .. UNINCLUDED_SEGMENT_CAPACITY + 1
    BY <1>0, <1>3, <1>7, TransactionPoolAssumption
  <2>2. Best' = chain'[m - 1] /\ m - 1 \in 1 .. m - 1 /\ (m - 1) + 1 = m
    BY <1>0, <1>3, <1>7 DEF Best
  <2>3. /\ Best'.account = Best.account /\ Best'.Sponsors = Best.Sponsors
        /\ Best'.nonce = Best.nonce /\ Best'.deaths = Best.deaths
    BY <1>3, <1>6, <2>2
  <2> QED BY Zenon, <1>0, <1>1, <1>7, <1>8, <2>1, <2>3 DEF PoolInv, PoolTypeOK, IInv
<1>10. HereInv'
  BY Zenon, <1>0, <1>2, <1>9, FreshBlockNext DEF Fresh
<1>11. BlocksSettled'
  <2> SUFFICES ASSUME NEW i \in 1 .. m - 1
               PROVE  IsFiniteSet(chain'[i].body) /\ Settled(chain'[i])
    BY <1>4 DEF BlocksSettled
  <2>1. i + 1 \in 2 .. m /\ i + 1 \in 1 .. m
    BY <1>3
  <2>2. IsFiniteSet(chain'[i].body)
    BY Zenon, <1>5, <1>6, <2>1, AgedFacts
  <2>3. Settled(chain[i + 1])
    BY <1>3, <2>1 DEF PoolInv, BlocksSettled
  <2>4. Settled(chain'[i])
    BY <1>6, <2>3 DEF Settled
  <2> QED BY <2>2, <2>4
<1>12. NoncesGrow'
  <2>0. /\ \A i \in 1 .. m : Counted(chain[i])
        /\ \A i, j \in 1 .. m : i <= j => grows(chain[i], chain[j])
        /\ \A i \in 1 .. m : \A t \in applied(i) : used_by(t, chain[i])
        /\ \A i \in 2 .. m : \A t \in chain[i].body : unused_at(t, chain[i - 1])
        /\ UniqueSlots(final)
    <3>1. \A i \in 1 .. m : Counted(chain[i])
      BY Zenon, <1>3, BlocksCounted DEF PoolInv
    <3>2. 1 \in 1 .. m /\ applied(1) = final
      BY <1>0, <1>3 DEF applied
    <3> QED BY Zenon, <1>3, <3>1, <3>2 DEF PoolInv, NoncesGrow, m
  <2>1. \A i, j \in 1 .. m - 1 : i <= j => grows(chain'[i], chain'[j])
    <3> SUFFICES ASSUME NEW i \in 1 .. m - 1, NEW j \in 1 .. m - 1, i <= j
                 PROVE  grows(chain'[i], chain'[j])
      OBVIOUS
    <3>1. grows(chain[i + 1], chain[j + 1])
      BY <1>3, <1>4, <2>0
    <3> QED BY Zenon, <1>6, <3>1 DEF grows
  <2>2. \A i \in 2 .. m : \A t \in chain[i].body :
            t \in SignedExtrinsic /\ used_by(t, chain[i]) /\ unused_at(t, chain[i - 1])
    BY <1>3, <1>5, <2>0 DEF applied
  <2>3. ASSUME NEW i \in 2 .. m - 1
        PROVE  /\ UniqueSlots(applied(i)')
               /\ \A t \in applied(i)' : used_by(t, chain'[i]) /\ unused_at(t, chain'[i - 1])
    <3>1. i + 1 \in 2 .. m /\ i \in 1 .. m - 1 /\ i - 1 \in 1 .. m - 1 /\ (i - 1) + 1 = i
          /\ (i + 1) - 1 = i
      BY <1>3
    <3>2. applied(i)' = aged(chain[i + 1].body)
      BY <1>6, <3>1 DEF applied
    <3>3. UniqueSlots(applied(i)')
      BY <1>5, <3>1, <3>2, AgedFacts
    <3>4. ASSUME NEW t \in applied(i)'
          PROVE  used_by(t, chain'[i]) /\ unused_at(t, chain'[i - 1])
      <4>1. PICK x \in chain[i + 1].body : t = older(x)
        BY <3>2 DEF aged
      <4>2. x \in SignedExtrinsic /\ used_by(x, chain[i + 1]) /\ unused_at(x, chain[i])
        BY <2>2, <3>1
      <4>3. t.nonce = x.nonce /\ t.signer = x.signer /\ t.life = x.life
        BY <4>1, <4>2, OlderFacts
      <4>4. /\ chain'[i].nonce = chain[i + 1].nonce /\ chain'[i - 1].nonce = chain[i].nonce
            /\ chain'[i].deaths = chain[i + 1].deaths /\ chain'[i - 1].deaths = chain[i].deaths
        BY <1>6, <3>1
      <4> QED BY Zenon, <4>2, <4>3, <4>4 DEF used_by, unused_at
    <3> QED BY <3>3, <3>4
  <2>4. UniqueSlots(applied(1)') /\ \A t \in applied(1)' : used_by(t, chain'[1])
    <3>0. applied(1)' = final \cup kept /\ chain'[1].nonce = chain[2].nonce
          /\ chain'[1].deaths = chain[2].deaths
          /\ 1 \in 1 .. m /\ 2 \in 1 .. m /\ 2 \in 2 .. m
      BY <1>0, <1>3, <1>6 DEF applied
    <3>1. \A t \in final :
             t \in SignedExtrinsic /\ used_by(t, chain[1]) /\ used_by(t, chain[2])
      <4>1. \A t \in final : t \in SignedExtrinsic /\ used_by(t, chain[1])
        BY <2>0, <3>0 DEF applied, PoolInv, PoolTypeOK
      <4>2. Counted(chain[1]) /\ Counted(chain[2]) /\ grows(chain[1], chain[2])
        BY <2>0, <3>0
      <4> QED BY Zenon, <4>1, <4>2, GrowthFacts
    <3>2. \A t \in kept : \E x \in chain[2].body :
             /\ t = [x EXCEPT !.age = 0] /\ t.nonce = x.nonce /\ t.signer = x.signer
             /\ t.life = x.life /\ t \in SignedExtrinsic
             /\ used_by(t, chain[2]) /\ unused_at(t, chain[1])
      <4>1. ASSUME NEW x \in chain[2].body
            PROVE  /\ [x EXCEPT !.age = 0].nonce = x.nonce
                   /\ [x EXCEPT !.age = 0].signer = x.signer
                   /\ [x EXCEPT !.age = 0].life = x.life
                   /\ [x EXCEPT !.age = 0] \in SignedExtrinsic
        BY <2>2, <3>0 DEF SignedExtrinsic
      <4>2. \A x \in chain[2].body : used_by(x, chain[2]) /\ unused_at(x, chain[1])
        BY <2>2, <3>0
      <4> QED BY Zenon, <4>1, <4>2 DEF used_by, unused_at
    <3>3. ASSUME NEW t \in final, NEW u \in kept PROVE ~same_use(t, u) /\ ~same_use(u, t)
      <4>1. Counted(chain[1]) /\ grows(chain[1], chain[1])
        BY <2>0, <3>0
      <4>2. /\ t \in SignedExtrinsic /\ used_by(t, chain[1])
            /\ u \in SignedExtrinsic /\ unused_at(u, chain[1])
        BY Zenon, <3>1, <3>2
      <4> QED BY Zenon, <4>1, <4>2, GrowthFacts
    <3>4. UniqueSlots(kept)
      <4> SUFFICES ASSUME NEW t \in kept, NEW u \in kept, same_use(t, u) PROVE t = u
        BY DEF UniqueSlots
      <4>1. PICK x \in chain[2].body :
               /\ t = [x EXCEPT !.age = 0]
               /\ t.nonce = x.nonce /\ t.signer = x.signer /\ t.life = x.life
        BY <3>2
      <4>2. PICK y \in chain[2].body :
               /\ u = [y EXCEPT !.age = 0]
               /\ u.nonce = y.nonce /\ u.signer = y.signer /\ u.life = y.life
        BY <3>2
      <4>3. x = y
        BY <1>5, <3>0, <4>1, <4>2 DEF UniqueSlots, same_use, same_slot
      <4> QED BY <4>1, <4>2, <4>3
    <3> HIDE DEF kept
    <3>5. UniqueSlots(final \cup kept)
      BY <2>0, <3>3, <3>4 DEF UniqueSlots
    <3>6. \A t \in final \cup kept : used_by(t, chain[2])
      BY Zenon, <3>1, <3>2
    <3> QED BY Zenon, <3>0, <3>5, <3>6 DEF used_by
  <2>5. \A i \in 1 .. m - 1 : i = 1 \/ i \in 2 .. m - 1
    BY <1>3
  <2>6. \A i \in 2 .. m - 1 : applied(i)' = chain'[i].body
    BY DEF applied
  <2> QED BY <1>4, <1>7, <2>1, <2>3, <2>4, <2>5, <2>6 DEF NoncesGrow
<1>13. BlockRespectsSponsor'
  <2> SUFFICES ASSUME NEW i \in 2 .. m - 1, NEW a \in AccountId,
                      \A tx \in chain'[i].body : origin(tx) # a
               PROVE  Allowed(chain'[i - 1].Sponsors[a], OnHold(chain'[i - 1].account[a]),
                              OnHold(chain'[i].account[a]), chain'[i].body, a)
    BY <1>7 DEF BlockRespectsSponsor, Allowed
  <2>1. i + 1 \in 2 .. m /\ i \in 1 .. m - 1 /\ i - 1 \in 1 .. m - 1 /\ (i - 1) + 1 = i
        /\ (i + 1) - 1 = i
    BY <1>3
  <2> DEFINE S == chain[i + 1].body
  <2>2. S \in SUBSET SignedExtrinsic /\ IsFiniteSet(S) /\ UniqueSlots(S)
    BY <1>5, <2>1
  <2>3. chain'[i].body = aged(S)
    BY <1>6, <2>1
  <2>4. \A tx \in S : origin(tx) # a
    BY <2>2, <2>3, OlderFacts DEF aged, origin
  <2>5. Allowed(chain[i].Sponsors[a], OnHold(chain[i].account[a]),
                OnHold(chain[i + 1].account[a]), S, a)
    BY <2>1, <2>4 DEF PoolInv, BlockRespectsSponsor, Allowed, m
  <2> HIDE DEF S
  <2>6. Allowed(chain[i].Sponsors[a], OnHold(chain[i].account[a]),
                OnHold(chain[i + 1].account[a]), aged(S), a)
    BY <2>2, <2>5, AgedAllowed
  <2>7. chain'[i - 1].Sponsors = chain[i].Sponsors /\ chain'[i - 1].account = chain[i].account
        /\ chain'[i].account = chain[i + 1].account
    BY <1>6, <2>1
  <2> QED BY <2>3, <2>6, <2>7
<1> QED
  BY <1>1, <1>9, <1>10, <1>11, <1>12, <1>13 DEF PoolInv, HereInv

\* A reorganisation goes back to the state of an earlier block, which is one the pallet can
\* continue from.
LEMMA RetractStep ==
    ASSUME PoolInv, NEW k \in 1 .. Len(chain), retract(k)
    PROVE  PoolInv'
<1> DEFINE m == Len(chain)
<1>0. /\ ~building /\ k < m /\ chain' = SubSeq(chain, 1, k)
      /\ account' = chain[k].account /\ Sponsors' = chain[k].Sponsors
      /\ nonce' = chain[k].nonce /\ deaths' = chain[k].deaths
      /\ retractions' = retractions + 1 /\ gossip' = gossip
      /\ pool' = pool \cup
            UNION {{unapplied(tx) : tx \in chain[i].body} : i \in k + 1 .. m}
      /\ xt' = xt /\ event' = event /\ building' = building
      /\ extrinsics' = extrinsics /\ current' = current
      /\ final' = final /\ signatures' = signatures
  BY DEF retract
<1>1. extrinsics = {} /\ xt.phase = "idle" /\ current = None
  BY <1>0 DEF PoolInv, CurrentInFlight
<1>2. /\ m \in Nat /\ DOMAIN chain = 1 .. m /\ k \in Nat /\ k >= 1
      /\ m <= UNINCLUDED_SEGMENT_CAPACITY + 1
      /\ \A i \in 1 .. m : chain[i] \in Block
  BY BestFacts DEF PoolInv, PoolTypeOK
<1>3. /\ chain' \in Seq(Block) /\ Len(chain') = k /\ DOMAIN chain' = 1 .. k
      /\ \A i \in 1 .. k : chain'[i] = chain[i] /\ i \in 1 .. m
  <2>1. chain \in Seq(Block)
    BY DEF PoolInv, PoolTypeOK
  <2> QED BY <1>0, <1>2, <2>1
<1>4. Settled(chain[k]) /\ chain[k] \in Block
  BY <1>2 DEF PoolInv, BlocksSettled
<1>5. IInv'
  <2>1. TypeOK'
    BY Zenon, <1>0, <1>4, BlockFacts DEF PoolInv, IInv, TypeOK
  <2>2. NoDust'
    BY <1>0, <1>4 DEF Settled, Sound, NoDust
  <2>3. FlightOK'
    BY <1>0 DEF PoolInv, IInv, FlightOK
  <2>4. PendingIsReservation'
    BY <1>0, <1>1, <1>4 DEF Settled, PendingIsReservation, pending_on_hold, sponsored_by
  <2>5. UnregisteredHoldsNothing'
    BY <1>0, <1>4 DEF Settled, UnregisteredHoldsNothing, is_registered
  <2> QED BY <2>1, <2>2, <2>3, <2>4, <2>5 DEF IInv
<1> HIDE DEF m
<1>6. pool' \subseteq SignedExtrinsic
  <2>1. \A tx \in SignedExtrinsic : unapplied(tx) \in SignedExtrinsic
    BY Zenon DEF unapplied, SignedExtrinsic
  <2>2. \A i \in k + 1 .. m : chain[i].body \subseteq SignedExtrinsic
    BY <1>2, BlockFacts
  <2>3. pool \subseteq SignedExtrinsic
    BY DEF PoolInv, PoolTypeOK
  <2> QED BY <1>0, <2>1, <2>2, <2>3
<1>7. PoolTypeOK'
  <2>0. UNINCLUDED_SEGMENT_CAPACITY \in Nat
    BY TransactionPoolAssumption
  <2>1. Len(chain') \in 1 .. UNINCLUDED_SEGMENT_CAPACITY + 1
    BY <1>0, <1>2, <1>3, <2>0
  <2>2. Best' = chain[k]
    BY <1>2, <1>3 DEF Best
  <2>3. nonce' \in [AccountId -> Nat] /\ deaths' \in [AccountId -> Nat]
    BY <1>0, <1>4, BlockFacts
  <2>4. retractions' \in Nat
    BY <1>0 DEF PoolInv, PoolTypeOK
  <2> QED BY <1>0, <1>3, <1>5, <1>6, <2>1, <2>2, <2>3, <2>4 DEF PoolInv, PoolTypeOK, IInv
<1>8. HereInv'
  BY Zenon, <1>0, <1>1, <1>7, FreshBlockNext DEF Fresh
<1>9. BlocksSettled'
  BY <1>2, <1>3 DEF PoolInv, BlocksSettled
<1>10. NoncesGrow'
  <2>1. \A i \in 1 .. k : applied(i)' = applied(i)
    BY <1>0, <1>3 DEF applied
  <2>2. NoncesGrow
    BY DEF PoolInv
  <2>3. \A i, j \in 1 .. k : i <= j => grows(chain'[i], chain'[j])
    BY <1>2, <1>3, <2>2 DEF NoncesGrow
  <2>4. \A i \in 1 .. k :
            UniqueSlots(applied(i)') /\ \A t \in applied(i)' : used_by(t, chain'[i])
    BY <1>2, <1>3, <2>1, <2>2 DEF NoncesGrow
  <2>5. \A i \in 2 .. k : i \in 2 .. m /\ i \in 1 .. k /\ i - 1 \in 1 .. k
    BY <1>0, <1>2
  <2>6. \A i \in 2 .. k : \A t \in chain'[i].body : unused_at(t, chain'[i - 1])
    BY <1>3, <2>2, <2>5 DEF NoncesGrow, m
  <2> QED BY <1>3, <2>3, <2>4, <2>6 DEF NoncesGrow
<1>11. BlockRespectsSponsor'
  <2>1. \A i \in 2 .. k : i \in 2 .. m /\ i \in 1 .. k /\ i - 1 \in 1 .. k
    BY <1>0, <1>2
  <2>2. \A i \in 2 .. k : chain'[i] = chain[i] /\ chain'[i - 1] = chain[i - 1]
    BY <1>3, <2>1
  <2>3. \A i \in 2 .. k, a \in AccountId :
           (\A tx \in chain[i].body : origin(tx) # a) =>
               Allowed(chain[i - 1].Sponsors[a], OnHold(chain[i - 1].account[a]),
                       OnHold(chain[i].account[a]), chain[i].body, a)
    BY <2>1 DEF PoolInv, BlockRespectsSponsor, Allowed, m
  <2>4. \A i \in 2 .. k, a \in AccountId :
           (\A tx \in chain'[i].body : origin(tx) # a) =>
               Allowed(chain'[i - 1].Sponsors[a], OnHold(chain'[i - 1].account[a]),
                       OnHold(chain'[i].account[a]), chain'[i].body, a)
    BY Zenon, <2>2, <2>3
  <2> QED BY <1>3, <2>4 DEF BlockRespectsSponsor, Allowed
<1> QED
  BY <1>5, <1>7, <1>8, <1>9, <1>10, <1>11 DEF PoolInv, HereInv
=============================================================================

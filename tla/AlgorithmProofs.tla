-------------------------- MODULE AlgorithmProofs --------------------------
(***************************************************************************)
(* The pure algorithms, for every input: the vote threshold, checkpoint    *)
(* signatures, the relayer's call, the election of a slot and the rewards  *)
(* of an epoch.                                                            *)
(***************************************************************************)
EXTENDS Algorithms, SumTheorems

\* A behaviour keeps the input it picked.
LEMMA InputInvariant == Spec => []Input
<1>1. Init => Input
  BY DEF Init
<1>2. Input /\ [Next]_<<currentSlot, input>> => Input'
  BY DEF Input, Next
<1> QED
  BY <1>1, <1>2, PTL DEF Spec

-----------------------------------------------------------------------------
(* The vote threshold, for every stake an int64 can multiply by the basis  *)
(* points without wrapping around                                          *)

\* Stakes whose product with DisputeVoteThresholdBPS is an int64.
SafeStakes == {s \in Nat : s * DisputeVoteThresholdBPS <= Int64Max}

\* Up to Int64Max the conversion to int64 changes nothing.
LEMMA Int64Identity == \A x \in 0 .. Int64Max : Int64(x) = x
<1> SUFFICES ASSUME NEW x \in 0 .. Int64Max PROVE Int64(x) = x
    OBVIOUS
<1> DEFINE w == Int64Max + 1
<1>1. w \in Nat /\ x + w \in Nat /\ x + w < 2 * w /\ 2 * w > 0
    BY TypesAssumption DEF TypesAssumption
<1>2. (x + w) % (2 * w) = x + w
    <2> HIDE DEF w
    <2> QED BY <1>1
<1> QED BY <1>1, <1>2 DEF Int64

\* The threshold of a safe stake is the stake times 6667 over 10000, rounded
\* down.
LEMMA ThresholdIsQuotient ==
    \A s \in SafeStakes : VoteThreshold(s) = (s * 6667) \div 10000
<1> SUFFICES ASSUME NEW s \in SafeStakes
             PROVE VoteThreshold(s) = (s * 6667) \div 10000
    OBVIOUS
<1>1. s * 6667 \in 0 .. Int64Max
    BY TypesAssumption DEF TypesAssumption, SafeStakes, DisputeVoteThresholdBPS
<1>2. Int64(s * 6667) = s * 6667
    BY <1>1, Int64Identity
<1> QED BY <1>1, <1>2 DEF VoteThreshold, Quot, DisputeVoteThresholdBPS

\* Votes pass the threshold of a safe stake exactly when they exceed 66.67% of
\* it: the rounding of the tally's division decides nothing.
THEOREM ThresholdIsExact ==
    \A s \in SafeStakes, votes \in Nat :
       votes > VoteThreshold(s) <=> 10000 * votes > 6667 * s
<1> SUFFICES ASSUME NEW s \in SafeStakes, NEW votes \in Nat
             PROVE votes > VoteThreshold(s) <=> 10000 * votes > 6667 * s
    OBVIOUS
<1> DEFINE q == (s * 6667) \div 10000
<1>1. s \in Nat
    BY DEF SafeStakes
<1>2. q \in Int /\ 10000 * q <= 6667 * s /\ 6667 * s < 10000 * (q + 1)
    BY <1>1
<1>3. VoteThreshold(s) = q
    BY ThresholdIsQuotient
<1> HIDE DEF q
<1> QED BY <1>1, <1>2, <1>3

\* A dispute on a safe stake is upheld only by more than two thirds of it, and
\* an upholding and a dismissing majority never exist together.
THEOREM ThresholdIsTwoThirdsMajority ==
    \A s \in SafeStakes, votes, others \in Nat :
       votes > VoteThreshold(s) =>
          /\ 3 * votes > 2 * s
          /\ votes + others <= s => others <= VoteThreshold(s)
<1> SUFFICES ASSUME NEW s \in SafeStakes, NEW votes \in Nat, NEW others \in Nat,
                    votes > VoteThreshold(s)
             PROVE /\ 3 * votes > 2 * s
                   /\ votes + others <= s => others <= VoteThreshold(s)
    OBVIOUS
<1>1. s \in Nat /\ 10000 * votes > 6667 * s
    BY ThresholdIsExact DEF SafeStakes
<1>2. VoteThreshold(s) \in Int
    BY <1>1, ThresholdIsQuotient
<1>3. ASSUME votes + others <= s, others > VoteThreshold(s) PROVE FALSE
    <2>1. 10000 * others > 6667 * s
        BY <1>3, ThresholdIsExact
    <2> QED BY <1>1, <1>3, <2>1
<1> QED BY <1>1, <1>2, <1>3

\* The threshold of a single input.
LEMMA ThresholdOfInput == Input => ThresholdIsTwoThirds
<1> SUFFICES ASSUME Input, input.of = "threshold",
                    input.stake <= Int64Max \div DisputeVoteThresholdBPS
             PROVE  /\ \A votes \in (VoteThreshold(input.stake) - 1)
                                      .. (VoteThreshold(input.stake) + 2) :
                         /\ votes > VoteThreshold(input.stake)
                              <=> 10000 * votes > DisputeVoteThresholdBPS * input.stake
                         /\ votes > VoteThreshold(input.stake) => 3 * votes > 2 * input.stake
                    /\ input.stake > 0 => input.stake > VoteThreshold(input.stake)
  BY DEF ThresholdIsTwoThirds
<1>1. PICK stake \in Stakes : stake = input.stake
  BY DEF Input
<1>2. stake \in Nat /\ stake <= Int64Max \div 6667
  BY <1>1, AlgorithmsAssumption DEF DisputeVoteThresholdBPS
<1>3. stake \in SafeStakes
  BY <1>2, TypesAssumption DEF SafeStakes, DisputeVoteThresholdBPS
<1>4. PICK t \in Int : /\ t = VoteThreshold(stake)
                      /\ t = (stake * 6667) \div 10000
  BY <1>2, <1>3, ThresholdIsQuotient
<1>5. 10000 * t <= 6667 * stake /\ 6667 * stake < 10000 * (t + 1)
  BY <1>2, <1>4
<1>6. /\ \A votes \in (t - 1) .. (t + 2) :
           /\ votes > t <=> 10000 * votes > 6667 * stake
           /\ votes > t => 3 * votes > 2 * stake
      /\ stake > 0 => stake > t
  BY <1>2, <1>5
<1> QED
  BY <1>1, <1>4, <1>6 DEF DisputeVoteThresholdBPS

\* The tally's threshold is 66.67% of the stake, rounded so that it decides
\* nothing, for every stake whose product with the basis points is an int64.
THEOREM ThresholdTheorem == Spec => []ThresholdIsTwoThirds
  BY InputInvariant, ThresholdOfInput, PTL

-----------------------------------------------------------------------------
(* Checkpoint signatures                                                   *)

\* A signature recovers to its signer under the hash it signs, and to the zero
\* address under any other.
LEMMA RecoveredSigner ==
    ASSUME NEW k \in Keys, NEW h, NEW g
    PROVE  RecoverCompact(SignCompact(k, h), g) = IF g = h THEN Address[k] ELSE 0
<1>1. ASSUME NEW l \in Keys
      PROVE  SignCompact(l, g) = SignCompact(k, h) <=> l = k /\ g = h
  BY DEF SignCompact
<1>2. CASE g = h
  <2>1. (CHOOSE l \in Keys : SignCompact(l, g) = SignCompact(k, h)) = k
    BY <1>1, <1>2
  <2> QED
    BY <1>1, <1>2, <2>1 DEF RecoverCompact
<1>3. CASE g # h
  BY <1>1, <1>3 DEF RecoverCompact
<1> QED
  BY <1>2, <1>3

\* The signature of a single input.
LEMMA SignatureOfInput == Input => SignatureIsOfCheckpoint
<1> SUFFICES ASSUME Input, input.of = "call", NEW cp \in Checkpoints, NEW k \in Keys
             PROVE  LET sig == Sign(input.checkpoint, k)
                        parts == splitSignature(SigWords(sig))
                        onChain == RecoverCompact(<<parts.v[2], parts.r, parts.s>>,
                                                  EthSignHash(Hash(cp)))
                    IN /\ RecoverSigner(cp, sig) = onChain
                       /\ onChain = AddressFromPrivKey(k) <=> cp = input.checkpoint
  BY DEF SignatureIsOfCheckpoint
<1> DEFINE sig == Sign(input.checkpoint, k)
           parts == splitSignature(SigWords(sig))
           h == EthSignHash(Hash(input.checkpoint))
           g == EthSignHash(Hash(cp))
<1>1. input.checkpoint \in Checkpoints
  BY DEF Input
<1>2. g = h <=> cp = input.checkpoint
  BY <1>1 DEF Checkpoints, New, Hash, EthSignHash
<1>3. /\ sig[1] = SignCompact(k, h)[2]
      /\ sig[2] = SignCompact(k, h)[3]
      /\ sig[3] = SignCompact(k, h)[1]
  BY DEF Sign
<1>4. SignCompact(k, h) = <<sig[3], sig[1], sig[2]>>
  BY <1>3 DEF SignCompact
<1>5. parts.v[2] = sig[3] /\ parts.r = sig[1] /\ parts.s = sig[2]
  BY DEF splitSignature, SigWords
<1> HIDE DEF sig, parts, h, g
<1>6. RecoverCompact(<<parts.v[2], parts.r, parts.s>>, g) = IF g = h THEN Address[k] ELSE 0
  BY <1>4, <1>5, RecoveredSigner
<1>7. RecoverSigner(cp, sig) = RecoverCompact(<<parts.v[2], parts.r, parts.s>>, g)
  BY <1>5 DEF RecoverSigner, g
<1>8. Address[k] # 0
  BY CheckpointAssumption
<1> QED
  BY <1>2, <1>6, <1>7, <1>8 DEF AddressFromPrivKey, sig, parts, g

\* A signature over a checkpoint recovers to its signer for that checkpoint and
\* for no other, in Go and on chain.
THEOREM SignatureTheorem == Spec => []SignatureIsOfCheckpoint
  BY InputInvariant, SignatureOfInput, PTL

-----------------------------------------------------------------------------
(* The relayer's call: the order the signers are sorted into exists, the   *)
(* words lie where the contract's decoder looks once the offsets of the    *)
(* signatures are moved, and the contract then recovers the very signers.  *)

\* A finite set of places has one with the greatest value.
LEMMA GreatestPlace ==
    ASSUME NEW S, IsFiniteSet(S), S # {}, NEW f, \A x \in S : f[x] \in Nat
    PROVE  \E x \in S : \A y \in S : f[y] <= f[x]
<1> DEFINE G == {A \in SUBSET S : A # {} => \E x \in A : \A y \in A : f[y] <= f[x]}
<1>1. {} \in G
  OBVIOUS
<1>2. ASSUME NEW A \in SUBSET S, NEW x \in S \ A, A \in G
      PROVE  A \cup {x} \in G
  <2>1. CASE A = {}
    BY <2>1
  <2>2. CASE A # {}
    <3>1. PICK m \in A : \A y \in A : f[y] <= f[m]
      BY <1>2, <2>2
    <3>2. CASE f[x] <= f[m]
      BY <3>1, <3>2
    <3>3. CASE ~ (f[x] <= f[m])
      <4>1. \A y \in A \cup {x} : f[y] <= f[x]
        BY <3>1, <3>3
      <4> QED
        BY <4>1
    <3> QED
      BY <3>2, <3>3
  <2> QED
    BY <2>1, <2>2
<1>3. S \in G
  <2> HIDE DEF G
  <2> QED
    BY <1>1, <1>2, SubsetInduction, Zenon
<1> QED
  BY <1>3

\* A sequence of numbers can be sorted: the places of any n numbers have an
\* ascending order, built by taking the greatest one last.
LEMMA SortingExists ==
    ASSUME NEW n \in Nat, NEW f, NEW D, D = 1 .. n, \A i \in D : f[i] \in Nat
    PROVE  \E p \in Bijection(D, D) : \A i, j \in D : i < j => f[p[i]] <= f[p[j]]
<1> DEFINE Sorts(A, p) == /\ p \in [1 .. Cardinality(A) -> A]
                          /\ \A x \in A : \E i \in 1 .. Cardinality(A) : p[i] = x
                          /\ \A i, j \in 1 .. Cardinality(A) : i < j => f[p[i]] <= f[p[j]]
           G == {A \in SUBSET (1 .. n) : \E p : Sorts(A, p)}
<1>1. IsFiniteSet(1 .. n) /\ Cardinality(1 .. n) = n
  BY FS_Interval
<1>2. ASSUME NEW A \in SUBSET (1 .. n), \A B \in SUBSET A : B # A => B \in G
      PROVE  A \in G
  <2>1. IsFiniteSet(A) /\ Cardinality(A) \in Nat
    BY <1>1, FS_Subset, FS_CardinalityType, Zenon
  <2>2. CASE A = {}
    <3>1. Cardinality(A) = 0
      BY <2>2, FS_EmptySet
    <3>2. Sorts(A, [i \in 1 .. 0 |-> 0])
      BY <2>2, <3>1
    <3> QED
      BY <3>2, Zenon
  <2>3. CASE A # {}
    <3>1. PICK x \in A : \A y \in A : f[y] <= f[x]
      BY <2>1, <2>3, GreatestPlace, Zenon
    <3> DEFINE B == A \ {x}
               c == Cardinality(B)
    <3>2. IsFiniteSet(B) /\ c \in Nat /\ Cardinality(A) = c + 1
      <4>1. IsFiniteSet(B) /\ Cardinality(B) = Cardinality(A) - 1
        BY <2>1, FS_RemoveElement
      <4>2. Cardinality(B) \in Nat
        BY <4>1, FS_CardinalityType
      <4> QED
        BY <2>1, <4>1, <4>2
    <3>3. PICK p : Sorts(B, p)
      BY <1>2, Zenon
    <3> DEFINE q == [i \in 1 .. c + 1 |-> IF i = c + 1 THEN x ELSE p[i]]
    <3> HIDE DEF c
    <3>4. /\ p \in [1 .. c -> B]
          /\ \A y \in B : \E i \in 1 .. c : p[i] = y
          /\ \A i, j \in 1 .. c : i < j => f[p[i]] <= f[p[j]]
      BY <3>3, Zenon DEF c
    <3>5. \A i \in 1 .. c : i \in 1 .. c + 1 /\ q[i] = p[i] /\ q[i] \in A
      BY <3>2, <3>4
    <3>6. c + 1 \in 1 .. c + 1 /\ q[c + 1] = x
      BY <3>2
    <3>7. \A i \in 1 .. c + 1 : i \in 1 .. c \/ i = c + 1
      BY <3>2
    <3>8. q \in [1 .. c + 1 -> A]
      BY <3>2, <3>4
    <3> HIDE DEF q
    <3>9. \A y \in A : \E i \in 1 .. c + 1 : q[i] = y
      BY <3>4, <3>5, <3>6
    <3>10. ASSUME NEW i \in 1 .. c + 1, NEW j \in 1 .. c + 1, i < j
           PROVE  f[q[i]] <= f[q[j]]
      <4>1. i \in 1 .. c
        BY <3>2, <3>10
      <4>2. CASE j = c + 1
        BY <3>1, <3>5, <3>6, <4>1, <4>2, Zenon
      <4>3. CASE j \in 1 .. c
        BY <3>4, <3>5, <3>10, <4>1, <4>3
      <4> QED
        BY <3>7, <4>2, <4>3
    <3>11. Sorts(A, q)
      BY <3>2, <3>8, <3>9, <3>10
    <3> QED
      BY <3>11, Zenon
  <2> QED
    BY <2>2, <2>3
<1>3. \A A \in SUBSET (1 .. n) : A \in G
  <2> HIDE DEF G
  <2> QED
    BY <1>1, <1>2, StrongSubsetInduction, Zenon
<1>4. PICK p : Sorts(1 .. n, p)
  <2>1. 1 .. n \in G
    BY <1>3, Zenon
  <2> QED
    BY <2>1
<1>5. p \in Surjection(D, D)
  BY <1>1, <1>4, Zenon DEF Surjection
<1>6. p \in Injection(D, D)
  BY <1>1, <1>5, FS_SurjSameCardinalityImpliesInj
<1>7. \A i, j \in D : i < j => f[p[i]] <= f[p[j]]
  BY <1>1, <1>4, Zenon
<1> QED
  BY <1>5, <1>6, <1>7, Zenon DEF Bijection

\* Order, the sort of encodeSubmitCheckpoint, is such an order.
LEMMA OrderSorts ==
    ASSUME NEW n \in Nat, NEW f, DOMAIN f = 1 .. n, \A i \in 1 .. n : f[i] \in Nat
    PROVE  /\ Order(f) \in Bijection(1 .. n, 1 .. n)
           /\ \A i, j \in 1 .. n : i < j => f[Order(f)[i]] <= f[Order(f)[j]]
<1> DEFINE D == DOMAIN f
           p == Order(f)
<1>1. D = 1 .. n /\ \A i \in D : f[i] \in Nat
  OBVIOUS
<1>2. \E r \in Bijection(D, D) : \A i, j \in D : i < j => f[r[i]] <= f[r[j]]
  <2> HIDE DEF D
  <2> QED
    BY <1>1, SortingExists, Zenon
<1>3. p \in Bijection(D, D) /\ \A i, j \in D : i < j => f[p[i]] <= f[p[j]]
  BY <1>2, Zenon DEF Order
<1> HIDE DEF D, p
<1> QED
  BY <1>1, <1>3 DEF p

\* The call for any checkpoint signed with any keys.  Steps <1>1 to <1>7 sort
\* the signers, <1>8 to <1>10 find every word of the call, <1>11 to <1>18 follow
\* the contract's decoder over the shortened offsets, and <1>19 compares what
\* the contract requires with what was signed.
LEMMA CallOfInput == Input => CallIsRightButForOffsets
<1> SUFFICES ASSUME NEW cp \in Checkpoints, NEW ks \in Signings,
                    input = [of |-> "call", checkpoint |-> cp, keys |-> ks]
             PROVE  CallIsRightButForOffsets
  BY DEF Input, CallIsRightButForOffsets
<1> DEFINE n == Len(ks)
           signers == [i \in DOMAIN ks |-> AddressFromPrivKey(ks[i])]
           sigs == [i \in DOMAIN ks |-> Sign(cp, ks[i])]
           p == Order(signers)
           q == [i \in 1 .. n |-> ks[p[i]]]
<1>1. /\ n \in Nat /\ ks \in [1 .. n -> Keys] /\ DOMAIN ks = 1 .. n
      /\ \A i, j \in 1 .. n : ks[i] = ks[j] => i = j
  BY DEF Signings, IsInjective
<1>2. /\ signers = [i \in 1 .. n |-> Address[ks[i]]] /\ DOMAIN signers = 1 .. n
      /\ Len(signers) = n /\ Len(sigs) = n
      /\ \A i \in 1 .. n : signers[i] \in Nat
  BY <1>1, CheckpointAssumption DEF AddressFromPrivKey
<1> HIDE DEF n
<1>3. /\ p \in Bijection(1 .. n, 1 .. n)
      /\ \A i, j \in 1 .. n : i < j => signers[p[i]] <= signers[p[j]]
  <2>1. DOMAIN signers = 1 .. n /\ \A i \in 1 .. n : signers[i] \in Nat
    BY <1>2
  <2> HIDE DEF signers
  <2> QED
    BY <1>1, <2>1, OrderSorts, Zenon
<1>4. /\ p \in [1 .. n -> 1 .. n]
      /\ \A i, j \in 1 .. n : p[i] = p[j] => i = j
      /\ \A k \in 1 .. n : \E i \in 1 .. n : p[i] = k
  BY <1>3, Zenon DEF Bijection, Injection, Surjection, IsInjective
<1> HIDE DEF p
<1>5. /\ q \in [1 .. n -> Keys]
      /\ \A i \in 1 .. n : /\ q[i] = ks[p[i]] /\ signers[p[i]] = Address[q[i]]
                            /\ sigs[p[i]] = Sign(cp, q[i])
  BY <1>1, <1>2, <1>4, Zenon
<1> HIDE DEF q, signers, sigs
\* The signers come in strictly ascending order, and they are the keys' addresses.
<1>6. \A i \in 1 .. n : i > 1 => Address[q[i - 1]] < Address[q[i]]
  <2> SUFFICES ASSUME NEW i \in 1 .. n, i > 1
               PROVE  Address[q[i - 1]] < Address[q[i]]
    OBVIOUS
  <2>1. i - 1 \in 1 .. n /\ i - 1 < i
    BY <1>1
  <2>2. Address[q[i - 1]] <= Address[q[i]]
    BY <1>3, <1>5, <2>1
  <2>3. q[i - 1] # q[i]
    BY <1>1, <1>4, <1>5, <2>1
  <2>4. /\ q[i - 1] \in Keys /\ q[i] \in Keys
        /\ Address[q[i - 1]] \in Nat /\ Address[q[i]] \in Nat
    BY <1>5, <2>1, CheckpointAssumption
  <2>5. Address[q[i - 1]] # Address[q[i]]
    BY <2>3, <2>4, CheckpointAssumption
  <2> QED
    BY <2>2, <2>4, <2>5
<1>7. (\A i \in 1 .. n : Address[q[i]] \in IsRelayer)
         <=> \A i \in 1 .. n : Address[ks[i]] \in IsRelayer
  <2>1. ASSUME NEW k \in 1 .. n, \A i \in 1 .. n : Address[q[i]] \in IsRelayer
        PROVE  Address[ks[k]] \in IsRelayer
    <3>1. PICK i \in 1 .. n : p[i] = k
      BY <1>4
    <3> QED
      BY <1>5, <2>1, <3>1
  <2>2. ASSUME NEW i \in 1 .. n, \A k \in 1 .. n : Address[ks[k]] \in IsRelayer
        PROVE  Address[q[i]] \in IsRelayer
    BY <1>4, <1>5, <2>2
  <2> QED
    BY <2>1, <2>2
<1> DEFINE paired == Paired(signers, sigs)
<1>8. \A i \in 1 .. n : paired[i].addr = Address[q[i]] /\ paired[i].sig = Sign(cp, q[i])
  <2>1. paired = [i \in DOMAIN signers |-> [addr |-> signers[p[i]], sig |-> sigs[p[i]]]]
    BY Zenon DEF Paired, p
  <2> HIDE DEF paired
  <2> QED
    BY <1>2, <1>5, <2>1
<1> DEFINE h == <<Num(cp.Epoch), cp.BlockHash, cp.ValidatorSetHash,
                  Num(SignersOffset), Num(SigsOffset(n))>>
           a == [i \in 1 .. n |-> Num(paired[i].addr)]
           o == [i \in 1 .. n |-> Num(SubOffset(n, i))]
           s == [k \in 1 .. 4 * n |->
                   SigWords(paired[1 + ((k - 1) \div 4)].sig)[1 + ((k - 1) % 4)]]
           data == h \o <<Num(n)>> \o a \o <<Num(n)>> \o o \o s
           T == {Num(n)} \cup {h[i] : i \in 1 .. 5} \cup {a[i] : i \in 1 .. n}
                  \cup {o[i] : i \in 1 .. n} \cup {s[k] : k \in 1 .. 4 * n}
<1>9. SubmittedData = data
  <2>1. input.keys = ks /\ input.checkpoint = cp
    OBVIOUS
  <2>2. SubmittedData = encodeSubmitCheckpoint(cp, signers, sigs)
    BY <2>1, Zenon DEF SubmittedData, signers, sigs
  <2> QED
    BY <1>2, <2>2, Zenon DEF encodeSubmitCheckpoint
<1> HIDE DEF paired
<1>10. /\ DOMAIN data = 1 .. 7 + 6 * n
       /\ \A i \in 1 .. 5 : data[i] = h[i]
       /\ data[6] = Num(n) /\ data[7 + n] = Num(n)
       /\ \A i \in 1 .. n : data[6 + i] = a[i] /\ data[7 + n + i] = o[i]
       /\ \A k \in 1 .. 4 * n : data[7 + 2 * n + k] = s[k]
  <2>1. /\ h \in Seq(T) /\ Len(h) = 5
    OBVIOUS
  <2>2. a \in [1 .. n -> T] /\ o \in [1 .. n -> T] /\ s \in [1 .. 4 * n -> T] /\ Num(n) \in T
    <3> HIDE DEF h
    <3> QED
      OBVIOUS
  <2> HIDE DEF T, h, a, o, s
  <2> DEFINE d1 == h \o <<Num(n)>>
             d2 == d1 \o a
             d3 == d2 \o <<Num(n)>>
             d4 == d3 \o o
             d5 == d4 \o s
  <2>3. /\ <<Num(n)>> \in Seq(T) /\ Len(<<Num(n)>>) = 1 /\ <<Num(n)>>[1] = Num(n)
        /\ a \in Seq(T) /\ Len(a) = n /\ o \in Seq(T) /\ Len(o) = n
    <3>1. \A c \in T : <<c>> \in Seq(T) /\ Len(<<c>>) = 1 /\ <<c>>[1] = c
      OBVIOUS
    <3>2. n \in Nat /\ a \in [1 .. n -> T] /\ o \in [1 .. n -> T]
      BY <1>1, <2>2
    <3> QED
      BY <2>2, <3>1, <3>2
  <2>4. s \in Seq(T) /\ Len(s) = 4 * n
    <3>1. 4 * n \in Nat /\ s \in [1 .. 4 * n -> T]
      BY <1>1, <2>2
    <3> QED
      BY <3>1
  <2> HIDE DEF d1, d2, d3, d4, d5
  <2>Append. \A u, v \in Seq(T) :
               /\ u \o v \in Seq(T) /\ Len(u \o v) = Len(u) + Len(v)
               /\ \A i \in 1 .. Len(u) : (u \o v)[i] = u[i]
               /\ \A i \in 1 .. Len(v) : (u \o v)[Len(u) + i] = v[i]
    OBVIOUS
  <2>5. /\ d1 \in Seq(T) /\ Len(d1) = 6 /\ d1[6] = Num(n)
        /\ \A i \in 1 .. 5 : d1[i] = h[i]
    <3>1. /\ d1 \in Seq(T) /\ Len(d1) = Len(h) + Len(<<Num(n)>>)
          /\ \A i \in 1 .. Len(h) : d1[i] = h[i]
          /\ \A i \in 1 .. Len(<<Num(n)>>) : d1[Len(h) + i] = <<Num(n)>>[i]
      BY <2>1, <2>3, <2>Append, Zenon DEF d1
    <3>2. d1[Len(h) + 1] = Num(n)
      BY <2>1, <2>3, <3>1
    <3> QED
      BY <2>1, <2>3, <3>1, <3>2
  <2>6. /\ d2 \in Seq(T) /\ Len(d2) = 6 + n
        /\ \A i \in 1 .. 6 : d2[i] = d1[i]
        /\ \A i \in 1 .. n : d2[6 + i] = a[i]
    <3>1. /\ d2 \in Seq(T) /\ Len(d2) = Len(d1) + Len(a)
          /\ \A i \in 1 .. Len(d1) : d2[i] = d1[i]
          /\ \A i \in 1 .. Len(a) : d2[Len(d1) + i] = a[i]
      BY <2>3, <2>5, <2>Append, Zenon DEF d2
    <3> QED
      BY <2>3, <2>5, <3>1
  <2>7. /\ d3 \in Seq(T) /\ Len(d3) = 7 + n
        /\ \A i \in 1 .. 6 + n : d3[i] = d2[i]
        /\ d3[7 + n] = Num(n)
    <3>1. /\ d3 \in Seq(T) /\ Len(d3) = Len(d2) + Len(<<Num(n)>>)
          /\ \A i \in 1 .. Len(d2) : d3[i] = d2[i]
          /\ \A i \in 1 .. Len(<<Num(n)>>) : d3[Len(d2) + i] = <<Num(n)>>[i]
      BY <2>3, <2>6, <2>Append, Zenon DEF d3
    <3>2. d3[Len(d2) + 1] = Num(n)
      BY <2>1, <2>3, <3>1
    <3> QED
      BY <2>3, <2>6, <3>1, <3>2
  <2>8. /\ d4 \in Seq(T) /\ Len(d4) = 7 + 2 * n
        /\ \A i \in 1 .. 7 + n : d4[i] = d3[i]
        /\ \A i \in 1 .. n : d4[7 + n + i] = o[i]
    <3>1. /\ d4 \in Seq(T) /\ Len(d4) = Len(d3) + Len(o)
          /\ \A i \in 1 .. Len(d3) : d4[i] = d3[i]
          /\ \A i \in 1 .. Len(o) : d4[Len(d3) + i] = o[i]
      BY <2>3, <2>7, <2>Append, Zenon DEF d4
    <3> QED
      BY <2>3, <2>7, <3>1
  <2>9. /\ d5 \in Seq(T) /\ Len(d5) = 7 + 6 * n
        /\ \A i \in 1 .. 7 + 2 * n : d5[i] = d4[i]
        /\ \A k \in 1 .. 4 * n : d5[7 + 2 * n + k] = s[k]
    <3>1. /\ d5 \in Seq(T) /\ Len(d5) = Len(d4) + Len(s)
          /\ \A i \in 1 .. Len(d4) : d5[i] = d4[i]
          /\ \A i \in 1 .. Len(s) : d5[Len(d4) + i] = s[i]
      BY <2>4, <2>8, <2>Append, Zenon DEF d5
    <3>2. Len(d5) = (7 + 2 * n) + 4 * n
      BY <2>4, <2>8, <3>1
    <3> QED
      BY <1>1, <2>4, <2>8, <3>1, <3>2
  <2>10. \A i \in 1 .. 6 + n : d5[i] = d2[i]
    <3>1. \A i \in 1 .. 6 + n : i \in 1 .. 7 + n /\ i \in 1 .. 7 + 2 * n
      BY <1>1
    <3> QED
      BY <2>7, <2>8, <2>9, <3>1, Zenon
  <2>11. d5[6] = Num(n) /\ \A i \in 1 .. 5 : d5[i] = h[i]
    <3>1. \A i \in 1 .. 6 : i \in 1 .. 6 + n
      BY <1>1
    <3>2. \A i \in 1 .. 6 : d5[i] = d1[i]
      BY <2>6, <2>10, <3>1
    <3> QED
      BY <2>5, <3>2
  <2>12. \A i \in 1 .. n : d5[6 + i] = a[i]
    <3>1. \A i \in 1 .. n : 6 + i \in 1 .. 6 + n
      BY <1>1
    <3> QED
      BY <2>6, <2>10, <3>1
  <2>13. d5[7 + n] = Num(n) /\ \A i \in 1 .. n : d5[7 + n + i] = o[i]
    <3>1. 7 + n \in 1 .. 7 + n /\ \A i \in 0 .. n : 7 + n + i \in 1 .. 7 + 2 * n
      BY <1>1
    <3>2. 7 + n \in 1 .. 7 + 2 * n /\ \A i \in 1 .. n : 7 + n + i \in 1 .. 7 + 2 * n
      BY <1>1
    <3> QED
      BY <2>7, <2>8, <2>9, <3>1, <3>2
  <2>14. data = d5
    BY Zenon DEF d5, d4, d3, d2, d1
  <2>15. DOMAIN d5 = 1 .. 7 + 6 * n
    BY <2>9
  <2> HIDE DEF data
  <2> QED
    BY <2>9, <2>11, <2>12, <2>13, <2>14, <2>15, Zenon
<1> HIDE DEF data
<1> DEFINE shifted == [i \in DOMAIN data |->
                         IF i \in (SigsOffset(n) + 1 + 1) .. (SigsOffset(n) + 1 + n)
                         THEN Num(data[i][2] - 1) ELSE data[i]]
<1>11. /\ \A i \in 0 .. 6 + 6 * n : i \notin 7 + n .. 6 + 2 * n => Word(shifted, i) = data[i + 1]
       /\ \A i \in 7 + n .. 6 + 2 * n : Word(shifted, i) = Num(data[i + 1][2] - 1)
  <2>1. SigsOffset(n) + 1 + 1 = 8 + n /\ SigsOffset(n) + 1 + n = 7 + 2 * n
    BY <1>1 DEF SigsOffset
  <2>2. shifted = [i \in 1 .. 7 + 6 * n |-> IF i \in 8 + n .. 7 + 2 * n
                                            THEN Num(data[i][2] - 1) ELSE data[i]]
    BY <1>10, <2>1
  <2> HIDE DEF shifted
  <2>3. Len(shifted) = 7 + 6 * n
    BY <1>1, <2>2
  <2>4. \A i \in 0 .. 6 + 6 * n : Word(shifted, i) = shifted[i + 1] /\ i + 1 \in 1 .. 7 + 6 * n
    BY <1>1, <2>3 DEF Word
  <2>5. \A i \in 0 .. 6 + 6 * n : i + 1 \in 8 + n .. 7 + 2 * n <=> i \in 7 + n .. 6 + 2 * n
    BY <1>1
  <2>6. \A i \in 7 + n .. 6 + 2 * n : i \in 0 .. 6 + 6 * n
    BY <1>1
  <2> QED
    BY <2>2, <2>4, <2>5, <2>6
<1> HIDE DEF shifted
<1>12. /\ Word(shifted, 0) = Num(cp.Epoch) /\ Word(shifted, 1) = cp.BlockHash
       /\ Word(shifted, 2) = cp.ValidatorSetHash /\ Word(shifted, 3) = Num(5)
       /\ Word(shifted, 4) = Num(6 + n)
  <2>1. \A i \in 0 .. 4 : /\ i \in 0 .. 6 + 6 * n /\ i \notin 7 + n .. 6 + 2 * n
                          /\ i + 1 \in 1 .. 5
    BY <1>1
  <2>2. \A i \in 0 .. 4 : Word(shifted, i) = h[i + 1]
    BY <1>10, <1>11, <2>1
  <2>3. SignersOffset = 5 /\ SigsOffset(n) = 6 + n
    BY <1>1 DEF SignersOffset, SigsOffset
  <2> QED
    BY <2>2, <2>3
<1> HIDE DEF h
<1>13. Word(shifted, 5) = Num(n) /\ Word(shifted, 6 + n) = Num(n)
  <2>1. /\ 5 \in 0 .. 6 + 6 * n /\ 5 \notin 7 + n .. 6 + 2 * n
        /\ 6 + n \in 0 .. 6 + 6 * n /\ 6 + n \notin 7 + n .. 6 + 2 * n
        /\ (6 + n) + 1 = 7 + n
    BY <1>1
  <2> QED
    BY <1>10, <1>11, <2>1
<1>14. ASSUME NEW i \in 1 .. n
       PROVE  /\ Word(shifted, 5 + i) = Num(Address[q[i]])
              /\ Word(shifted, 6 + n + i) = Num(SubOffset(n, i) - 1)
  <2>1. /\ 5 + i \in 0 .. 6 + 6 * n /\ 5 + i \notin 7 + n .. 6 + 2 * n
        /\ (5 + i) + 1 = 6 + i
        /\ 6 + n + i \in 7 + n .. 6 + 2 * n /\ (6 + n + i) + 1 = 7 + n + i
    BY <1>1
  <2>2. Word(shifted, 5 + i) = a[i] /\ Word(shifted, 6 + n + i) = Num(o[i][2] - 1)
    <3>1. Word(shifted, 5 + i) = data[6 + i]
      BY <1>11, <2>1, Zenon
    <3>2. Word(shifted, 6 + n + i) = Num(data[7 + n + i][2] - 1)
      BY <1>11, <2>1, Zenon
    <3> QED
      BY <1>10, <3>1, <3>2, Zenon
  <2>3. a[i] = Num(Address[q[i]]) /\ o[i] = Num(SubOffset(n, i))
    BY <1>8
  <2> QED
    BY <2>2, <2>3 DEF Num
<1>15. ASSUME NEW i \in 1 .. n, NEW k \in 1 .. 4
       PROVE  Word(shifted, 6 + 2 * n + 4 * (i - 1) + k) = SigWords(Sign(cp, q[i]))[k]
  <2> DEFINE m == 4 * (i - 1) + k
  <2>1. /\ m \in 1 .. 4 * n /\ 1 + ((m - 1) \div 4) = i /\ 1 + ((m - 1) % 4) = k
    BY <1>1
  <2> HIDE DEF m
  <2>2. /\ 6 + 2 * n + m \in 0 .. 6 + 6 * n /\ 6 + 2 * n + m \notin 7 + n .. 6 + 2 * n
        /\ (6 + 2 * n + m) + 1 = 7 + 2 * n + m
    BY <1>1, <2>1
  <2>3. Word(shifted, 6 + 2 * n + m) = s[m]
    <3>1. Word(shifted, 6 + 2 * n + m) = data[7 + 2 * n + m]
      BY <1>11, <2>2, Zenon
    <3>2. data[7 + 2 * n + m] = s[m]
      BY <1>10, <2>1, Zenon
    <3> QED
      BY <3>1, <3>2, Zenon
  <2>4. s[m] = SigWords(paired[i].sig)[k]
    BY <2>1
  <2>5. 6 + 2 * n + 4 * (i - 1) + k = 6 + 2 * n + m
    BY <1>1 DEF m
  <2> QED
    BY <1>8, <2>3, <2>4, <2>5
<1> HIDE DEF a, o, s
<1>16. DecodedCheckpoint(shifted) = cp
  BY <1>12 DEF DecodedCheckpoint, Num, Checkpoints, New
<1>17. DecodedSigners(shifted) = [i \in 1 .. n |-> Address[q[i]]]
  <2>1. Word(shifted, 3)[2] = 5 /\ Word(shifted, 5)[2] = n
    BY <1>12, <1>13 DEF Num
  <2>2. \A i \in 1 .. n : Word(shifted, 5 + i)[2] = Address[q[i]]
    BY <1>14 DEF Num
  <2> QED
    BY <2>1, <2>2, Zenon DEF DecodedSigners
<1>18. ASSUME NEW i \in 1 .. n
       PROVE  Recovered(shifted, i) = Address[q[i]]
  <2> DEFINE sig == SignatureAt(shifted, i)
             words == SigWords(Sign(cp, q[i]))
  <2>1. Word(shifted, 4)[2] + 1 = 7 + n
    BY <1>1, <1>12 DEF Num
  <2>2. 7 + n + i - 1 = 6 + n + i
    BY <1>1
  <2>3. 7 + n + Word(shifted, 7 + n + i - 1)[2] = 7 + 2 * n + 4 * (i - 1)
    <3>1. Word(shifted, 7 + n + i - 1)[2] = SubOffset(n, i) - 1
      BY <1>14, <2>2 DEF Num
    <3>2. 7 + n + (SubOffset(n, i) - 1) = 7 + 2 * n + 4 * (i - 1)
      BY <1>1 DEF SubOffset
    <3> QED
      BY <3>1, <3>2, Zenon
  <2>4. sig = [k \in 1 .. 4 |-> Word(shifted, 7 + 2 * n + 4 * (i - 1) + k - 1)]
    BY <2>1, <2>3 DEF SignatureAt
  <2>5. \A k \in 1 .. 4 : sig[k] = words[k]
    <3>1. \A k \in 1 .. 4 : 7 + 2 * n + 4 * (i - 1) + k - 1 = 6 + 2 * n + 4 * (i - 1) + k
      BY <1>1
    <3> HIDE DEF sig, words
    <3> QED
      BY <1>15, <2>4, <3>1 DEF words
  <2> HIDE DEF sig
  <2> DEFINE hash == EthSignHash(Hash(cp))
             c == SignCompact(q[i], hash)
  <2>6. words[1] = Num(65) /\ words[2] = c[2] /\ words[3] = c[3] /\ words[4] = <<"v", c[1]>>
    BY Zenon DEF SigWords, Sign
  <2>7. c = <<c[1], c[2], c[3]>>
    BY DEF SignCompact
  <2> HIDE DEF words, c, hash
  <2>8. sig[1] = Num(65) /\ sig[2] = c[2] /\ sig[3] = c[3] /\ sig[4] = <<"v", c[1]>>
    BY <2>5, <2>6
  <2>9. Recovered(shifted, i) = RecoverCompact(<<c[1], c[2], c[3]>>, hash)
    BY <1>16, <2>8 DEF Recovered, splitSignature, sig, hash
  <2>10. RecoverCompact(c, hash) = Address[q[i]]
    BY <1>5, RecoveredSigner DEF c
  <2> QED
    BY <2>7, <2>9, <2>10
<1>19. verifyRelayerSignatures(shifted) <=> EnoughRelayersSign
  <2> DEFINE decoded == DecodedSigners(shifted)
  <2>1. /\ Len(decoded) = n /\ DOMAIN decoded = 1 .. n
        /\ \A i \in 1 .. n : decoded[i] = Address[q[i]]
    BY <1>1, <1>17
  <2>2. Word(shifted, Word(shifted, 4)[2])[2] = n
    BY <1>12, <1>13 DEF Num
  <2>3. \A i \in 1 .. n : i > 1 => i - 1 \in 1 .. n
    BY <1>1
  <2> HIDE DEF decoded
  <2>4. verifyRelayerSignatures(shifted) <=>
          n >= QuorumRequired /\ \A i \in 1 .. n : Address[q[i]] \in IsRelayer
    BY <1>6, <1>18, <2>1, <2>2, <2>3, Zenon DEF verifyRelayerSignatures, decoded
  <2>5. EnoughRelayersSign <=>
          n >= QuorumRequired /\ \A i \in 1 .. n : Address[ks[i]] \in IsRelayer
    BY <1>1 DEF EnoughRelayersSign, n
  <2> QED
    BY <1>7, <2>4, <2>5
<1>20. input.of = "call" /\ input.checkpoint = cp /\ Len(input.keys) = n
  BY DEF n
<1> QED
  BY <1>9, <1>16, <1>19, <1>20, Zenon DEF CallIsRightButForOffsets, shifted

\* With each element offset of the signatures one word shorter than
\* encodeSubmitCheckpoint writes it, the contract reads the checkpoint that was
\* signed and accepts exactly the calls enough relayers signed: for every number
\* of signers, every order they signed in, every relayer set and every quorum.
THEOREM CallTheorem == Spec => []CallIsRightButForOffsets
  BY InputInvariant, CallOfInput, PTL

-----------------------------------------------------------------------------
(* The election of a slot                                                  *)

\* The sort has a first element: the order of hashes and stakes has no cycles.
LEMMA FirstIsLeast ==
    ASSUME NEW P, IsFiniteSet(P), P # {},
           \A p \in P : p.Hash \in Int /\ p.Stake \in Int
    PROVE  First(P) \in P /\ \A q \in P : ~ Before(q, First(P))
<1> DEFINE G == {A \in SUBSET P : A = {} \/ \E p \in A : \A q \in A : ~ Before(q, p)}
<1>1. {} \in G
  OBVIOUS
<1>2. ASSUME NEW A \in SUBSET P, NEW x \in P \ A, A \in G
      PROVE  A \cup {x} \in G
  <2>1. ~ Before(x, x)
    BY DEF Before
  <2>2. CASE A = {}
    BY <2>1, <2>2
  <2>3. CASE A # {}
    <3>1. PICK p \in A : \A q \in A : ~ Before(q, p)
      BY <1>2, <2>3
    <3>2. CASE Before(x, p)
      <4>1. \A q \in A : ~ Before(q, x)
        BY <3>1, <3>2 DEF Before
      <4> QED
        BY <2>1, <4>1
    <3>3. CASE ~ Before(x, p)
      BY <3>1, <3>3
    <3> QED
      BY <3>2, <3>3
  <2> QED
    BY <2>2, <2>3
<1>3. P \in G
  <2> HIDE DEF G
  <2> QED
    BY <1>1, <1>2, SubsetInduction, Zenon
<1>4. \E p \in P : \A q \in P : ~ Before(q, p)
  BY <1>3
<1> QED
  BY <1>4 DEF First

ActiveOf(validators) == {v.Address : v \in {w \in validators : w.Status = "active"}}

\* ElectSlot draws one proof for each active validator, with its own hash.
LEMMA ProofsOfActive ==
    ASSUME NEW vs \in ValidatorSets, NEW hash, \A a \in Addrs : hash[a] \in Int
    PROVE  /\ IsFiniteSet(Proofs(hash, vs))
           /\ \A p \in Proofs(hash, vs) :
                 /\ p.ValidatorAddr \in ActiveOf(vs)
                 /\ p.Hash = hash[p.ValidatorAddr]
                 /\ p.Hash \in Int /\ p.Stake \in Int
           /\ \A p, q \in Proofs(hash, vs) : p.ValidatorAddr = q.ValidatorAddr => p = q
           /\ \A a \in ActiveOf(vs) : \E p \in Proofs(hash, vs) : p.ValidatorAddr = a
<1>1. /\ vs \subseteq Validators
      /\ \A v, w \in vs : v.Address = w.Address => v = w
  BY DEF ValidatorSets
<1>2. ASSUME NEW p \in Proofs(hash, vs)
      PROVE  \E v \in vs : /\ v.Status = "active" /\ v \in Validators
                           /\ p.ValidatorAddr = v.Address
                           /\ p.Hash = hash[v.Address]
                           /\ p.Stake = v.TotalStake
                           /\ p = [ValidatorAddr |-> v.Address, Hash |-> hash[v.Address],
                                   Stake |-> v.TotalStake]
  <2>1. PICK v \in vs : /\ v.Status = "active"
                       /\ p = [ValidatorAddr |-> v.Address, Hash |-> hash[v.Address],
                               Stake |-> v.TotalStake]
    BY <1>2, Zenon DEF Proofs
  <2> QED
    BY <1>1, <2>1
<1>3. ASSUME NEW p \in Proofs(hash, vs)
      PROVE  /\ p.ValidatorAddr \in ActiveOf(vs)
             /\ p.Hash = hash[p.ValidatorAddr]
             /\ p.Hash \in Int /\ p.Stake \in Int
  <2>1. PICK v \in vs : /\ v.Status = "active" /\ v \in Validators
                       /\ p.ValidatorAddr = v.Address
                       /\ p.Hash = hash[v.Address]
                       /\ p.Stake = v.TotalStake
    BY <1>2
  <2>2. v.Address \in Addrs /\ v.TotalStake \in Int
    BY <2>1, AlgorithmsAssumption, Zenon DEF Validators
  <2>3. v.Address \in ActiveOf(vs)
    BY <2>1 DEF ActiveOf
  <2> QED
    BY <2>1, <2>2, <2>3
<1>4. /\ \A p, q \in Proofs(hash, vs) : p.ValidatorAddr = q.ValidatorAddr => p = q
      /\ \A a \in ActiveOf(vs) : \E p \in Proofs(hash, vs) : p.ValidatorAddr = a
  <2>1. \A p, q \in Proofs(hash, vs) : p.ValidatorAddr = q.ValidatorAddr => p = q
    BY <1>1, <1>2
  <2>2. ASSUME NEW a \in ActiveOf(vs)
        PROVE  \E p \in Proofs(hash, vs) : p.ValidatorAddr = a
    <3>1. PICK v \in vs : v.Status = "active" /\ v.Address = a
      BY <2>2 DEF ActiveOf
    <3>2. [ValidatorAddr |-> v.Address, Hash |-> hash[v.Address], Stake |-> v.TotalStake]
             \in Proofs(hash, vs)
      BY <3>1, Zenon DEF Proofs
    <3> QED
      BY <3>1, <3>2
  <2> QED
    BY <2>1, <2>2
<1>5. IsFiniteSet(Proofs(hash, vs))
  <2>1. IsFiniteSet(ActiveOf(vs))
    <3>1. ActiveOf(vs) \subseteq Addrs
      BY <1>1 DEF ActiveOf, Validators
    <3> QED
      BY <3>1, AlgorithmsAssumption, FS_Subset
  <2> DEFINE f == [a \in ActiveOf(vs) |->
                     CHOOSE p \in Proofs(hash, vs) : p.ValidatorAddr = a]
  <2>2. \A a \in ActiveOf(vs) : f[a] \in Proofs(hash, vs) /\ f[a].ValidatorAddr = a
    BY <1>4
  <2>3. \A p \in Proofs(hash, vs) : f[p.ValidatorAddr] = p
    BY <1>3, <1>4, <2>2
  <2>4. f \in Surjection(ActiveOf(vs), Proofs(hash, vs))
    <3>1. f \in [ActiveOf(vs) -> Proofs(hash, vs)]
      BY <2>2
    <3>2. \A p \in Proofs(hash, vs) : \E a \in ActiveOf(vs) : f[a] = p
      BY <1>3, <2>3
    <3> HIDE DEF f
    <3> QED
      BY <3>1, <3>2 DEF Surjection
  <2> QED
    BY <2>1, <2>4, FS_Surjection
<1> QED
  BY <1>3, <1>4, <1>5

\* Whatever the hashes, two active validators are elected, or the only one twice.
LEMMA ElectedIsElection ==
    ASSUME NEW vs \in ValidatorSets, NEW hash \in [Addrs -> 1 .. Cardinality(Addrs)]
    PROVE  ElectSlot(hash, vs) \in Elections(ActiveOf(vs))
<1> DEFINE P == Proofs(hash, vs)
           proposer == First(P)
           others == P \ {proposer}
<1>1. \A a \in Addrs : hash[a] \in Int
  OBVIOUS
<1>2. /\ IsFiniteSet(P)
      /\ \A p \in P : p.ValidatorAddr \in ActiveOf(vs) /\ p.Hash \in Int /\ p.Stake \in Int
      /\ \A p, q \in P : p.ValidatorAddr = q.ValidatorAddr => p = q
      /\ \A a \in ActiveOf(vs) : \E p \in P : p.ValidatorAddr = a
  BY <1>1, ProofsOfActive
<1>3. ElectSlot(hash, vs) =
        IF P = {} THEN <<NoServer, NoServer>>
        ELSE <<proposer.ValidatorAddr, IF others = {} THEN proposer.ValidatorAddr
                                                     ELSE First(others).ValidatorAddr>>
  BY DEF ElectSlot
<1> HIDE DEF P
<1>4. CASE P = {}
  BY <1>2, <1>3, <1>4 DEF Elections
<1>5. CASE P # {}
  <2>1. proposer \in P
    BY <1>2, <1>5, FirstIsLeast
  <2>2. IsFiniteSet(others)
    BY <1>2, FS_Subset
  <2>3. CASE others = {}
    <3>1. ActiveOf(vs) = {proposer.ValidatorAddr}
      BY <1>2, <2>1, <2>3
    <3> QED
      BY <1>3, <1>5, <2>3, <3>1 DEF Elections
  <2>4. CASE others # {}
    <3>1. First(others) \in others
      BY <1>2, <2>2, <2>4, FirstIsLeast
    <3>2. PICK q \in P : q = First(others) /\ q # proposer
      BY <3>1
    <3>3. /\ q.ValidatorAddr \in ActiveOf(vs) /\ proposer.ValidatorAddr \in ActiveOf(vs)
          /\ q.ValidatorAddr # proposer.ValidatorAddr
      BY <1>2, <2>1, <3>2
    <3>4. ElectSlot(hash, vs) = <<proposer.ValidatorAddr, q.ValidatorAddr>>
      BY <1>3, <1>5, <2>4, <3>2
    <3> HIDE DEF proposer
    <3> QED
      BY <3>3, <3>4 DEF Elections
  <2> QED
    BY <2>3, <2>4
<1> QED
  BY <1>4, <1>5

\* A proof whose hash is below all others' is elected.
LEMMA LowestIsFirst ==
    ASSUME NEW P, IsFiniteSet(P), NEW p \in P,
           \A q \in P : q.Hash \in Int /\ q.Stake \in Int,
           \A q \in P \ {p} : p.Hash < q.Hash
    PROVE  First(P) = p
<1>1. First(P) \in P /\ ~ Before(p, First(P))
  BY FirstIsLeast
<1> QED
  BY <1>1 DEF Before

\* A server and an observer are two validators.
LEMMA PairHasTwo ==
    ASSUME NEW x, NEW y, x # y
    PROVE  IsFiniteSet({x, y}) /\ Cardinality({x, y}) = 2
<1>1. IsFiniteSet({x}) /\ Cardinality({x}) = 1
  BY FS_Singleton
<1>2. IsFiniteSet({x} \cup {y}) /\ Cardinality({x} \cup {y}) = 2
  BY <1>1, FS_AddElement
<1>3. {x} \cup {y} = {x, y}
  OBVIOUS
<1> QED
  BY <1>2, <1>3

\* For any two addresses some hashes put them first and second.
LEMMA HashesExist ==
    ASSUME NEW x \in Addrs, NEW y \in Addrs
    PROVE  \E hash \in [Addrs -> 1 .. Cardinality(Addrs)] :
              /\ \A a \in Addrs \ {x} : hash[x] < hash[a]
              /\ \A a \in Addrs \ {x, y} : x # y => hash[y] < hash[a]
<1> DEFINE hash == [a \in Addrs |-> IF a = x THEN 1 ELSE IF a = y THEN 2 ELSE 3]
           n == Cardinality(Addrs)
<1>1. n \in Nat /\ IsFiniteSet(Addrs)
  BY AlgorithmsAssumption, FS_CardinalityType
<1>2. 1 <= n
  <2>1. Addrs # {}
    OBVIOUS
  <2> QED
    BY <1>1, <2>1, FS_EmptySet
<1>3. ASSUME NEW b \in Addrs, b # x
      PROVE  2 <= n
  <2>1. Cardinality({x, b}) = 2
    BY <1>3, PairHasTwo, Zenon
  <2>2. {x, b} \in SUBSET Addrs
    OBVIOUS
  <2> QED
    BY <1>1, <2>1, <2>2, FS_Subset
<1>4. ASSUME NEW b \in Addrs, b # x, b # y, x # y
      PROVE  3 <= n
  <2>1. IsFiniteSet({x, y}) /\ Cardinality({x, y}) = 2
    BY <1>4, PairHasTwo
  <2>2. Cardinality({x, y} \cup {b}) = 3
    BY <1>4, <2>1, FS_AddElement
  <2>3. {x, y} \cup {b} \in SUBSET Addrs
    OBVIOUS
  <2> QED
    BY <1>1, <2>2, <2>3, FS_Subset
<1>5. CASE x # y
  <2>1. hash \in [Addrs -> 1 .. n]
    <3>1. ASSUME NEW a \in Addrs PROVE hash[a] \in 1 .. n
      <4>1. CASE a = x
        BY <1>1, <1>2, <4>1
      <4>2. CASE a = y
        BY <1>1, <1>3, <1>5, <4>2
      <4>3. CASE a # x /\ a # y
        BY <1>1, <1>4, <1>5, <4>3
      <4> QED
        BY <4>1, <4>2, <4>3
    <3> HIDE DEF n
    <3> QED
      BY <3>1
  <2> HIDE DEF n
  <2>2. /\ \A a \in Addrs \ {x} : hash[x] < hash[a]
        /\ \A a \in Addrs \ {x, y} : hash[y] < hash[a]
    BY <1>5
  <2> HIDE DEF hash
  <2> QED
    BY <2>1, <2>2 DEF n
<1>6. CASE x = y
  <2> DEFINE low == [a \in Addrs |-> IF a = x THEN 1 ELSE 2]
  <2>1. low \in [Addrs -> 1 .. n]
    <3>1. ASSUME NEW a \in Addrs PROVE low[a] \in 1 .. n
      <4>1. CASE a = x
        BY <1>1, <1>2, <4>1
      <4>2. CASE a # x
        BY <1>1, <1>3, <4>2
      <4> QED
        BY <4>1, <4>2
    <3> HIDE DEF n
    <3> QED
      BY <3>1
  <2>2. \A a \in Addrs \ {x} : low[x] < low[a]
    OBVIOUS
  <2> HIDE DEF low
  <2> QED
    BY <1>6, <2>1, <2>2
<1> QED
  BY <1>5, <1>6

\* Each pair of Elections is what ElectSlot returns under some hashes.
LEMMA ElectionIsElected ==
    ASSUME NEW vs \in ValidatorSets, NEW r \in Elections(ActiveOf(vs))
    PROVE  \E hash \in [Addrs -> 1 .. Cardinality(Addrs)] : r = ElectSlot(hash, vs)
<1>1. ActiveOf(vs) \subseteq Addrs
  BY DEF ActiveOf, ValidatorSets, Validators
<1>2. CASE ActiveOf(vs) = {}
  <2>1. PICK hash \in [Addrs -> 1 .. Cardinality(Addrs)] : TRUE
    <3>1. CASE Addrs = {}
      <4>1. [a \in Addrs |-> 1] \in [Addrs -> 1 .. Cardinality(Addrs)]
        BY <3>1
      <4> QED
        BY <4>1, Zenon
    <3>2. CASE Addrs # {}
      BY <3>2, HashesExist
    <3> QED
      BY <3>1, <3>2
  <2>2. \A a \in Addrs : hash[a] \in Int
    OBVIOUS
  <2>3. Proofs(hash, vs) = {}
    BY <1>2, <2>2, ProofsOfActive
  <2> QED
    BY <1>2, <2>1, <2>3 DEF ElectSlot, Elections
<1>3. CASE ActiveOf(vs) # {}
  <2>1. PICK x \in ActiveOf(vs), y \in ActiveOf(vs) :
           r = <<x, y>> /\ (x # y \/ ActiveOf(vs) = {x})
    BY <1>3 DEF Elections
  <2>2. PICK hash \in [Addrs -> 1 .. Cardinality(Addrs)] :
           /\ \A a \in Addrs \ {x} : hash[x] < hash[a]
           /\ \A a \in Addrs \ {x, y} : x # y => hash[y] < hash[a]
    BY <1>1, HashesExist
  <2>3. \A a \in Addrs : hash[a] \in Int
    BY <2>2
  <2> DEFINE P == Proofs(hash, vs)
  <2>4. /\ IsFiniteSet(P)
        /\ \A p \in P : /\ p.ValidatorAddr \in ActiveOf(vs)
                        /\ p.Hash = hash[p.ValidatorAddr]
                        /\ p.Hash \in Int /\ p.Stake \in Int
        /\ \A p, q \in P : p.ValidatorAddr = q.ValidatorAddr => p = q
        /\ \A a \in ActiveOf(vs) : \E p \in P : p.ValidatorAddr = a
    BY <2>3, ProofsOfActive, Zenon
  <2>5. ElectSlot(hash, vs) =
          IF P = {} THEN <<NoServer, NoServer>>
          ELSE <<First(P).ValidatorAddr,
                 IF P \ {First(P)} = {} THEN First(P).ValidatorAddr
                                        ELSE First(P \ {First(P)}).ValidatorAddr>>
    BY DEF ElectSlot
  <2> HIDE DEF P
  <2>6. PICK p \in P : p.ValidatorAddr = x
    BY <2>4
  <2>7. PICK q \in P : q.ValidatorAddr = y
    BY <2>4
  <2>8. First(P) = p
    <3>1. \A o \in P \ {p} : p.Hash < o.Hash
      BY <1>1, <2>2, <2>4, <2>6
    <3> QED
      BY <2>4, <3>1, LowestIsFirst
  <2>9. CASE x = y
    <3>1. P \ {p} = {}
      BY <2>1, <2>4, <2>6, <2>9
    <3> QED
      BY <2>1, <2>5, <2>6, <2>8, <2>9, <3>1
  <2>10. CASE x # y
    <3>1. q \in P \ {p} /\ IsFiniteSet(P \ {p})
      BY <2>4, <2>6, <2>7, <2>10, FS_Subset
    <3>2. \A o \in (P \ {p}) \ {q} : q.Hash < o.Hash
      BY <1>1, <2>2, <2>4, <2>6, <2>7, <2>10
    <3>3. First(P \ {p}) = q
      BY <2>4, <3>1, <3>2, LowestIsFirst
    <3> QED
      BY <2>1, <2>5, <2>6, <2>7, <2>8, <3>1, <3>3
  <2> QED
    BY <2>9, <2>10
<1> QED
  BY <1>2, <1>3

\* The election of a single input.
LEMMA ElectionsOfInput == Input => ElectionsAreExact
<1> SUFFICES ASSUME Input, input.of = "election"
             PROVE  Elections({v.Address : v \in {w \in input.validators :
                                                    w.Status = "active"}})
                       = {ElectSlot(hash, input.validators) :
                            hash \in [Addrs -> 1 .. Cardinality(Addrs)]}
  BY DEF ElectionsAreExact
<1>1. PICK vs \in ValidatorSets : vs = input.validators
  BY DEF Input
<1>2. Elections(ActiveOf(vs))
        = {ElectSlot(hash, vs) : hash \in [Addrs -> 1 .. Cardinality(Addrs)]}
  <2>1. \A r \in Elections(ActiveOf(vs)) :
           \E hash \in [Addrs -> 1 .. Cardinality(Addrs)] : r = ElectSlot(hash, vs)
    BY ElectionIsElected
  <2>2. \A hash \in [Addrs -> 1 .. Cardinality(Addrs)] :
           ElectSlot(hash, vs) \in Elections(ActiveOf(vs))
    BY ElectedIsElection
  <2> QED
    BY <2>1, <2>2, Zenon
<1> QED
  BY <1>1, <1>2, Zenon DEF ActiveOf

\* For every number of validators and all their stakes, the elections the
\* application chooses from are exactly what ElectSlot returns over all hashes.
THEOREM ElectionTheorem == Spec => []ElectionsAreExact
  BY InputInvariant, ElectionsOfInput, PTL

-----------------------------------------------------------------------------
(* The rewards of an epoch                                                 *)

\* A quotient is the greatest number of times the divisor fits.
LEMMA Division ==
    ASSUME NEW x \in Nat, NEW n \in Nat \ {0}
    PROVE  /\ x \div n \in Nat
           /\ (x \div n) * n <= x
           /\ x < (x \div n + 1) * n
  OBVIOUS

\* A product with a natural number keeps the order, and a positive one reflects it.
LEMMA ProductOrder ==
    ASSUME NEW x \in Nat, NEW y \in Nat, NEW n \in Nat
    PROVE  /\ x * n \in Nat
           /\ x <= y => x * n <= y * n
           /\ n > 0 /\ x * n <= y * n => x <= y
           /\ n > 0 /\ x * n < y * n => x < y
  OBVIOUS

\* A share is rounded down.
LEMMA ShareBounds ==
    ASSUME NEW pool \in Nat, NEW n \in Nat, NEW total \in Nat
    PROVE  /\ Share(pool, n, total) \in Nat
           /\ Share(pool, n, total) * total <= pool * n
<1>1. pool * n \in Nat
  BY ProductOrder
<1>2. CASE n > 0 /\ total > 0
  BY <1>1, <1>2, Division DEF Share
<1>3. CASE ~ (n > 0 /\ total > 0)
  BY <1>1, <1>3 DEF Share
<1> QED
  BY <1>2, <1>3

\* A larger part of the work, n of t against m of u, gets no smaller a share.
LEMMA ShareGrows ==
    ASSUME NEW pool \in Nat, NEW m \in Nat, NEW u \in Nat, NEW n \in Nat, NEW t \in Nat,
           m * t <= n * u, t > 0
    PROVE  Share(pool, m, u) <= Share(pool, n, t)
<1> DEFINE q == Share(pool, m, u)
<1>1. q \in Nat /\ q * u <= pool * m
  BY ShareBounds
<1>2. Share(pool, n, t) \in Nat
  BY ShareBounds
<1>3. CASE m = 0 \/ u = 0
  BY <1>2, <1>3 DEF Share
<1>4. CASE m > 0 /\ u > 0
  <2> HIDE DEF q
  <2>1. n > 0
    BY <1>4
  <2>2. (q * u) * t <= (pool * m) * t
    BY <1>1, ProductOrder
  <2>3. pool * (m * t) <= pool * (n * u)
    <3>1. m * t \in Nat /\ n * u \in Nat
      BY ProductOrder
    <3>2. PICK x \in Nat, y \in Nat : x = m * t /\ y = n * u
      BY <3>1
    <3>3. pool * x <= pool * y
      BY <3>2, ProductOrder
    <3> QED
      BY <3>2, <3>3
  <2>4. /\ (q * u) * t = (q * t) * u
        /\ (pool * m) * t = pool * (m * t)
        /\ pool * (n * u) = (pool * n) * u
    BY <1>1
  <2>5. (q * t) * u <= (pool * n) * u
    <3>1. q * t \in Nat /\ pool * n \in Nat /\ q * u \in Nat /\ pool * m \in Nat
      BY <1>1, ProductOrder
    <3> QED
      BY <2>2, <2>3, <2>4, <3>1
  <2>6. q * t <= pool * n
    <3>1. PICK x \in Nat, y \in Nat : x = q * t /\ y = pool * n
      BY <1>1, ProductOrder
    <3>2. x * u <= y * u
      BY <2>5, <3>1
    <3>3. x <= y
      BY <1>4, <3>2, ProductOrder
    <3> QED
      BY <3>1, <3>3
  <2>7. PICK y \in Nat : y = pool * n
    BY ProductOrder
  <2>8. /\ y \div t \in Nat
        /\ y < (y \div t + 1) * t
    BY Division
  <2>9. q * t < (y \div t + 1) * t
    <3>1. q * t \in Nat /\ (y \div t + 1) * t \in Nat
      BY <1>1, <2>8, ProductOrder
    <3> QED
      BY <2>6, <2>7, <2>8, <3>1
  <2>10. q < y \div t + 1
    <3>1. PICK w \in Nat : w = y \div t + 1
      BY <2>8
    <3> QED
      BY <1>1, <2>9, <3>1, ProductOrder
  <2> QED
    BY <1>1, <2>1, <2>7, <2>8, <2>10 DEF Share, q
<1> QED
  BY <1>3, <1>4

\* The shares of a pool never add up to more than the pool.
LEMMA SharesWithinPool ==
    ASSUME NEW pool \in Nat, NEW S, IsFiniteSet(S), NEW work \in [S -> Nat]
    PROVE  SumFunctionOnSet([a \in S |-> Share(pool, work[a], SumFunctionOnSet(work, S))], S)
              <= pool
<1> DEFINE t == SumFunctionOnSet(work, S)
           share == [a \in S |-> Share(pool, work[a], t)]
           scaled == [a \in S |-> t * share[a]]
           parts == [a \in S |-> pool * work[a]]
<1>1. t \in Nat
  BY SumNat
<1>2. \A a \in S : work[a] \in Nat /\ share[a] \in Nat /\ share[a] * t <= pool * work[a]
  BY <1>1, ShareBounds, Zenon
<1> HIDE DEF t
<1>3. SumFunctionOnSet(share, S) \in Nat
  <2> HIDE DEF share
  <2> QED
    BY <1>2, SumNat
<1>4. CASE t = 0
  <2>1. \A a \in S : share[a] = 0
    BY <1>4 DEF Share
  <2> HIDE DEF share
  <2>2. SumFunctionOnSet(share, S) = 0
    BY <1>2, <2>1, SumNat
  <2> QED
    BY <2>2 DEF share, t
<1>5. CASE t > 0
  <2>1. \A a \in S : scaled[a] \in Int /\ parts[a] \in Int /\ scaled[a] <= parts[a]
    <3> SUFFICES ASSUME NEW a \in S
                 PROVE  t * share[a] \in Int /\ pool * work[a] \in Int
                        /\ t * share[a] <= pool * work[a]
      OBVIOUS
    <3> QED
      BY <1>1, <1>2
  <2>2. \A a \in S : scaled[a] = t * share[a] /\ parts[a] = pool * work[a]
    OBVIOUS
  <2> HIDE DEF share, scaled, parts
  <2>3. SumFunctionOnSet(scaled, S) <= SumFunctionOnSet(parts, S)
    BY <2>1, SumMonotone
  <2>4. SumFunctionOnSet(scaled, S) = t * SumFunctionOnSet(share, S)
    BY <1>1, <1>2, <2>2, SumScale
  <2>5. SumFunctionOnSet(parts, S) = pool * t
    BY <1>2, <2>2, SumScale DEF t
  <2>6. PICK x \in Nat : x = SumFunctionOnSet(share, S)
    BY <1>3
  <2>7. x * t <= pool * t
    BY <1>1, <2>3, <2>4, <2>5, <2>6
  <2>8. x <= pool
    BY <1>1, <1>5, <2>7, ProductOrder
  <2> QED
    BY <2>6, <2>8 DEF share, t
<1> QED
  BY <1>1, <1>4, <1>5

\* The counters of a validator.
EpochCounters ==
    [JobsServed: Nat, JobsObserved: Nat, JobsSlashed: Nat, BlocksReverted: Nat,
     DisputesWon: Nat]

\* Slashes beyond the jobs served leave zero jobs, not a negative number.
LEMMA EffectiveIsNat ==
    ASSUME NEW c \in EpochCounters
    PROVE  /\ EffectiveServed(c) \in Nat
           /\ c.JobsObserved \in Nat /\ c.DisputesWon \in Nat
<1>1. /\ c.JobsServed \in Nat /\ c.JobsSlashed \in Nat /\ c.BlocksReverted \in Nat
      /\ c.JobsObserved \in Nat /\ c.DisputesWon \in Nat
  BY DEF EpochCounters
<1> QED
  BY <1>1 DEF EffectiveServed

\* The work of the validators, as DistributeEpoch adds it up.
LEMMA WorkType ==
    ASSUME NEW s \in [Addrs -> EpochCounters]
    PROVE  /\ effectiveServed(s) \in [Addrs -> Nat]
           /\ observed(s) \in [Addrs -> Nat]
           /\ disputesWon(s) \in [Addrs -> Nat]
<1>1. \A a \in Addrs : /\ EffectiveServed(s[a]) \in Nat
                       /\ s[a].JobsObserved \in Nat /\ s[a].DisputesWon \in Nat
  BY EffectiveIsNat
<1> QED
  BY <1>1 DEF effectiveServed, observed, disputesWon

\* The total of a column of work.
LEMMA TotalType ==
    ASSUME NEW work \in [Addrs -> Nat]
    PROVE  /\ SumFunction(work) = SumFunctionOnSet(work, Addrs)
           /\ SumFunction(work) \in Nat
<1>1. DOMAIN work = Addrs
  OBVIOUS
<1>2. SumFunction(work) = SumFunctionOnSet(work, Addrs)
  BY <1>1, Zenon DEF SumFunction
<1>3. SumFunctionOnSet(work, Addrs) \in Nat
  BY AlgorithmsAssumption, SumNat
<1> QED
  BY <1>2, <1>3

\* One validator's share of one part of the pool.
LEMMA ShareOfIsNat ==
    ASSUME NEW pool \in Nat, NEW bps \in Nat, NEW work \in [Addrs -> Nat], NEW a \in Addrs
    PROVE  ShareOf(pool, bps, work, a) \in Nat
<1>1. PICK part \in Nat : part = (pool * bps) \div 10000
  BY ProductOrder, Division
<1>2. SumFunction(work) \in Nat
  BY TotalType
<1>3. ShareOf(pool, bps, work, a) = Share(part, work[a], SumFunction(work))
  BY <1>1 DEF ShareOf
<1>4. work[a] \in Nat
  BY Zenon
<1>5. Share(part, work[a], SumFunction(work)) \in Nat
  BY <1>2, <1>4, ShareBounds
<1> QED
  BY <1>3, <1>5, Zenon

\* The shares of one part of the pool are within that part.
LEMMA ShareOfType ==
    ASSUME NEW pool \in Nat, NEW bps \in Nat, NEW work \in [Addrs -> Nat]
    PROVE  /\ (pool * bps) \div 10000 \in Nat
           /\ \A a \in Addrs : ShareOf(pool, bps, work, a) \in Nat
           /\ SumFunctionOnSet([a \in Addrs |-> ShareOf(pool, bps, work, a)], Addrs)
                 <= (pool * bps) \div 10000
<1>1. PICK part \in Nat : part = (pool * bps) \div 10000
  BY ProductOrder, Division
<1>2. SumFunction(work) = SumFunctionOnSet(work, Addrs) /\ SumFunction(work) \in Nat
  BY TotalType
<1>3. \A a \in Addrs : ShareOf(pool, bps, work, a)
                         = Share(part, work[a], SumFunctionOnSet(work, Addrs))
  BY <1>1, <1>2 DEF ShareOf
<1>4. \A a \in Addrs : ShareOf(pool, bps, work, a) \in Nat
  BY <1>2, <1>3, ShareBounds
<1>5. SumFunctionOnSet([a \in Addrs |-> Share(part, work[a], SumFunctionOnSet(work, Addrs))],
                       Addrs) <= part
  BY AlgorithmsAssumption, SharesWithinPool
<1>6. [a \in Addrs |-> ShareOf(pool, bps, work, a)]
        = [a \in Addrs |-> Share(part, work[a], SumFunctionOnSet(work, Addrs))]
  BY <1>3
<1> QED
  BY <1>1, <1>4, <1>5, <1>6

\* The commission of c basis points on a share of d.
valCommission(d, c) == Quot(d * c, 10000)

\* A commission of at most 100% is a part of the delegators' share.
LEMMA CommissionBounds ==
    ASSUME NEW d \in Nat, NEW c \in Int
    PROVE  /\ valCommission(d, c) \in Int
           /\ IsRate(c) => valCommission(d, c) \in 0 .. d
<1>1. PICK x \in Int : x = d * c
  OBVIOUS
<1>2. Quot(x, 10000) \in Int
  BY DEF Quot
<1>3. ASSUME IsRate(c)
      PROVE  x \in Nat /\ x <= d * 10000
  <2>1. PICK n \in Nat : n = c /\ n <= 10000
    BY <1>3 DEF IsRate
  <2>2. n * d <= 10000 * d
    BY <2>1, ProductOrder
  <2> QED
    BY <1>1, <2>1, <2>2
<1>4. ASSUME IsRate(c)
      PROVE  Quot(x, 10000) \in 0 .. d
  BY <1>3, <1>4 DEF Quot
<1> QED
  BY <1>1, <1>2, <1>4 DEF valCommission

\* A larger share pays no less commission, and keeps no less after it.
LEMMA CommissionGrows ==
    ASSUME NEW d \in Nat, NEW e \in Nat, d <= e, NEW c \in Nat, IsRate(c)
    PROVE  /\ valCommission(d, c) \in Nat /\ valCommission(e, c) \in Nat
           /\ valCommission(d, c) <= valCommission(e, c)
           /\ d - valCommission(d, c) <= e - valCommission(e, c)
<1>1. PICK k \in Nat : e = d + k
  <2>1. e - d \in Nat /\ e = d + (e - d)
    OBVIOUS
  <2> QED
    BY <2>1
<1>2. PICK x \in Nat, z \in Nat : x = d * c /\ z = k * c
  BY ProductOrder
<1>3. e * c = x + z /\ z <= k * 10000
  <2>1. c * k <= 10000 * k
    BY ProductOrder DEF IsRate
  <2> QED
    BY <1>1, <1>2, <2>1
<1>4. /\ x \div 10000 \in Nat /\ (x + z) \div 10000 \in Nat
      /\ x \div 10000 <= (x + z) \div 10000
      /\ (x + z) \div 10000 <= x \div 10000 + k
  BY <1>3
<1>5. valCommission(d, c) = x \div 10000 /\ valCommission(e, c) = (x + z) \div 10000
  BY <1>2, <1>3 DEF Quot, valCommission
<1> QED
  BY <1>1, <1>4, <1>5

\* The shares a reward of DistributeEpoch is made of, and the commission the
\* validator keeps of its delegators' share.
serving(s, pool, a) == ShareOf(pool, RewardServingBPS, effectiveServed(s), a)

observing(s, pool, a) == ShareOf(pool, RewardObserverBPS, observed(s), a)

delegated(s, pool, a) == ShareOf(pool, RewardDelegatorBPS, effectiveServed(s), a)

bounty(s, pool, a) == ShareOf(pool, RewardBountyBPS, disputesWon(s), a)

commission(s, pool, a) == valCommission(delegated(s, pool, a), Commission[a])

\* The four parts of the pool are rates.
LEMMA RatesAreNat ==
    /\ RewardServingBPS \in Nat /\ RewardObserverBPS \in Nat
    /\ RewardDelegatorBPS \in Nat /\ RewardBountyBPS \in Nat
  BY DEF RewardServingBPS, RewardObserverBPS, RewardDelegatorBPS, RewardBountyBPS

\* No share is negative.
LEMMA PartsAreNat ==
    ASSUME NEW s \in [Addrs -> EpochCounters], NEW pool \in Nat, NEW a \in Addrs
    PROVE  /\ serving(s, pool, a) \in Nat /\ observing(s, pool, a) \in Nat
           /\ delegated(s, pool, a) \in Nat /\ bounty(s, pool, a) \in Nat
<1>1. /\ effectiveServed(s) \in [Addrs -> Nat] /\ observed(s) \in [Addrs -> Nat]
      /\ disputesWon(s) \in [Addrs -> Nat]
  BY WorkType
<1> QED
  BY <1>1, RatesAreNat, ShareOfIsNat, Zenon DEF serving, observing, delegated, bounty

\* A commission of at most 100% is a part of the share it is taken from.
LEMMA CommissionType ==
    ASSUME NEW s \in [Addrs -> EpochCounters], NEW pool \in Nat, NEW a \in Addrs
    PROVE  /\ commission(s, pool, a) \in Int
           /\ IsRate(Commission[a]) => commission(s, pool, a) \in 0 .. delegated(s, pool, a)
<1>1. PICK c \in Int : c = Commission[a]
  BY DistributionAssumption
<1>2. PICK d \in Nat : d = delegated(s, pool, a)
  BY PartsAreNat, Zenon
<1>3. valCommission(d, c) \in Int /\ (IsRate(c) => valCommission(d, c) \in 0 .. d)
  BY <1>1, <1>2, CommissionBounds, Zenon
<1> QED
  BY <1>1, <1>2, <1>3, Zenon DEF commission

\* The record DistributeEpoch fills in, field by field.
LEMMA RewardFields ==
    ASSUME NEW s, NEW pool, NEW a
    PROVE  /\ Reward(s, pool, a).ServingReward = serving(s, pool, a) + commission(s, pool, a)
           /\ Reward(s, pool, a).ObserverReward = observing(s, pool, a)
           /\ Reward(s, pool, a).DelegatorReward
                = delegated(s, pool, a) - commission(s, pool, a)
           /\ Reward(s, pool, a).BountyReward = bounty(s, pool, a)
<1> DEFINE S == serving(s, pool, a)
           O == observing(s, pool, a)
           D == delegated(s, pool, a)
           B == bounty(s, pool, a)
           v == commission(s, pool, a)
<1>1. Reward(s, pool, a) = [ServingReward |-> S + v, ObserverReward |-> O,
                            DelegatorReward |-> D - v, BountyReward |-> B]
  BY DEF Reward, serving, observing, delegated, bounty, commission, valCommission
<1> HIDE DEF S, O, D, B, v
<1>2. /\ Reward(s, pool, a).ServingReward = S + v /\ Reward(s, pool, a).ObserverReward = O
      /\ Reward(s, pool, a).DelegatorReward = D - v /\ Reward(s, pool, a).BountyReward = B
  BY <1>1
<1> QED
  BY <1>2 DEF S, O, D, B, v

\* Every field is an integer, and the commission cancels out of their sum.
LEMMA PaidParts ==
    ASSUME NEW s \in [Addrs -> EpochCounters], NEW pool \in Nat, NEW a \in Addrs
    PROVE  /\ Reward(s, pool, a).ServingReward \in Int
           /\ Reward(s, pool, a).ObserverReward \in Int
           /\ Reward(s, pool, a).DelegatorReward \in Int
           /\ Reward(s, pool, a).BountyReward \in Int
           /\ Paid(Reward(s, pool, a)) = serving(s, pool, a) + observing(s, pool, a)
                                           + delegated(s, pool, a) + bounty(s, pool, a)
<1>1. PICK S \in Nat, O \in Nat, D \in Nat, B \in Nat :
        /\ S = serving(s, pool, a) /\ O = observing(s, pool, a)
        /\ D = delegated(s, pool, a) /\ B = bounty(s, pool, a)
  BY PartsAreNat, Zenon
<1>2. PICK v \in Int : v = commission(s, pool, a)
  BY CommissionType, Zenon
<1>3. PICK w : w = Reward(s, pool, a)
  OBVIOUS
<1>4. /\ w.ServingReward = S + v /\ w.ObserverReward = O
      /\ w.DelegatorReward = D - v /\ w.BountyReward = B
  BY <1>1, <1>2, <1>3, RewardFields, Zenon
<1>5. /\ w.ServingReward \in Int /\ w.ObserverReward \in Int
      /\ w.DelegatorReward \in Int /\ w.BountyReward \in Int
      /\ Paid(w) = S + O + D + B
  BY <1>4 DEF Paid
<1> QED
  BY <1>1, <1>3, <1>5, Zenon

\* The fields of a reward, and the reward of a validator that is not returned.
LEMMA ZeroFields ==
    /\ DOMAIN Zero = {"ServingReward", "ObserverReward", "DelegatorReward", "BountyReward"}
    /\ \A f \in DOMAIN Zero : Zero[f] = 0
  BY DEF Zero

\* With a commission of at most 100% no field is negative.
LEMMA RewardIsNat ==
    ASSUME NEW s \in [Addrs -> EpochCounters], NEW pool \in Nat, NEW a \in Addrs,
           IsRate(Commission[a]), NEW f \in DOMAIN Zero
    PROVE  Reward(s, pool, a)[f] >= 0
<1>1. PICK S \in Nat, O \in Nat, D \in Nat, B \in Nat :
        /\ S = serving(s, pool, a) /\ O = observing(s, pool, a)
        /\ D = delegated(s, pool, a) /\ B = bounty(s, pool, a)
  BY PartsAreNat, Zenon
<1>2. PICK v \in 0 .. D : v = commission(s, pool, a)
  BY <1>1, CommissionType, Zenon
<1>3. PICK w : w = Reward(s, pool, a)
  OBVIOUS
<1>4. /\ w.ServingReward = S + v /\ w.ObserverReward = O
      /\ w.DelegatorReward = D - v /\ w.BountyReward = B
  BY <1>1, <1>2, <1>3, RewardFields, Zenon
<1>5. f \in {"ServingReward", "ObserverReward", "DelegatorReward", "BountyReward"}
  BY ZeroFields, Zenon
<1>6. w[f] >= 0
  BY <1>4, <1>5
<1> QED
  BY <1>3, <1>6, Zenon

\* ShareOfType for a column of a reward record.
LEMMA SharesOfPart ==
    ASSUME NEW pool \in Nat, NEW bps \in Nat, NEW work \in [Addrs -> Nat],
           NEW f, \A a \in Addrs : f[a] = ShareOf(pool, bps, work, a)
    PROVE  /\ \A a \in Addrs : f[a] \in Nat
           /\ SumFunctionOnSet(f, Addrs) <= (pool * bps) \div 10000
<1> DEFINE g == [a \in Addrs |-> ShareOf(pool, bps, work, a)]
<1>1. \A a \in Addrs : ShareOf(pool, bps, work, a) \in Nat
  BY ShareOfIsNat
<1>2. SumFunctionOnSet(g, Addrs) <= (pool * bps) \div 10000
  BY ShareOfType
<1>3. \A a \in Addrs : g[a] \in Int /\ f[a] = g[a]
  BY <1>1
<1> HIDE DEF g
<1>4. SumFunctionOnSet(f, Addrs) = SumFunctionOnSet(g, Addrs)
  BY <1>3, AlgorithmsAssumption, SumSame
<1> QED
  BY <1>1, <1>2, <1>4

\* All that could be paid, to validators that earn nothing too, is in the pool.
LEMMA TotalWithinPool ==
    ASSUME NEW s \in [Addrs -> EpochCounters], NEW pool \in Nat
    PROVE  /\ \A a \in Addrs : Paid(Reward(s, pool, a)) \in Nat
           /\ SumFunctionOnSet([a \in Addrs |-> Paid(Reward(s, pool, a))], Addrs) <= pool
<1>1. PICK S, O, D, B :
        /\ S = [a \in Addrs |-> serving(s, pool, a)]
        /\ O = [a \in Addrs |-> observing(s, pool, a)]
        /\ D = [a \in Addrs |-> delegated(s, pool, a)]
        /\ B = [a \in Addrs |-> bounty(s, pool, a)]
  BY Zenon
<1> DEFINE SO == [a \in Addrs |-> S[a] + O[a]]
           DB == [a \in Addrs |-> D[a] + B[a]]
           all == [a \in Addrs |-> Paid(Reward(s, pool, a))]
           Sum(f) == SumFunctionOnSet(f, Addrs)
<1>2. /\ effectiveServed(s) \in [Addrs -> Nat] /\ observed(s) \in [Addrs -> Nat]
      /\ disputesWon(s) \in [Addrs -> Nat]
  BY WorkType
<1>4. /\ \A a \in Addrs : S[a] \in Nat
      /\ Sum(S) <= (pool * RewardServingBPS) \div 10000
  <2>1. PICK work \in [Addrs -> Nat], bps \in Nat : work = effectiveServed(s) /\ bps = RewardServingBPS
    BY <1>2, RatesAreNat, Zenon
  <2>2. \A a \in Addrs : S[a] = ShareOf(pool, bps, work, a)
    BY <1>1, <2>1, Zenon DEF serving
  <2>3. (\A a \in Addrs : S[a] \in Nat) /\ Sum(S) <= (pool * bps) \div 10000
    BY <2>2, SharesOfPart
  <2> QED
    BY <2>1, <2>3
<1>5. /\ \A a \in Addrs : O[a] \in Nat
      /\ Sum(O) <= (pool * RewardObserverBPS) \div 10000
  <2>1. PICK work \in [Addrs -> Nat], bps \in Nat : work = observed(s) /\ bps = RewardObserverBPS
    BY <1>2, RatesAreNat, Zenon
  <2>2. \A a \in Addrs : O[a] = ShareOf(pool, bps, work, a)
    BY <1>1, <2>1, Zenon DEF observing
  <2>3. (\A a \in Addrs : O[a] \in Nat) /\ Sum(O) <= (pool * bps) \div 10000
    BY <2>2, SharesOfPart
  <2> QED
    BY <2>1, <2>3
<1>6. /\ \A a \in Addrs : D[a] \in Nat
      /\ Sum(D) <= (pool * RewardDelegatorBPS) \div 10000
  <2>1. PICK work \in [Addrs -> Nat], bps \in Nat : work = effectiveServed(s) /\ bps = RewardDelegatorBPS
    BY <1>2, RatesAreNat, Zenon
  <2>2. \A a \in Addrs : D[a] = ShareOf(pool, bps, work, a)
    BY <1>1, <2>1, Zenon DEF delegated
  <2>3. (\A a \in Addrs : D[a] \in Nat) /\ Sum(D) <= (pool * bps) \div 10000
    BY <2>2, SharesOfPart
  <2> QED
    BY <2>1, <2>3
<1>7. /\ \A a \in Addrs : B[a] \in Nat
      /\ Sum(B) <= (pool * RewardBountyBPS) \div 10000
  <2>1. PICK work \in [Addrs -> Nat], bps \in Nat : work = disputesWon(s) /\ bps = RewardBountyBPS
    BY <1>2, RatesAreNat, Zenon
  <2>2. \A a \in Addrs : B[a] = ShareOf(pool, bps, work, a)
    BY <1>1, <2>1, Zenon DEF bounty
  <2>3. (\A a \in Addrs : B[a] \in Nat) /\ Sum(B) <= (pool * bps) \div 10000
    BY <2>2, SharesOfPart
  <2> QED
    BY <2>1, <2>3
<1>8. ASSUME NEW a \in Addrs
      PROVE  Paid(Reward(s, pool, a)) = S[a] + O[a] + D[a] + B[a]
  BY <1>1, <1>8, PaidParts, Zenon
<1>9. \A a \in Addrs : SO[a] = S[a] + O[a] /\ DB[a] = D[a] + B[a] /\ all[a] = SO[a] + DB[a]
  BY <1>4, <1>5, <1>6, <1>7, <1>8
<1>10. \A a \in Addrs : all[a] \in Nat
  BY <1>4, <1>5, <1>6, <1>7, <1>9
<1>11. \A a \in Addrs : Paid(Reward(s, pool, a)) \in Nat
  BY <1>10
<1> HIDE DEF SO, DB, all
<1>12. IsFiniteSet(Addrs)
  BY AlgorithmsAssumption
<1>13. Sum(SO) = Sum(S) + Sum(O)
  <2>1. \A a \in Addrs : /\ S[a] \in Int /\ O[a] \in Int
                        /\ SO[a] = S[a] + O[a]
    BY <1>4, <1>5, <1>9
  <2> QED
    BY <1>12, <2>1, SumPlus
<1>14. Sum(DB) = Sum(D) + Sum(B)
  <2>1. \A a \in Addrs : /\ D[a] \in Int /\ B[a] \in Int
                        /\ DB[a] = D[a] + B[a]
    BY <1>6, <1>7, <1>9
  <2> QED
    BY <1>12, <2>1, SumPlus
<1>15. Sum(all) = Sum(SO) + Sum(DB)
  <2>1. \A a \in Addrs : /\ SO[a] \in Int /\ DB[a] \in Int
                        /\ all[a] = SO[a] + DB[a]
    BY <1>4, <1>5, <1>6, <1>7, <1>9
  <2> QED
    BY <1>12, <2>1, SumPlus
<1>16. Sum(S) \in Nat /\ Sum(O) \in Nat /\ Sum(D) \in Nat /\ Sum(B) \in Nat
  BY <1>4, <1>5, <1>6, <1>7, <1>12, SumNat
<1> HIDE DEF Sum
<1>17. Sum(all) <= pool
  BY <1>4, <1>5, <1>6, <1>7, <1>13, <1>14, <1>15, <1>16
     DEF RewardServingBPS, RewardObserverBPS, RewardDelegatorBPS, RewardBountyBPS
<1> QED
  BY <1>11, <1>17 DEF Sum, all

\* What an input about rewards consists of.
LEMMA RewardsInput ==
    ASSUME Input, input.of = "rewards"
    PROVE  input.stats \in [Addrs -> EpochCounters] /\ input.pool \in Nat
<1>1. PICK s \in [Addrs -> Counters], p \in Pools :
         input = [of |-> "rewards", stats |-> s, pool |-> Pool(p[1], p[2])]
  BY DEF Input
<1>2. s \in [Addrs -> EpochCounters]
  BY AlgorithmsAssumption DEF EpochCounters
<1>3. p[1] \in Nat /\ p[2] \in Nat
  BY AlgorithmsAssumption
<1>4. Pool(p[1], p[2]) \in Nat
  <2>1. PICK x \in Nat, y \in Nat : x = p[1] * 500 /\ y = p[2] * JobFeeUBIGT
    BY <1>3, DistributionAssumption, ProductOrder
  <2>2. Pool(p[1], p[2]) = (x \div 10000) \div 365 + y
    BY <2>1 DEF Pool, InflationRateBPS
  <2> QED
    BY <2>2
<1> QED
  BY <1>1, <1>2, <1>4

\* The rewards of a single input.
LEMMA RewardsOfInput == Input => RewardsWithinPool
<1> SUFFICES ASSUME Input, input.of = "rewards"
             PROVE  LET r == DistributeEpoch(input.stats, input.pool)
                    IN /\ SumFunction([a \in DOMAIN r |-> Paid(r[a])]) <= input.pool
                       /\ \A a \in DOMAIN r, f \in DOMAIN Zero :
                             IsRate(Commission[a]) => r[a][f] >= 0
  BY DEF RewardsWithinPool
<1>1. PICK s \in [Addrs -> EpochCounters], pool \in Nat : s = input.stats /\ pool = input.pool
  BY RewardsInput
<1>2. PICK r : r = DistributeEpoch(s, pool)
  OBVIOUS
<1>3. PICK A \in SUBSET Addrs : r = [a \in A |-> Reward(s, pool, a)]
  <2>1. CASE NoActivity(SumFunction(effectiveServed(s)), SumFunction(observed(s)))
    <3>1. r = [a \in {} |-> 0]
      BY <1>2, <2>1 DEF DistributeEpoch
    <3>2. r = [a \in {} |-> Reward(s, pool, a)]
      BY <3>1
    <3> QED
      BY <3>2, Zenon
  <2>2. CASE ~ NoActivity(SumFunction(effectiveServed(s)), SumFunction(observed(s)))
    <3>1. DOMAIN s = Addrs
      OBVIOUS
    <3>2. r = [a \in {b \in Addrs : IsPaid(Reward(s, pool, b))} |-> Reward(s, pool, a)]
      BY <1>2, <2>2, <3>1 DEF DistributeEpoch
    <3> QED
      BY <3>2
  <2> QED
    BY <2>1, <2>2
<1>4. SumFunction([a \in DOMAIN r |-> Paid(r[a])]) <= pool
  <2> DEFINE all == [a \in Addrs |-> Paid(Reward(s, pool, a))]
             paid == [a \in DOMAIN r |-> Paid(r[a])]
  <2>1. /\ \A a \in Addrs : all[a] \in Nat
        /\ SumFunctionOnSet(all, Addrs) <= pool
    BY TotalWithinPool
  <2>2. DOMAIN paid = A /\ \A a \in A : paid[a] = all[a]
    BY <1>3
  <2> HIDE DEF all, paid
  <2>3. IsFiniteSet(A) /\ IsFiniteSet(Addrs)
    BY AlgorithmsAssumption, FS_Subset
  <2>4. SumFunctionOnSet(paid, A) = SumFunctionOnSet(all, A)
    BY <2>1, <2>2, <2>3, SumSame
  <2>5. SumFunctionOnSet(all, A) <= SumFunctionOnSet(all, Addrs)
    BY <2>1, <2>3, SumPart
  <2>6. SumFunction(paid) = SumFunctionOnSet(paid, A)
    BY <2>2, Zenon DEF SumFunction
  <2>7. SumFunctionOnSet(all, A) \in Nat /\ SumFunctionOnSet(all, Addrs) \in Nat
    BY <2>1, <2>3, SumNat
  <2>8. SumFunction(paid) <= pool
    BY <2>1, <2>4, <2>5, <2>6, <2>7
  <2> QED
    BY <2>8 DEF paid
<1>5. ASSUME NEW a \in DOMAIN r, NEW f \in DOMAIN Zero, IsRate(Commission[a])
      PROVE  r[a][f] >= 0
  <2>1. a \in Addrs /\ r[a] = Reward(s, pool, a)
    BY <1>3
  <2> QED
    BY <1>5, <2>1, RewardIsNat, Zenon
<1> QED
  BY <1>1, <1>2, <1>4, <1>5, Zenon

\* For every number of validators, all counters, pools and commissions, the
\* rewards DistributeEpoch computes are within the pool.
THEOREM RewardsTheorem == Spec => []RewardsWithinPool
  BY InputInvariant, RewardsOfInput, PTL

-----------------------------------------------------------------------------
(* What one more slash changes                                             *)

\* When only a's work shrinks, so does its share, and nobody else's.
LEMMA TotalDrops ==
    ASSUME NEW e \in [Addrs -> Nat], NEW f \in [Addrs -> Nat], NEW a \in Addrs,
           f[a] <= e[a], \A b \in Addrs \ {a} : f[b] = e[b]
    PROVE  /\ SumFunction(f) = SumFunction(e) + f[a] - e[a]
           /\ \A b \in Addrs : f[b] <= SumFunction(f) /\ e[b] <= SumFunction(e)
<1>1. /\ SumFunction(e) = SumFunctionOnSet(e, Addrs)
      /\ SumFunction(f) = SumFunctionOnSet(f, Addrs)
  BY TotalType
<1>2. SumFunctionOnSet(f, Addrs) = SumFunctionOnSet(e, Addrs) + f[a] - e[a]
  BY AlgorithmsAssumption, SumUpdate
<1>3. ASSUME NEW g \in [Addrs -> Nat], NEW b \in Addrs
      PROVE  g[b] <= SumFunctionOnSet(g, Addrs)
  <2>1. SumFunctionOnSet(g, Addrs) = g[b] + SumFunctionOnSet(g, Addrs \ {b})
    BY AlgorithmsAssumption, SumRemove
  <2>2. IsFiniteSet(Addrs \ {b})
    BY AlgorithmsAssumption, FS_RemoveElement
  <2>3. SumFunctionOnSet(g, Addrs \ {b}) \in Nat
    BY <2>2, SumNat
  <2> QED
    BY <2>1, <2>3
<1> QED
  BY <1>1, <1>2, <1>3

\* Losing k jobs, which the total loses too, does not raise the share.
LEMMA ShareDrops ==
    ASSUME NEW pool \in Nat, NEW n \in Nat, NEW k \in Nat, NEW t \in Nat, n + k <= t
    PROVE  Share(pool, n, t - k) <= Share(pool, n + k, t)
<1>1. PICK u \in Nat : t = n + k + u
  <2>1. t - (n + k) \in Nat /\ t = n + k + (t - (n + k))
    OBVIOUS
  <2> QED
    BY <2>1
<1>2. n * t <= (n + k) * (t - k)
  <2>1. t - k = n + u
    BY <1>1
  <2>2. k * u \in Nat
    BY ProductOrder
  <2>3. n * (n + k + u) + k * u = (n + k) * (n + u)
    OBVIOUS
  <2>4. n * (n + k + u) \in Nat
    BY ProductOrder
  <2> QED
    BY <1>1, <2>1, <2>2, <2>3, <2>4
<1>3. CASE t > 0
  <2>1. t - k \in Nat /\ n + k \in Nat
    OBVIOUS
  <2> QED
    BY <1>2, <1>3, <2>1, ShareGrows
<1>4. CASE t = 0
  BY <1>4 DEF Share
<1> QED
  BY <1>3, <1>4

\* A smaller total does not lower the share of the same work.
LEMMA ShareRises ==
    ASSUME NEW pool \in Nat, NEW n \in Nat, NEW t \in Nat, NEW u \in Nat, n <= t, t <= u
    PROVE  Share(pool, n, u) <= Share(pool, n, t)
<1>1. n * t <= n * u
  BY ProductOrder
<1>2. CASE t > 0
  BY <1>1, <1>2, ShareGrows
<1>3. CASE t = 0
  BY <1>3 DEF Share
<1> QED
  BY <1>2, <1>3

\* When one validator works less, its share does not rise and the others do
\* not fall.
LEMMA SharesMove ==
    ASSUME NEW e \in [Addrs -> Nat], NEW f \in [Addrs -> Nat], NEW a \in Addrs,
           f[a] <= e[a], \A b \in Addrs \ {a} : f[b] = e[b],
           NEW pool \in Nat, NEW bps \in Nat
    PROVE  /\ ShareOf(pool, bps, f, a) <= ShareOf(pool, bps, e, a)
           /\ \A b \in Addrs \ {a} : ShareOf(pool, bps, e, b) <= ShareOf(pool, bps, f, b)
<1>1. PICK part \in Nat : part = (pool * bps) \div 10000
  BY ProductOrder, Division
<1>2. PICK t \in Nat, u \in Nat : t = SumFunction(e) /\ u = SumFunction(f)
  BY TotalType
<1>3. /\ u = t + f[a] - e[a]
      /\ \A b \in Addrs : f[b] <= u /\ e[b] <= t
  BY <1>2, TotalDrops
<1>4. \A b \in Addrs : /\ ShareOf(pool, bps, e, b) = Share(part, e[b], t)
                       /\ ShareOf(pool, bps, f, b) = Share(part, f[b], u)
  BY <1>1, <1>2 DEF ShareOf
<1>5. ShareOf(pool, bps, f, a) <= ShareOf(pool, bps, e, a)
  <2>1. PICK n \in Nat, k \in Nat : n = f[a] /\ k = e[a] - f[a]
    OBVIOUS
  <2>2. e[a] = n + k /\ u = t - k /\ n + k <= t
    BY <1>3, <2>1
  <2>3. Share(part, n, t - k) <= Share(part, n + k, t)
    BY <2>2, ShareDrops
  <2> QED
    BY <1>4, <2>1, <2>2, <2>3
<1>6. ASSUME NEW b \in Addrs \ {a}
      PROVE  ShareOf(pool, bps, e, b) <= ShareOf(pool, bps, f, b)
  <2>1. PICK n \in Nat : n = e[b] /\ n = f[b]
    OBVIOUS
  <2>2. n <= u /\ u <= t
    BY <1>3, <2>1
  <2>3. Share(part, n, t) <= Share(part, n, u)
    BY <2>2, ShareRises
  <2> QED
    BY <1>4, <2>1, <2>3
<1> QED
  BY <1>5, <1>6

\* A field a validator is not returned with was 0: what RewardOf reads is the
\* reward computed for it, but for the bounties of an epoch without activity.
LEMMA NothingEarned ==
    ASSUME NEW s \in [Addrs -> EpochCounters], NEW pool \in Nat,
           SumFunction(effectiveServed(s)) = 0, SumFunction(observed(s)) = 0,
           NEW a \in Addrs
    PROVE  serving(s, pool, a) = 0 /\ observing(s, pool, a) = 0 /\ delegated(s, pool, a) = 0
  BY DEF serving, observing, delegated, ShareOf, Share

\* What DistributeEpoch pays a validator, the early return of an idle epoch
\* included.
LEMMA ReturnedPaid ==
    ASSUME NEW s \in [Addrs -> EpochCounters], NEW pool \in Nat, NEW a \in Addrs
    PROVE  LET paid == Paid(RewardOf(DistributeEpoch(s, pool), a))
               idle == NoActivity(SumFunction(effectiveServed(s)), SumFunction(observed(s)))
           IN /\ idle => paid = 0
              /\ ~ idle => paid = Paid(Reward(s, pool, a))
              /\ Paid(Reward(s, pool, a)) \in Nat
<1> DEFINE idle == NoActivity(SumFunction(effectiveServed(s)), SumFunction(observed(s)))
<1>1. PICK r : r = DistributeEpoch(s, pool)
  OBVIOUS
<1>2. Paid(Zero) = 0
  BY DEF Paid, Zero
<1>3. Paid(Reward(s, pool, a)) \in Nat
  BY TotalWithinPool, Zenon
<1>4. ASSUME idle
      PROVE  Paid(RewardOf(r, a)) = 0
  <2>1. DOMAIN r = {}
    BY <1>1, <1>4 DEF DistributeEpoch
  <2> QED
    BY <1>2, <2>1 DEF RewardOf
<1>5. ASSUME ~ idle
      PROVE  Paid(RewardOf(r, a)) = Paid(Reward(s, pool, a))
  <2>1. DOMAIN s = Addrs
    OBVIOUS
  <2>2. r = [b \in {c \in Addrs : IsPaid(Reward(s, pool, c))} |-> Reward(s, pool, b)]
    BY <1>1, <1>5, <2>1 DEF DistributeEpoch
  <2>3. CASE IsPaid(Reward(s, pool, a))
    <3>1. a \in DOMAIN r /\ r[a] = Reward(s, pool, a)
      BY <2>2, <2>3
    <3> QED
      BY <3>1 DEF RewardOf
  <2>4. CASE ~ IsPaid(Reward(s, pool, a))
    <3>1. a \notin DOMAIN r
      BY <2>2, <2>4
    <3>2. PICK w : w = Reward(s, pool, a)
      OBVIOUS
    <3>3. /\ w.ServingReward \in Int /\ w.ObserverReward \in Int
          /\ w.DelegatorReward \in Int /\ w.BountyReward \in Int
      BY <3>2, PaidParts, Zenon
    <3>4. Paid(w) <= 0
      BY <2>4, <3>2, <3>3 DEF Paid, IsPaid
    <3>5. Paid(w) = 0
      BY <1>3, <3>2, <3>4
    <3> QED
      BY <1>2, <3>1, <3>2, <3>5 DEF RewardOf
  <2> QED
    BY <2>3, <2>4
<1> QED
  BY <1>1, <1>3, <1>4, <1>5

\* The early return agrees with the formula in all fields but the bounty.
LEMMA ReturnedFields ==
    ASSUME NEW s \in [Addrs -> EpochCounters], NEW pool \in Nat, NEW a \in Addrs,
           IsRate(Commission[a])
    PROVE  \A f \in DOMAIN Zero \ {"BountyReward"} :
              RewardOf(DistributeEpoch(s, pool), a)[f] = Reward(s, pool, a)[f]
<1>1. PICK r : r = DistributeEpoch(s, pool)
  OBVIOUS
<1>2. PICK S \in Nat, O \in Nat, D \in Nat :
        /\ S = serving(s, pool, a) /\ O = observing(s, pool, a) /\ D = delegated(s, pool, a)
  BY PartsAreNat, Zenon
<1>3. PICK v \in 0 .. D : v = commission(s, pool, a)
  BY <1>2, CommissionType, Zenon
<1>4. PICK w : w = Reward(s, pool, a)
  OBVIOUS
<1>5. w.ServingReward = S + v /\ w.ObserverReward = O /\ w.DelegatorReward = D - v
  BY <1>2, <1>3, <1>4, RewardFields, Zenon
<1>6. SUFFICES ASSUME NEW f \in {"ServingReward", "ObserverReward", "DelegatorReward"}
               PROVE  RewardOf(r, a)[f] = w[f]
  BY <1>1, <1>4, ZeroFields, Zenon
<1>7. Zero[f] = 0
  BY ZeroFields, Zenon
<1>8. CASE NoActivity(SumFunction(effectiveServed(s)), SumFunction(observed(s)))
  <2>1. DOMAIN r = {}
    BY <1>1, <1>8 DEF DistributeEpoch
  <2>2. S = 0 /\ O = 0 /\ D = 0
    BY <1>2, <1>8, NothingEarned DEF NoActivity
  <2>3. v = 0
    BY <2>2
  <2>4. w[f] = 0
    BY <1>5, <2>2, <2>3
  <2> QED
    BY <1>7, <2>1, <2>4, Zenon DEF RewardOf
<1>9. CASE ~ NoActivity(SumFunction(effectiveServed(s)), SumFunction(observed(s)))
  <2>1. DOMAIN s = Addrs
    OBVIOUS
  <2>2. r = [b \in {c \in Addrs : IsPaid(Reward(s, pool, c))} |-> Reward(s, pool, b)]
    BY <1>1, <1>9, <2>1 DEF DistributeEpoch
  <2>3. CASE IsPaid(w)
    <3>1. a \in DOMAIN r /\ r[a] = w
      BY <1>4, <2>2, <2>3
    <3> QED
      BY <3>1 DEF RewardOf
  <2>4. CASE ~ IsPaid(w)
    <3>1. a \notin DOMAIN r
      BY <1>4, <2>2, <2>4
    <3>2. S + v <= 0 /\ O <= 0 /\ D - v <= 0
      BY <1>5, <2>4 DEF IsPaid
    <3>3. w[f] = 0
      BY <1>5, <3>2
    <3> QED
      BY <1>7, <3>1, <3>3, Zenon DEF RewardOf
  <2> QED
    BY <2>3, <2>4
<1> QED
  BY <1>8, <1>9, Zenon

\* The counters with one more slash of a.
Slashed(s, a) == [s EXCEPT ![a].JobsSlashed = @ + 1, ![a].BlocksReverted = @ + 1]

\* A slash lowers the effective work of the slashed validator alone.
LEMMA SlashedWork ==
    ASSUME NEW s \in [Addrs -> EpochCounters], NEW a \in Addrs
    PROVE  /\ Slashed(s, a) \in [Addrs -> EpochCounters]
           /\ effectiveServed(Slashed(s, a))[a] <= effectiveServed(s)[a]
           /\ \A b \in Addrs \ {a} : effectiveServed(Slashed(s, a))[b] = effectiveServed(s)[b]
           /\ observed(Slashed(s, a)) = observed(s)
           /\ disputesWon(Slashed(s, a)) = disputesWon(s)
<1>1. PICK c, d : c = s[a] /\ c \in EpochCounters /\ d = Slashed(s, a)[a]
  OBVIOUS
<1>2. /\ DOMAIN Slashed(s, a) = Addrs
      /\ d = [c EXCEPT !.JobsSlashed = @ + 1, !.BlocksReverted = @ + 1]
      /\ \A b \in Addrs \ {a} : Slashed(s, a)[b] = s[b]
  BY <1>1 DEF Slashed
<1>3. /\ c.JobsServed \in Nat /\ c.JobsSlashed \in Nat /\ c.BlocksReverted \in Nat
      /\ c.JobsObserved \in Nat /\ c.DisputesWon \in Nat
  BY <1>1 DEF EpochCounters
<1>4. /\ d.JobsServed = c.JobsServed /\ d.JobsObserved = c.JobsObserved
      /\ d.DisputesWon = c.DisputesWon
      /\ d.JobsSlashed = c.JobsSlashed + 1 /\ d.BlocksReverted = c.BlocksReverted + 1
      /\ DOMAIN d = {"JobsServed", "JobsObserved", "JobsSlashed", "BlocksReverted", "DisputesWon"}
  BY <1>1, <1>2 DEF EpochCounters
<1>5. d \in EpochCounters
  <2>1. d = [JobsServed |-> c.JobsServed, JobsObserved |-> c.JobsObserved,
             JobsSlashed |-> c.JobsSlashed + 1, BlocksReverted |-> c.BlocksReverted + 1,
             DisputesWon |-> c.DisputesWon]
    BY <1>1, <1>2, Zenon DEF EpochCounters
  <2>2. c.JobsSlashed + 1 \in Nat /\ c.BlocksReverted + 1 \in Nat
    BY <1>3
  <2> QED
    BY <1>3, <2>1, <2>2 DEF EpochCounters
<1>6. EffectiveServed(d) <= EffectiveServed(c)
  BY <1>3, <1>4 DEF EffectiveServed
<1>7. Slashed(s, a) \in [Addrs -> EpochCounters]
  <2>1. \A b \in Addrs : Slashed(s, a)[b] \in EpochCounters
    BY <1>1, <1>2, <1>5, Zenon
  <2>2. Slashed(s, a) = [b \in Addrs |-> Slashed(s, a)[b]]
    BY <1>2, Zenon DEF Slashed
  <2> QED
    BY <2>1, <2>2
<1>8. /\ effectiveServed(Slashed(s, a))[a] <= effectiveServed(s)[a]
      /\ \A b \in Addrs \ {a} : effectiveServed(Slashed(s, a))[b] = effectiveServed(s)[b]
  BY <1>1, <1>2, <1>6, Zenon DEF effectiveServed
<1>9. \A b \in Addrs : /\ Slashed(s, a)[b].JobsObserved = s[b].JobsObserved
                       /\ Slashed(s, a)[b].DisputesWon = s[b].DisputesWon
  BY <1>1, <1>2, <1>4, Zenon
<1>10. /\ observed(Slashed(s, a)) = observed(s)
       /\ disputesWon(Slashed(s, a)) = disputesWon(s)
  BY <1>2, <1>9 DEF observed, disputesWon
<1> QED
  BY <1>7, <1>8, <1>10

\* Shares that do not fall make rewards that do not, after the commission.
LEMMA RewardRises ==
    ASSUME NEW s \in [Addrs -> EpochCounters], NEW m \in [Addrs -> EpochCounters],
           NEW pool \in Nat, NEW b \in Addrs, IsRate(Commission[b]),
           serving(s, pool, b) <= serving(m, pool, b),
           delegated(s, pool, b) <= delegated(m, pool, b),
           observing(s, pool, b) = observing(m, pool, b)
    PROVE  \A f \in {"ServingReward", "ObserverReward", "DelegatorReward"} :
              Reward(m, pool, b)[f] >= Reward(s, pool, b)[f]
<1>1. PICK S \in Nat, D \in Nat, O \in Nat :
        S = serving(s, pool, b) /\ D = delegated(s, pool, b) /\ O = observing(s, pool, b)
  BY PartsAreNat, Zenon
<1>2. PICK T \in Nat, E \in Nat : T = serving(m, pool, b) /\ E = delegated(m, pool, b)
  BY PartsAreNat, Zenon
<1>3. S <= T /\ D <= E
  BY <1>1, <1>2, Zenon
<1>4. PICK c \in Nat : c = Commission[b] /\ IsRate(c)
  BY DistributionAssumption DEF IsRate
<1>5. PICK v \in Nat, w \in Nat : v = valCommission(D, c) /\ w = valCommission(E, c)
  BY <1>3, <1>4, CommissionGrows, Zenon
<1>6. v <= w /\ D - v <= E - w
  BY <1>3, <1>4, <1>5, CommissionGrows, Zenon
<1>7. v = commission(s, pool, b) /\ w = commission(m, pool, b)
  BY <1>1, <1>2, <1>4, <1>5, Zenon DEF commission
<1>8. PICK r, t : r = Reward(s, pool, b) /\ t = Reward(m, pool, b)
  OBVIOUS
<1>9. /\ r.ServingReward = S + v /\ r.ObserverReward = O /\ r.DelegatorReward = D - v
      /\ t.ServingReward = T + w /\ t.ObserverReward = O /\ t.DelegatorReward = E - w
  BY <1>1, <1>2, <1>7, <1>8, RewardFields, Zenon
<1>10. \A f \in {"ServingReward", "ObserverReward", "DelegatorReward"} : t[f] >= r[f]
  BY <1>3, <1>6, <1>9
<1> QED
  BY <1>8, <1>10, Zenon

\* Of the validator slashed, every share falls; of the others, none.
LEMMA SlashMovesRewards ==
    ASSUME NEW s \in [Addrs -> EpochCounters], NEW a \in Addrs, NEW pool \in Nat
    PROVE  /\ Paid(Reward(Slashed(s, a), pool, a)) <= Paid(Reward(s, pool, a))
           /\ \A b \in Addrs \ {a}, f \in DOMAIN Zero \ {"BountyReward"} :
                 IsRate(Commission[b]) =>
                    Reward(Slashed(s, a), pool, b)[f] >= Reward(s, pool, b)[f]
<1>1. PICK m \in [Addrs -> EpochCounters] : m = Slashed(s, a)
  BY SlashedWork
<1>2. PICK e \in [Addrs -> Nat], g \in [Addrs -> Nat] :
        e = effectiveServed(s) /\ g = effectiveServed(m)
  BY WorkType
<1>3. /\ g[a] <= e[a] /\ \A b \in Addrs \ {a} : g[b] = e[b]
      /\ observed(m) = observed(s) /\ disputesWon(m) = disputesWon(s)
  BY <1>1, <1>2, SlashedWork
<1>4. ASSUME NEW bps \in Nat
      PROVE  /\ ShareOf(pool, bps, g, a) <= ShareOf(pool, bps, e, a)
             /\ \A b \in Addrs \ {a} : ShareOf(pool, bps, e, b) <= ShareOf(pool, bps, g, b)
  BY <1>3, SharesMove, Zenon
<1>5. RewardServingBPS \in Nat /\ RewardDelegatorBPS \in Nat
  BY RatesAreNat, Zenon
<1>6. Paid(Reward(m, pool, a)) <= Paid(Reward(s, pool, a))
  <2>1. PICK S \in Nat, O \in Nat, D \in Nat, B \in Nat :
          /\ S = serving(s, pool, a) /\ O = observing(s, pool, a)
          /\ D = delegated(s, pool, a) /\ B = bounty(s, pool, a)
    BY PartsAreNat, Zenon
  <2>2. PICK T \in Nat, E \in Nat : T = serving(m, pool, a) /\ E = delegated(m, pool, a)
    BY PartsAreNat, Zenon
  <2>3. observing(m, pool, a) = O /\ bounty(m, pool, a) = B
    BY <1>3, <2>1, Zenon DEF observing, bounty
  <2>4. Paid(Reward(s, pool, a)) = S + O + D + B
    BY <2>1, PaidParts
  <2>6. Paid(Reward(m, pool, a)) = T + O + E + B
    BY <2>2, <2>3, PaidParts
  <2>5. T <= S /\ E <= D
    BY <1>2, <1>4, <1>5, <2>1, <2>2, Zenon DEF serving, delegated
  <2> QED
    BY <2>4, <2>5, <2>6
<1>7. ASSUME NEW b \in Addrs \ {a}, IsRate(Commission[b]),
             NEW f \in DOMAIN Zero \ {"BountyReward"}
      PROVE  Reward(m, pool, b)[f] >= Reward(s, pool, b)[f]
  <2>1. /\ serving(s, pool, b) <= serving(m, pool, b)
        /\ delegated(s, pool, b) <= delegated(m, pool, b)
        /\ observing(s, pool, b) = observing(m, pool, b)
    BY <1>2, <1>3, <1>4, <1>5, Zenon DEF serving, delegated, observing
  <2>2. f \in {"ServingReward", "ObserverReward", "DelegatorReward"}
    BY ZeroFields, Zenon
  <2> QED
    BY <1>7, <2>1, <2>2, RewardRises, Zenon
<1> QED
  BY <1>1, <1>6, <1>7, Zenon

\* The slash of a single input.
LEMMA SlashesOfInput == Input => SlashNeverPays
<1> SUFFICES ASSUME Input, input.of = "rewards", NEW a \in Addrs
             PROVE  LET r == DistributeEpoch(input.stats, input.pool)
                        s == DistributeEpoch(Slashed(input.stats, a), input.pool)
                    IN /\ Paid(RewardOf(s, a)) <= Paid(RewardOf(r, a))
                       /\ \A b \in Addrs \ {a}, f \in DOMAIN Zero \ {"BountyReward"} :
                             IsRate(Commission[b]) => RewardOf(s, b)[f] >= RewardOf(r, b)[f]
  BY Zenon DEF SlashNeverPays, Slashed
<1>1. PICK t \in [Addrs -> EpochCounters], pool \in Nat : t = input.stats /\ pool = input.pool
  BY RewardsInput
<1>2. PICK m \in [Addrs -> EpochCounters] : m = Slashed(t, a)
  BY SlashedWork
<1>3. PICK r, s : r = DistributeEpoch(t, pool) /\ s = DistributeEpoch(m, pool)
  OBVIOUS
<1>4. /\ Paid(Reward(m, pool, a)) <= Paid(Reward(t, pool, a))
      /\ \A b \in Addrs \ {a}, f \in DOMAIN Zero \ {"BountyReward"} :
            IsRate(Commission[b]) => Reward(m, pool, b)[f] >= Reward(t, pool, b)[f]
  BY <1>2, SlashMovesRewards, Zenon
<1>5. Paid(RewardOf(s, a)) <= Paid(RewardOf(r, a))
  <2> DEFINE idle(x) == NoActivity(SumFunction(effectiveServed(x)), SumFunction(observed(x)))
  <2>1. /\ idle(m) => Paid(RewardOf(s, a)) = 0
        /\ ~ idle(m) => Paid(RewardOf(s, a)) = Paid(Reward(m, pool, a))
        /\ Paid(Reward(m, pool, a)) \in Nat
    BY <1>3, ReturnedPaid, Zenon
  <2>2. /\ idle(t) => Paid(RewardOf(r, a)) = 0
        /\ ~ idle(t) => Paid(RewardOf(r, a)) = Paid(Reward(t, pool, a))
        /\ Paid(Reward(t, pool, a)) \in Nat
    BY <1>3, ReturnedPaid, Zenon
  <2>3. idle(t) => idle(m)
    <3>1. PICK e \in [Addrs -> Nat], g \in [Addrs -> Nat] :
            e = effectiveServed(t) /\ g = effectiveServed(m)
      BY WorkType
    <3>2. /\ g[a] <= e[a] /\ \A b \in Addrs \ {a} : g[b] = e[b]
          /\ observed(m) = observed(t)
      BY <1>2, <3>1, SlashedWork
    <3>3. /\ SumFunction(g) = SumFunction(e) + g[a] - e[a]
          /\ SumFunction(e) \in Nat /\ SumFunction(g) \in Nat
      BY <3>2, TotalDrops, TotalType
    <3> QED
      BY <3>1, <3>2, <3>3 DEF NoActivity
  <2> HIDE DEF idle
  <2> QED
    BY <1>4, <2>1, <2>2, <2>3
<1>6. ASSUME NEW b \in Addrs \ {a}, NEW f \in DOMAIN Zero \ {"BountyReward"},
             IsRate(Commission[b])
      PROVE  RewardOf(s, b)[f] >= RewardOf(r, b)[f]
  <2>1. b \in Addrs
    BY Zenon
  <2>2. RewardOf(s, b)[f] = Reward(m, pool, b)[f]
    BY <1>3, <1>6, <2>1, ReturnedFields, Zenon
  <2>3. RewardOf(r, b)[f] = Reward(t, pool, b)[f]
    BY <1>3, <1>6, <2>1, ReturnedFields, Zenon
  <2>4. Reward(m, pool, b)[f] >= Reward(t, pool, b)[f]
    BY <1>4, <1>6, Zenon
  <2> QED
    BY <2>2, <2>3, <2>4, Zenon
<1> QED
  BY <1>1, <1>2, <1>3, <1>5, <1>6, Zenon

\* For every number of validators, all counters and pools, a slash never raises
\* what DistributeEpoch pays the validator, and never lowers what another, whose
\* commission is at most 100%, gets for its work.
THEOREM SlashRewardTheorem == Spec => []SlashNeverPays
  BY InputInvariant, SlashesOfInput, PTL
=============================================================================

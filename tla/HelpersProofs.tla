---------------------------- MODULE HelpersProofs ----------------------------
(* Facts about the operators of Helpers that the contracts' proofs use. *)
EXTENDS Helpers, FiniteSetTheorems, TLAPS

(* Remainders of the word size are words. *)
LEMMA ModIsUint ==
    ASSUME NEW a \in Int
    PROVE  a % UintModulus \in Uint
BY WordAssumption DEF Uint

(* Words are their own remainder. *)
LEMMA ModOfUint ==
    ASSUME NEW a \in Uint
    PROVE  a % UintModulus = a
BY WordAssumption DEF Uint

(* A difference of words that is negative wraps around once. *)
LEMMA ModOfNegative ==
    ASSUME NEW a \in Int, a < 0, a + UintModulus >= 0
    PROVE  a % UintModulus = a + UintModulus
BY WordAssumption DEF Uint

(* Quotient and remainder of the word size. *)
LEMMA DivisionFacts ==
    ASSUME NEW a \in Int
    PROVE  \E q \in Int, r \in Uint : a = UintModulus * q + r /\ a % UintModulus = r
<1>1. UintModulus \in Nat \ {0}
    BY WordAssumption
<1>2. /\ a \div UintModulus \in Int /\ a % UintModulus \in 0 .. (UintModulus - 1)
      /\ a = UintModulus * (a \div UintModulus) + (a % UintModulus)
    BY <1>1
<1> QED
    BY <1>2 DEF Uint

(* Only the multiple by 0 of the word size is smaller than a word. *)
LEMMA SmallMultiple ==
    ASSUME NEW k \in Int, UintModulus * k < UintModulus, UintModulus * k > 0 - UintModulus
    PROVE  k = 0
<1>1. UintModulus \in Nat \ {0}
    BY WordAssumption
<1>2. CASE k >= 1
    <2>1. UintModulus * k >= UintModulus
        BY <1>1, <1>2
    <2> QED
        BY <1>1, <2>1
<1>3. CASE k <= -1
    <2>1. UintModulus * k <= 0 - UintModulus
        BY <1>1, <1>3
    <2> QED
        BY <1>1, <2>1
<1> QED
    BY <1>2, <1>3

(* Numbers that differ by a multiple of the word size have one remainder. *)
LEMMA SameRemainder ==
    ASSUME NEW x \in Int, NEW y \in Int, NEW k \in Int, y = x + UintModulus * k
    PROVE  x % UintModulus = y % UintModulus
<1>1. UintModulus \in Nat \ {0}
    BY WordAssumption
<1>2. PICK q \in Int, r \in Uint : x = UintModulus * q + r /\ x % UintModulus = r
    BY DivisionFacts
<1>3. PICK p \in Int, s \in Uint : y = UintModulus * p + s /\ y % UintModulus = s
    BY DivisionFacts
<1>4. UintModulus * (q + k - p) = s - r
    <2>1. UintModulus * (q + k - p) = UintModulus * q + UintModulus * k - UintModulus * p
        BY <1>1
    <2> QED
        BY <1>1, <1>2, <1>3, <2>1 DEF Uint
<1>5. q + k - p = 0
    BY <1>1, <1>4, SmallMultiple DEF Uint
<1>6. UintModulus * 0 = 0
    BY <1>1
<1>7. r = s
    BY <1>4, <1>5, <1>6 DEF Uint
<1> QED
    BY <1>2, <1>3, <1>7

(* A remainder may be taken of a summand first. *)
LEMMA ModOfSum ==
    ASSUME NEW a \in Int, NEW b \in Int
    PROVE  ((a % UintModulus) + b) % UintModulus = (a + b) % UintModulus
<1>1. PICK q \in Int, r \in Uint : a = UintModulus * q + r /\ a % UintModulus = r
    BY DivisionFacts
<1>2. a + b = (r + b) + UintModulus * q /\ r + b \in Int /\ a + b \in Int
    BY <1>1, WordAssumption DEF Uint
<1>3. (r + b) % UintModulus = (a + b) % UintModulus
    BY <1>2, SameRemainder
<1> QED
    BY <1>1, <1>3

(* A sum of two words wraps around once or not at all. *)
LEMMA AddCases ==
    ASSUME NEW a \in Uint, NEW b \in Uint
    PROVE  Add(a, b) = IF a + b < UintModulus THEN a + b ELSE a + b - UintModulus
<1>1. UintModulus \in Nat \ {0} /\ a \in Int /\ b \in Int
    BY WordAssumption DEF Uint
<1>2. CASE a + b < UintModulus
    <2>1. a + b \in Uint
        BY <1>1, <1>2 DEF Uint
    <2> QED
        BY <2>1, <1>2, ModOfUint DEF Add
<1>3. CASE ~(a + b < UintModulus)
    <2>1. a + b - UintModulus \in Uint
        BY <1>1, <1>3 DEF Uint
    <2>2. /\ a + b - UintModulus \in Int /\ a + b \in Int
          /\ a + b = (a + b - UintModulus) + UintModulus * 1
        BY <1>1
    <2>3. (a + b - UintModulus) % UintModulus = (a + b) % UintModulus
        BY <2>2, SameRemainder
    <2> QED
        BY <2>1, <2>3, <1>3, ModOfUint DEF Add
<1> QED
    BY <1>2, <1>3

(* A difference that is not negative does not wrap around. *)
LEMMA SubExact ==
    ASSUME NEW a \in Uint, NEW b \in Uint, a >= b
    PROVE  Sub(a, b) = a - b /\ a - b \in Uint
<1>1. a - b \in Uint
    BY WordAssumption DEF Uint
<1> QED
    BY <1>1, ModOfUint DEF Sub

(* Words are natural numbers, and what calls name are words. *)
LEMMA FieldsAreWords ==
    /\ UintModulus \in Nat \ {0} /\ Uint \subseteq Nat
    /\ \A m \in Message : /\ m.recipient \in Recipient /\ m.recipient \in Address
                          /\ m.value \in Uint /\ m.value \in Nat
                          /\ m.mainGasPrice \in GasPrice /\ m.transactionHash \in SideTx
    /\ \A k \in DepositKey : /\ k.recipient \in Recipient /\ k.recipient \in Address
                             /\ k.value \in Uint /\ k.value \in Nat
<1>1. UintModulus \in Nat \ {0} /\ Uint \subseteq Nat
    BY WordAssumption DEF Uint
<1> QED
    BY <1>1, WordAssumption, AddressAssumption DEF Message, DepositKey

(* The contracts' relay cost is a word. *)
LEMMA RelayCostType ==
    ASSUME NEW p \in GasPrice
    PROVE  relayCost(p) \in Uint
<1>1. p \in Nat /\ estimatedGasCostOfWithdraw \in Nat
    BY WordAssumption, ConstructorAssumption DEF Uint
<1>2. estimatedGasCostOfWithdraw * p \in Int
    BY <1>1
<1> QED
    BY <1>2, ModIsUint DEF relayCost, Mul

(* Emitting an event adds one to its count and leaves the other counts. *)
LEMMA EmitFacts ==
    ASSUME NEW E, NEW log \in [E -> Nat], NEW e \in E
    PROVE  /\ Emit(log, e) \in [E -> Nat]
           /\ Emit(log, e)[e] = log[e] + 1
           /\ \A d \in E : d # e => Emit(log, e)[d] = log[d]
BY DEF Emit

(* There are finitely many authorities. *)
LEMMA AuthoritiesFinite == IsFiniteSet(Range(authorities))
<1>1. authorities \in Surjection(1 .. Len(authorities), Range(authorities))
    BY ConstructorAssumption DEF Range, Surjection
<1>2. IsFiniteSet(1 .. Len(authorities))
    BY ConstructorAssumption, FS_Interval
<1> QED
    BY <1>1, <1>2, FS_Surjection

(* n different members need a set of at least n. *)
LEMMA DistinctMembers ==
    ASSUME NEW n \in Nat, NEW S, IsFiniteSet(S),
           NEW f \in [1 .. n -> S],
           \A x, y \in 1 .. n : x < y => f[x] # f[y]
    PROVE  n <= Cardinality(S)
<1>1. IsFiniteSet(1 .. n) /\ Cardinality(1 .. n) = n
    BY FS_Interval
<1>2. Cardinality(S) \in Nat
    BY FS_CardinalityType
<1>3. SUFFICES ASSUME Cardinality(S) < n PROVE FALSE
    BY <1>2
<1>4. \E x, y \in 1 .. n : x # y /\ f[x] = f[y]
    BY <1>1, <1>3, FS_PigeonHole
<1> QED
    BY <1>4

(***************************************************************************)
(* hasEnoughValidSignatures counts signers: the signers of the first       *)
(* requiredSignatures signatures are that many different authorities, none *)
(* of them 0x0.                                                            *)
(***************************************************************************)
LEMMA EnoughSigners ==
    ASSUME NEW message, NEW sigs, NEW S,
           hasEnoughValidSignatures(message, sigs),
           IsFiniteSet(S),
           \A i \in 1 .. requiredSignatures : ecrecover(message, sigs[i]) \in S
    PROVE  requiredSignatures <= Cardinality(S)
<1> DEFINE f == [i \in 1 .. requiredSignatures |-> ecrecover(message, sigs[i])]
<1>1. requiredSignatures \in Nat
    BY ConstructorAssumption
<1>2. f \in [1 .. requiredSignatures -> S]
    OBVIOUS
<1>3. ASSUME NEW x \in 1 .. requiredSignatures, NEW y \in 1 .. requiredSignatures,
             x < y
      PROVE  f[x] # f[y]
    <2>1. x \in 1 .. (y - 1)
        BY <1>1, <1>3
    <2>2. ecrecover(message, sigs[x]) \in encountered(message, sigs, y)
        BY <2>1 DEF encountered
    <2>3. ecrecover(message, sigs[y]) \notin encountered(message, sigs, y)
        BY DEF hasEnoughValidSignatures
    <2> QED
        BY <2>2, <2>3
<1> HIDE DEF f
<1> QED
    BY <1>1, <1>2, <1>3, DistinctMembers

-----------------------------------------------------------------------------
(* Sums, as numbers of units. *)

(* A pair is a unit of f if its second member counts up to what f gives. *)
LEMMA UnitsMembers ==
    ASSUME NEW S, NEW f \in [S -> Nat]
    PROVE  \A x, k : <<x, k>> \in Units(f) <=> x \in S /\ k \in 1 .. f[x]
BY DEF Units

(* The units of one argument are as many as it is given. *)
LEMMA UnitsOfOne ==
    ASSUME NEW a, NEW n \in Nat
    PROVE  IsFiniteSet({a} \X (1 .. n)) /\ Cardinality({a} \X (1 .. n)) = n
<1>1. IsFiniteSet(1 .. n) /\ Cardinality(1 .. n) = n
    BY FS_Interval
<1>2. IsFiniteSet({a}) /\ Cardinality({a}) = 1
    BY FS_Singleton
<1>3. /\ IsFiniteSet({a} \X (1 .. n))
      /\ Cardinality({a} \X (1 .. n)) = Cardinality({a}) * Cardinality(1 .. n)
    BY <1>1, <1>2, FS_Product
<1> QED
    BY <1>1, <1>2, <1>3

(* Finitely many naturals have a finite sum. *)
LEMMA TotalType ==
    ASSUME NEW S, IsFiniteSet(S), NEW f \in [S -> Nat]
    PROVE  IsFiniteSet(Units(f)) /\ Total(f) \in Nat
<1> DEFINE part(x) == {x} \X (1 .. f[x])
           Parts == {part(x) : x \in S}
           h == [x \in S |-> part(x)]
<1>1. \A x \in S : IsFiniteSet(part(x))
    <2> TAKE x \in S
    <2>1. f[x] \in Nat
        OBVIOUS
    <2> QED
        BY <2>1, UnitsOfOne
<1>2. IsFiniteSet(Parts)
    <2>1. h \in Surjection(S, Parts)
        BY DEF Surjection
    <2> QED
        BY <2>1, FS_Surjection
<1>3. Units(f) = UNION Parts
    BY DEF Units
<1>4. \A T \in Parts : IsFiniteSet(T)
    BY <1>1
<1> HIDE DEF Parts
<1>5. IsFiniteSet(UNION Parts)
    BY <1>2, <1>4, FS_UNION
<1> QED
    BY <1>3, <1>5, FS_CardinalityType DEF Total

(* Giving one argument another value changes the sum by the difference. *)
LEMMA TotalUpdate ==
    ASSUME NEW S, IsFiniteSet(S), NEW f \in [S -> Nat], NEW a \in S, NEW v \in Nat
    PROVE  Total([f EXCEPT ![a] = v]) = Total(f) - f[a] + v
<1> DEFINE g == [f EXCEPT ![a] = v]
           rest == {u \in Units(f) : u[1] # a}
           old == {a} \X (1 .. f[a])
           new == {a} \X (1 .. v)
<1>1. g \in [S -> Nat] /\ g[a] = v /\ \A x \in S : x # a => g[x] = f[x]
    OBVIOUS
<1>2. Units(f) = rest \cup old /\ rest \cap old = {}
    BY DEF Units
<1>3. Units(g) = rest \cup new /\ rest \cap new = {}
    BY <1>1 DEF Units
<1>4. IsFiniteSet(Units(f)) /\ Total(f) \in Nat
    BY TotalType
<1>5. IsFiniteSet(rest)
    BY <1>4, FS_Subset
<1>6. /\ IsFiniteSet(old) /\ Cardinality(old) = f[a]
      /\ IsFiniteSet(new) /\ Cardinality(new) = v
    BY UnitsOfOne
<1> HIDE DEF g, rest, old, new
<1>7. Cardinality(rest) \in Nat /\ Cardinality({}) = 0
    BY <1>5, FS_CardinalityType, FS_EmptySet
<1>8. Cardinality(rest \cup old) = Cardinality(rest) + Cardinality(old) - Cardinality(rest \cap old)
    BY <1>5, <1>6, FS_Union
<1>9. Cardinality(rest \cup new) = Cardinality(rest) + Cardinality(new) - Cardinality(rest \cap new)
    BY <1>5, <1>6, FS_Union
<1>10. Total(f) = Cardinality(rest) + f[a]
    <2>1. Total(f) = Cardinality(rest \cup old) /\ Cardinality(rest \cap old) = Cardinality({})
        BY <1>2, Zenon DEF Total
    <2> QED
        BY <2>1, <1>6, <1>7, <1>8
<1>11. Total(g) = Cardinality(rest) + v
    <2>1. Total(g) = Cardinality(rest \cup new) /\ Cardinality(rest \cap new) = Cardinality({})
        BY <1>3, Zenon DEF Total
    <2> QED
        BY <2>1, <1>6, <1>7, <1>9
<1> QED
    BY <1>7, <1>10, <1>11 DEF g

(* A sum of no larger numbers is no larger. *)
LEMMA TotalMonotone ==
    ASSUME NEW S, IsFiniteSet(S), NEW f \in [S -> Nat], NEW g \in [S -> Nat],
           \A x \in S : f[x] <= g[x]
    PROVE  Total(f) <= Total(g)
<1>1. Units(f) \subseteq Units(g)
    BY DEF Units
<1> QED
    BY <1>1, TotalType, FS_Subset DEF Total

(* It is smaller by at least what one of them is smaller by. *)
LEMMA TotalDrop ==
    ASSUME NEW S, IsFiniteSet(S), NEW f \in [S -> Nat], NEW g \in [S -> Nat],
           \A x \in S : f[x] <= g[x],
           NEW a \in S, NEW d \in Nat, f[a] + d <= g[a]
    PROVE  Total(f) + d <= Total(g)
<1> DEFINE h == [g EXCEPT ![a] = f[a]]
<1>1. h \in [S -> Nat] /\ \A x \in S : f[x] <= h[x]
    OBVIOUS
<1>2. Total(h) = Total(g) - g[a] + f[a]
    <2>1. f[a] \in Nat
        OBVIOUS
    <2> QED
        BY <2>1, TotalUpdate
<1> HIDE DEF h
<1>3. Total(f) <= Total(h)
    BY <1>1, TotalMonotone
<1>4. Total(f) \in Nat /\ Total(g) \in Nat /\ Total(h) \in Nat
    BY <1>1, TotalType
<1> QED
    BY <1>2, <1>3, <1>4

(* No summand is larger than the sum. *)
LEMMA TotalBound ==
    ASSUME NEW S, IsFiniteSet(S), NEW f \in [S -> Nat], NEW a \in S
    PROVE  f[a] <= Total(f)
<1> DEFINE zero == [x \in S |-> 0]
<1>1. zero \in [S -> Nat] /\ zero[a] = 0 /\ \A x \in S : zero[x] <= f[x]
    OBVIOUS
<1> HIDE DEF zero
<1>2. Total(zero) + f[a] <= Total(f)
    BY <1>1, TotalDrop
<1>3. Total(zero) \in Nat /\ Total(f) \in Nat
    BY <1>1, TotalType
<1> QED
    BY <1>2, <1>3

(* Nothing sums up to 0. *)
LEMMA TotalZero ==
    ASSUME NEW S, NEW f \in [S -> Nat], \A x \in S : f[x] = 0
    PROVE  Total(f) = 0
<1>1. Units(f) = {}
    BY DEF Units
<1> QED
    BY <1>1, FS_EmptySet DEF Total

-----------------------------------------------------------------------------
(* Calls name finitely many messages and deposits. *)
LEMMA MessagesFinite == IsFiniteSet(Message) /\ IsFiniteSet(DepositKey)
<1>1. IsFiniteSet(Recipient) /\ IsFiniteSet(MainTx) /\ IsFiniteSet(SideTx)
    BY AddressAssumption, HashAssumption, FS_Subset
<1>2. IsFiniteSet(Value) /\ IsFiniteSet(GasPrice)
    <2>1. 0 \in Int /\ UintModulus - 1 \in Int
        BY WordAssumption
    <2>2. IsFiniteSet(Uint)
        BY <2>1, FS_Interval DEF Uint
    <2> QED
        BY <2>2, WordAssumption, FS_Subset
<1>3. /\ IsFiniteSet(Recipient \X Value)
      /\ IsFiniteSet(SideTx \X GasPrice)
    BY <1>1, <1>2, FS_Product
<1>4. /\ IsFiniteSet((Recipient \X Value) \X (SideTx \X GasPrice))
      /\ IsFiniteSet((Recipient \X Value) \X MainTx)
    BY <1>1, <1>3, FS_Product
<1> DEFINE Pairs == (Recipient \X Value) \X (SideTx \X GasPrice)
           toMessage == [p \in Pairs |-> [recipient       |-> p[1][1],
                                          value           |-> p[1][2],
                                          transactionHash |-> p[2][1],
                                          mainGasPrice    |-> p[2][2]]]
           KeyPairs == (Recipient \X Value) \X MainTx
           toKey == [p \in KeyPairs |-> [recipient       |-> p[1][1],
                                         value           |-> p[1][2],
                                         transactionHash |-> p[2]]]
<1>5. toMessage \in Surjection(Pairs, Message)
    <2>1. toMessage \in [Pairs -> Message]
        BY DEF Message
    <2>2. ASSUME NEW m \in Message PROVE \E p \in Pairs : toMessage[p] = m
        <3> DEFINE p == <<<<m.recipient, m.value>>, <<m.transactionHash, m.mainGasPrice>>>>
        <3>1. p \in Pairs
            BY DEF Message
        <3>2. toMessage[p] = m
            BY <3>1 DEF Message
        <3> QED
            BY <3>1, <3>2
    <2> QED
        BY <2>1, <2>2 DEF Surjection
<1>6. toKey \in Surjection(KeyPairs, DepositKey)
    <2>1. toKey \in [KeyPairs -> DepositKey]
        BY DEF DepositKey
    <2>2. ASSUME NEW k \in DepositKey PROVE \E p \in KeyPairs : toKey[p] = k
        <3> DEFINE p == <<<<k.recipient, k.value>>, k.transactionHash>>
        <3>1. p \in KeyPairs
            BY DEF DepositKey
        <3>2. toKey[p] = k
            BY <3>1 DEF DepositKey
        <3> QED
            BY <3>1, <3>2
    <2> QED
        BY <2>1, <2>2 DEF Surjection
<1> HIDE DEF Pairs, KeyPairs, toMessage, toKey
<1>7. IsFiniteSet(Pairs) /\ IsFiniteSet(KeyPairs)
    BY <1>4 DEF Pairs, KeyPairs
<1> QED
    BY <1>5, <1>6, <1>7, FS_Surjection
=============================================================================

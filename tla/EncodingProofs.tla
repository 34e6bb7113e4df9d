--------------------------- MODULE EncodingProofs ---------------------------
(***************************************************************************)
(* Proofs about Encoding, for all messages that can be signed.             *)
(***************************************************************************)
EXTENDS Encoding, SequenceTheorems, TLAPS

(***************************************************************************)
(* The first loop of uintToString.  A recursive function is a CHOOSE of    *)
(* one that satisfies its equation: g shows that there is one, so that h,  *)
(* the one chosen, does, and the equation is applied digit by digit.       *)
(***************************************************************************)
LEMMA DecimalLength == decimalLength(116) = 3
<1> DEFINE Sat(f) == f = [v \in 0 .. 116 |-> 1 + (IF v \div 10 = 0 THEN 0 ELSE f[v \div 10])]
           g == [v \in 0 .. 116 |-> IF v < 10 THEN 1 ELSE IF v < 100 THEN 2 ELSE 3]
           h == CHOOSE f : Sat(f)
<1>1. Sat(g)
    OBVIOUS
<1>2. Sat(h)
    <2> HIDE DEF Sat, g
    <2> QED BY <1>1, Zenon
<1>3. decimalLength(116) = h[116]
    BY Zenon DEF decimalLength
<1>4. h[1] = 1 /\ h[11] = 1 + h[1] /\ h[116] = 1 + h[11]
    <2> HIDE DEF h
    <2> QED BY <1>2
<1> HIDE DEF h
<1> QED BY <1>3, <1>4

(* Appending one by one makes a tuple. *)
LEMMA Triple ==
    ASSUME NEW a \in Int, NEW b \in Int, NEW c \in Int
    PROVE  Append(Append(Append(<<>>, a), b), c) = <<a, b, c>>
<1> DEFINE one   == Append(<<>>, a)
           two   == Append(one, b)
           three == Append(two, c)
           tuple == <<a, b, c>>
<1>1. one \in Seq(Int) /\ Len(one) = 1 /\ one[1] = a
    OBVIOUS
<1> HIDE DEF one
<1>2. one \in Seq(Int)
    BY <1>1
<1>3. /\ two \in Seq(Int) /\ Len(two) = Len(one) + 1
      /\ \A i \in 1 .. Len(one) : two[i] = one[i]
      /\ two[Len(one) + 1] = b
    BY <1>2, AppendProperties
<1> HIDE DEF two
<1>4. /\ three \in Seq(Int) /\ Len(three) = Len(two) + 1
      /\ \A i \in 1 .. Len(two) : three[i] = two[i]
      /\ three[Len(two) + 1] = c
    BY <1>3, AppendProperties
<1> HIDE DEF three
<1>5. Len(two) = 2 /\ two[1] = a /\ two[2] = b
    BY <1>1, <1>3
<1>6. Len(three) = 3 /\ three[1] = a /\ three[2] = b /\ three[3] = c
    BY <1>4, <1>5
<1>7. tuple \in Seq(Int) /\ Len(tuple) = 3 /\ tuple[1] = a /\ tuple[2] = b /\ tuple[3] = c
    OBVIOUS
<1>8. \A i \in 1 .. 3 : i = 1 \/ i = 2 \/ i = 3
    OBVIOUS
<1> HIDE DEF tuple
<1>9. \A i \in 1 .. Len(three) : three[i] = tuple[i]
    BY <1>6, <1>7, <1>8
<1>10. three = tuple
    BY <1>4, <1>6, <1>7, <1>9, SeqEqual
<1> QED BY <1>10, Zenon DEF one, two, three, tuple

(* The second loop, in the same way: "116", the length of every message. *)
LEMMA UintToString == uintToString(116) = LengthAsSigned
<1> DEFINE zeros(n) == [j \in 1 .. n |-> 0]
           tens(v)  == v \div 10
           digit(v) == 48 + (v % 10)
           app(s, d) == Append(s, d)
           Written(f, v, i) ==
               IF i = 0 THEN <<>>
               ELSE Append(IF v \div 10 = 0 THEN [j \in 1 .. (i - 1) |-> 0]
                                            ELSE f[v \div 10][i - 1],
                           48 + (v % 10))
           Sat(f) == f = [v \in 0 .. 116 |-> [i \in 0 .. 3 |-> Written(f, v, i)]]
           g1(v) == app(<<>>, digit(v))
           g2(v) == IF tens(v) = 0 THEN app(zeros(1), digit(v))
                                   ELSE app(g1(tens(v)), digit(v))
           g3(v) == IF tens(v) = 0 THEN app(zeros(2), digit(v))
                                   ELSE app(g2(tens(v)), digit(v))
           g == [v \in 0 .. 116 |-> [i \in 0 .. 3 |->
                    IF i = 0 THEN <<>> ELSE IF i = 1 THEN g1(v)
                                       ELSE IF i = 2 THEN g2(v) ELSE g3(v)]]
           h == CHOOSE f : Sat(f)
<1>1. /\ \A v \in 0 .. 116 : tens(v) \in 0 .. 116
      /\ tens(116) = 11 /\ tens(11) = 1 /\ tens(1) = 0
      /\ digit(116) = 54 /\ digit(11) = 49 /\ digit(1) = 49
    OBVIOUS
<1>2. ASSUME NEW f, NEW v, NEW i, i # 0
      PROVE  /\ tens(v) = 0 => Written(f, v, i) = app(zeros(i - 1), digit(v))
             /\ tens(v) # 0 => Written(f, v, i) = app(f[tens(v)][i - 1], digit(v))
    BY <1>2, Zenon
<1>3. zeros(0) = <<>>
    OBVIOUS
<1>4. \A f, v : Written(f, v, 0) = <<>>
    BY Zenon
<1> HIDE DEF Written, zeros, tens, digit, app
<1>5. ASSUME NEW f, NEW v
      PROVE  /\ tens(v) = 0 => /\ Written(f, v, 1) = app(zeros(0), digit(v))
                               /\ Written(f, v, 2) = app(zeros(1), digit(v))
                               /\ Written(f, v, 3) = app(zeros(2), digit(v))
             /\ tens(v) # 0 => /\ Written(f, v, 1) = app(f[tens(v)][0], digit(v))
                               /\ Written(f, v, 2) = app(f[tens(v)][1], digit(v))
                               /\ Written(f, v, 3) = app(f[tens(v)][2], digit(v))
    <2>1. 1 # 0 /\ 2 # 0 /\ 3 # 0 /\ 1 - 1 = 0 /\ 2 - 1 = 1 /\ 3 - 1 = 2
        OBVIOUS
    <2>2. /\ tens(v) = 0 => /\ Written(f, v, 1) = app(zeros(1 - 1), digit(v))
                            /\ Written(f, v, 2) = app(zeros(2 - 1), digit(v))
                            /\ Written(f, v, 3) = app(zeros(3 - 1), digit(v))
          /\ tens(v) # 0 => /\ Written(f, v, 1) = app(f[tens(v)][1 - 1], digit(v))
                            /\ Written(f, v, 2) = app(f[tens(v)][2 - 1], digit(v))
                            /\ Written(f, v, 3) = app(f[tens(v)][3 - 1], digit(v))
        BY <1>2, <2>1
    <2> QED BY <2>1, <2>2
<1>6. Sat(g)
    <2>1. g = [v \in 0 .. 116 |-> [i \in 0 .. 3 |-> g[v][i]]]
        <3> HIDE DEF g1, g2, g3
        <3> QED OBVIOUS
    <2>2. \A v \in 0 .. 116 : /\ g[v][0] = <<>> /\ g[v][1] = g1(v)
                              /\ g[v][2] = g2(v) /\ g[v][3] = g3(v)
        <3> HIDE DEF g1, g2, g3
        <3> QED OBVIOUS
    <2> HIDE DEF g, g1, g2, g3
    <2>3. ASSUME NEW v \in 0 .. 116, NEW i \in 0 .. 3
          PROVE  g[v][i] = Written(g, v, i)
        <3>1. /\ g[tens(v)][0] = <<>> /\ g[tens(v)][1] = g1(tens(v))
              /\ g[tens(v)][2] = g2(tens(v))
            BY <2>2, <1>1
        <3>2. CASE i = 0
            BY <3>2, <2>2, <1>4
        <3>3. CASE i = 1
            <4>1. g[v][1] = app(<<>>, digit(v))
                BY <2>2 DEF g1
            <4>2. Written(g, v, 1) = app(<<>>, digit(v))
                BY <3>1, <1>5, <1>3
            <4> QED BY <3>3, <4>1, <4>2
        <3>4. CASE i = 2
            <4>1. CASE tens(v) = 0
                <5>1. g[v][2] = app(zeros(1), digit(v))
                    BY <4>1, <2>2 DEF g2
                <5>2. Written(g, v, 2) = app(zeros(1), digit(v))
                    BY <4>1, <1>5
                <5> QED BY <3>4, <5>1, <5>2
            <4>2. CASE tens(v) # 0
                <5>1. g[v][2] = app(g1(tens(v)), digit(v))
                    BY <4>2, <2>2 DEF g2
                <5>2. Written(g, v, 2) = app(g[tens(v)][1], digit(v))
                    BY <4>2, <1>5
                <5> QED BY <3>4, <3>1, <5>1, <5>2
            <4> QED BY <4>1, <4>2
        <3>5. CASE i = 3
            <4>1. CASE tens(v) = 0
                <5>1. g[v][3] = app(zeros(2), digit(v))
                    BY <4>1, <2>2 DEF g3
                <5>2. Written(g, v, 3) = app(zeros(2), digit(v))
                    BY <4>1, <1>5
                <5> QED BY <3>5, <5>1, <5>2
            <4>2. CASE tens(v) # 0
                <5>1. g[v][3] = app(g2(tens(v)), digit(v))
                    BY <4>2, <2>2 DEF g3
                <5>2. Written(g, v, 3) = app(g[tens(v)][2], digit(v))
                    BY <4>2, <1>5
                <5> QED BY <3>5, <3>1, <5>1, <5>2
            <4> QED BY <4>1, <4>2
        <3> QED BY <3>2, <3>3, <3>4, <3>5
    <2> QED BY <2>1, <2>3, Zenon
<1>7. Sat(h)
    <2> HIDE DEF Sat, g
    <2> QED BY <1>6, Zenon
<1>8. uintToString(116) = h[116][3]
    BY DecimalLength, Zenon DEF uintToString, Written
<1> HIDE DEF h
<1>9. \A v \in 0 .. 116, i \in 0 .. 3 : h[v][i] = Written(h, v, i)
    <2> SUFFICES ASSUME NEW v \in 0 .. 116, NEW i \in 0 .. 3
                 PROVE  h[v][i] = Written(h, v, i)
        OBVIOUS
    <2> DEFINE W(w) == [k \in 0 .. 3 |-> Written(h, w, k)]
    <2>1. h = [w \in 0 .. 116 |-> W(w)]
        BY <1>7
    <2>2. h[v] = W(v)
        <3> HIDE DEF W
        <3> QED BY <2>1
    <2> QED BY <2>2
<1>10. /\ h[116][3] = Written(h, 116, 3) /\ h[11][2] = Written(h, 11, 2)
       /\ h[1][1] = Written(h, 1, 1) /\ 11 # 0 /\ 1 # 0
    <2>1. /\ 116 \in 0 .. 116 /\ 11 \in 0 .. 116 /\ 1 \in 0 .. 116
          /\ 1 \in 0 .. 3 /\ 2 \in 0 .. 3 /\ 3 \in 0 .. 3 /\ 11 # 0 /\ 1 # 0
        OBVIOUS
    <2> HIDE DEF Written
    <2> QED BY <1>9, <2>1
<1>11. h[116][3] = app(h[11][2], 54)
    BY <1>10, <1>1, <1>5
<1>12. h[11][2] = app(h[1][1], 49)
    BY <1>10, <1>1, <1>5
<1>13. h[1][1] = app(zeros(0), 49)
    BY <1>10, <1>1, <1>5
<1>14. app(app(app(<<>>, 49), 49), 54) = <<49, 49, 54>>
    <2>1. Append(Append(Append(<<>>, 49), 49), 54) = <<49, 49, 54>>
        BY Triple, 49 \in Int, 54 \in Int
    <2> QED BY <2>1, Zenon DEF app
<1> QED BY <1>3, <1>8, <1>11, <1>12, <1>13, <1>14 DEF LengthAsSigned

-----------------------------------------------------------------------------
(* Where a part of two sequences, one after the other, is. *)
LEMMA Parts ==
    ASSUME NEW S, NEW a \in Seq(S), NEW b \in Seq(S), NEW from \in Nat, NEW to \in Nat,
           from < to
    PROVE  /\ to <= Len(a) => slice(a \o b, from, to) = slice(a, from, to)
           /\ to <= Len(b) => slice(a \o b, Len(a) + from, Len(a) + to) = slice(b, from, to)
<1>1. ASSUME to <= Len(a) PROVE slice(a \o b, from, to) = slice(a, from, to)
    <2>1. from + 1 \in 1 .. Len(a) /\ to \in 1 .. Len(a)
        BY <1>1
    <2> QED BY <2>1, SubSeqOfConcat1 DEF slice
<1>2. ASSUME to <= Len(b)
      PROVE  slice(a \o b, Len(a) + from, Len(a) + to) = slice(b, from, to)
    <2> DEFINE m == Len(a) + from + 1
               n == Len(a) + to
    <2>1. /\ m \in Len(a) + 1 .. Len(a) + Len(b) /\ n \in Len(a) + 1 .. Len(a) + Len(b)
          /\ m - Len(a) = from + 1 /\ n - Len(a) = to
        BY <1>2
    <2> HIDE DEF m, n
    <2>2. SubSeq(a \o b, m, n) = SubSeq(b, m - Len(a), n - Len(a))
        BY <2>1, SubSeqOfConcat2
    <2> QED BY <2>1, <2>2 DEF slice, m, n
<1> QED BY <1>1, <1>2

(* The same, with the operator on sequences hidden from the provers. *)
Cat(a, b) == a \o b

LEMMA Joined ==
    ASSUME NEW S, NEW a \in Seq(S), NEW b \in Seq(S), 0 < Len(a), 0 < Len(b)
    PROVE  /\ Cat(a, b) \in Seq(S) /\ Len(Cat(a, b)) = Len(a) + Len(b)
           /\ slice(Cat(a, b), 0, Len(a)) = a /\ slice(Cat(a, b), Len(a), Len(a) + Len(b)) = b
           /\ \A from, to \in Nat : from < to /\ to <= Len(a) =>
                 slice(Cat(a, b), from, to) = slice(a, from, to)
           /\ \A from, to \in Nat : from < to /\ to <= Len(b) =>
                 slice(Cat(a, b), Len(a) + from, Len(a) + to) = slice(b, from, to)
<1>1. a \o b \in Seq(S) /\ Len(a \o b) = Len(a) + Len(b) /\ Len(a) \in Nat /\ Len(b) \in Nat
    BY ConcatProperties
<1>2. \A from, to \in Nat : from < to /\ to <= Len(a) =>
         slice(a \o b, from, to) = slice(a, from, to)
    BY Parts
<1>3. \A from, to \in Nat : from < to /\ to <= Len(b) =>
         slice(a \o b, Len(a) + from, Len(a) + to) = slice(b, from, to)
    BY Parts
<1>4. slice(a, 0, Len(a)) = a /\ slice(b, 0, Len(b)) = b
    BY SubSeqFull DEF slice
<1>5. slice(a \o b, 0, Len(a)) = a
    BY <1>1, <1>2, <1>4
<1>6. slice(a \o b, Len(a) + 0, Len(a) + Len(b)) = slice(b, 0, Len(b))
    BY <1>1, <1>3
<1> QED BY <1>1, <1>2, <1>3, <1>4, <1>5, <1>6 DEF Cat

(* A part of a part. *)
LEMMA Within ==
    ASSUME NEW S, NEW s \in Seq(S), NEW from \in Nat, NEW to \in Nat,
           NEW first \in Nat, NEW last \in Nat,
           first < last, from + last <= to, to <= Len(s)
    PROVE  slice(slice(s, from, to), first, last) = slice(s, from + first, from + last)
<1>1. /\ from + 1 \in 1 .. Len(s) /\ to \in 1 .. Len(s)
      /\ first + 1 \in 1 .. to - (from + 1) + 1 /\ last \in 1 .. to - (from + 1) + 1
    OBVIOUS
<1>2. SubSeq(SubSeq(s, from + 1, to), first + 1, last)
        = SubSeq(s, (from + 1) + (first + 1) - 1, (from + 1) + last - 1)
    BY <1>1, SubSeqOfSubSeq
<1>3. (from + 1) + (first + 1) - 1 = from + first + 1 /\ (from + 1) + last - 1 = from + last
    OBVIOUS
<1> QED BY <1>2, <1>3 DEF slice

(* Three parts, one after the other, *)
LEMMA ThreeParts ==
    ASSUME NEW S, NEW a \in Seq(S), NEW b \in Seq(S), NEW c \in Seq(S),
           0 < Len(a), 0 < Len(b), 0 < Len(c)
    PROVE  LET all == Cat(Cat(a, b), c)
           IN  /\ all \in Seq(S) /\ Len(all) = Len(a) + Len(b) + Len(c)
               /\ slice(all, 0, Len(a)) = a
               /\ slice(all, Len(a), Len(a) + Len(b)) = b
               /\ slice(all, Len(a) + Len(b), Len(a) + Len(b) + Len(c)) = c
<1> DEFINE ab  == Cat(a, b)
           all == Cat(ab, c)
<1>1. /\ ab \in Seq(S) /\ Len(ab) = Len(a) + Len(b)
      /\ slice(ab, 0, Len(a)) = a /\ slice(ab, Len(a), Len(a) + Len(b)) = b
    BY Joined
<1> HIDE DEF ab
<1>2. Len(a) \in Nat /\ Len(b) \in Nat
    BY <1>1
<1>3. ab \in Seq(S) /\ 0 < Len(ab)
    BY <1>1
<1>4. /\ all \in Seq(S) /\ Len(all) = Len(ab) + Len(c)
      /\ slice(all, Len(ab), Len(ab) + Len(c)) = c
      /\ \A from, to \in Nat : from < to /\ to <= Len(ab) =>
            slice(all, from, to) = slice(ab, from, to)
    BY <1>3, Joined
<1> HIDE DEF all
<1>5. slice(all, 0, Len(a)) = a /\ slice(all, Len(a), Len(a) + Len(b)) = b
    BY <1>1, <1>2, <1>4
<1> QED BY <1>1, <1>4, <1>5 DEF ab, all

(* and four. *)
LEMMA FourParts ==
    ASSUME NEW S, NEW a \in Seq(S), NEW b \in Seq(S), NEW c \in Seq(S), NEW d \in Seq(S),
           0 < Len(a), 0 < Len(b), 0 < Len(c), 0 < Len(d)
    PROVE  LET all == Cat(Cat(Cat(a, b), c), d)
               abc == Len(a) + Len(b) + Len(c)
           IN  /\ all \in Seq(S) /\ Len(all) = abc + Len(d)
               /\ slice(all, 0, Len(a)) = a
               /\ slice(all, Len(a), Len(a) + Len(b)) = b
               /\ slice(all, Len(a) + Len(b), abc) = c
               /\ slice(all, abc, abc + Len(d)) = d
<1> DEFINE three == Cat(Cat(a, b), c)
           all   == Cat(three, d)
<1>1. /\ three \in Seq(S) /\ Len(three) = Len(a) + Len(b) + Len(c)
      /\ slice(three, 0, Len(a)) = a
      /\ slice(three, Len(a), Len(a) + Len(b)) = b
      /\ slice(three, Len(a) + Len(b), Len(a) + Len(b) + Len(c)) = c
    BY ThreeParts
<1> HIDE DEF three
<1>2. Len(a) \in Nat /\ Len(b) \in Nat /\ Len(c) \in Nat
    BY <1>1
<1>3. three \in Seq(S) /\ 0 < Len(three)
    BY <1>1
<1>4. /\ all \in Seq(S) /\ Len(all) = Len(three) + Len(d)
      /\ slice(all, Len(three), Len(three) + Len(d)) = d
    BY <1>3, Joined
<1>5. ASSUME NEW from \in Nat, NEW to \in Nat, from < to, to <= Len(three)
      PROVE  slice(all, from, to) = slice(three, from, to)
    BY <1>3, <1>5, Parts DEF all, Cat
<1> HIDE DEF all
<1>6. /\ slice(all, 0, Len(a)) = a
      /\ slice(all, Len(a), Len(a) + Len(b)) = b
      /\ slice(all, Len(a) + Len(b), Len(a) + Len(b) + Len(c)) = c
    BY <1>1, <1>2, <1>5
<1> QED BY <1>1, <1>6, <1>4 DEF three, all

(* In memory bytes are found behind their length. *)
LEMMA Between ==
    ASSUME NEW S, NEW a \in Seq(S), NEW b \in Seq(S), NEW c \in Seq(S),
           0 < Len(a), 0 < Len(b), 0 < Len(c),
           NEW from \in Nat, NEW to \in Nat, from < to, to <= Len(b)
    PROVE  slice(Cat(Cat(a, b), c), Len(a) + from, Len(a) + to) = slice(b, from, to)
<1> DEFINE ab  == Cat(a, b)
           all == Cat(ab, c)
<1>1. /\ ab \in Seq(S) /\ Len(ab) = Len(a) + Len(b)
      /\ slice(ab, Len(a) + from, Len(a) + to) = slice(b, from, to)
    BY Joined
<1> HIDE DEF ab
<1>2. ab \in Seq(S) /\ 0 < Len(ab)
    BY <1>1
<1>3. /\ Len(a) + from \in Nat /\ Len(a) + to \in Nat
      /\ Len(a) + from < Len(a) + to /\ Len(a) + to <= Len(ab)
    BY <1>1
<1>4. \A x, y \in Nat : x < y /\ y <= Len(ab) => slice(all, x, y) = slice(ab, x, y)
    BY <1>2, Joined
<1> HIDE DEF all
<1>5. slice(all, Len(a) + from, Len(a) + to) = slice(ab, Len(a) + from, Len(a) + to)
    BY <1>3, <1>4, Zenon
<1> QED BY <1>1, <1>5 DEF ab, all

(* The bytes of a value of a set. *)
LEMMA Bytes ==
    ASSUME NEW V, NEW value \in V, NEW length \in Nat
    PROVE  big_endian(value, length) \in Seq(V \X Int) /\ Len(big_endian(value, length)) = length
BY DEF big_endian

(***************************************************************************)
(* What the Rust code writes of a message, and what the contracts read of  *)
(* it, whatever the values are.                                            *)
(***************************************************************************)
LEMMA MessageAgrees ==
    ASSUME NEW message
    PROVE  LET m     == MessageToMain(message)
               bytes == to_bytes(m)
           IN  /\ Len(bytes) = MESSAGE_LENGTH
               /\ getRecipient(bytes) = m.recipient
               /\ getValue(bytes) = m.value
               /\ getTransactionHash(bytes) = m.transactionHash
               /\ getMainGasPrice(bytes) = m.mainGasPrice
               /\ from_bytes(bytes) = m
<1> DEFINE V == {message.recipient, message.value, message.transactionHash,
                 message.mainGasPrice, 116, -1}
           S == V \X Int
           r == big_endian(message.recipient, 20)
           v == big_endian(message.value, 32)
           t == big_endian(message.transactionHash, 32)
           g == big_endian(message.mainGasPrice, 32)
           bytes == Cat(Cat(Cat(r, v), t), g)
           length == big_endian(116, 32)
           after  == big_endian(-1, 32)
           mem    == Cat(Cat(length, bytes), after)
<1>1. /\ message.recipient \in V /\ message.value \in V /\ message.transactionHash \in V
      /\ message.mainGasPrice \in V /\ 116 \in V /\ -1 \in V /\ 20 \in Nat /\ 32 \in Nat
    OBVIOUS
<1> HIDE DEF V
<1>2. /\ r \in Seq(S) /\ v \in Seq(S) /\ t \in Seq(S) /\ g \in Seq(S)
      /\ length \in Seq(S) /\ after \in Seq(S)
      /\ Len(r) = 20 /\ Len(v) = 32 /\ Len(t) = 32 /\ Len(g) = 32
      /\ Len(length) = 32 /\ Len(after) = 32
    <2>1. ASSUME NEW value \in V, NEW n \in Nat
          PROVE  big_endian(value, n) \in Seq(S) /\ Len(big_endian(value, n)) = n
        BY Bytes
    <2> HIDE DEF S
    <2>2. r \in Seq(S) /\ Len(r) = 20
        BY <1>1, <2>1
    <2>3. v \in Seq(S) /\ Len(v) = 32
        BY <1>1, <2>1
    <2>4. t \in Seq(S) /\ Len(t) = 32
        BY <1>1, <2>1
    <2>5. g \in Seq(S) /\ Len(g) = 32
        BY <1>1, <2>1
    <2>6. length \in Seq(S) /\ Len(length) = 32
        <3>1. \A value \in V : big_endian(value, 32) \in Seq(S) /\ Len(big_endian(value, 32)) = 32
            BY <2>1
        <3> QED BY <1>1, <3>1, Zenon
    <2>7. after \in Seq(S) /\ Len(after) = 32
        BY <1>1, <2>1
    <2> HIDE DEF r, v, t, g, length, after
    <2> QED BY <2>2, <2>3, <2>4, <2>5, <2>6, <2>7
<1> HIDE DEF S, r, v, t, g, length, after
<1>3. /\ r \in Seq(S) /\ v \in Seq(S) /\ t \in Seq(S) /\ g \in Seq(S)
      /\ length \in Seq(S) /\ after \in Seq(S)
      /\ 0 < Len(r) /\ 0 < Len(v) /\ 0 < Len(t) /\ 0 < Len(g)
      /\ 0 < Len(length) /\ 0 < Len(after)
    BY <1>2
<1>4. /\ bytes \in Seq(S) /\ Len(bytes) = Len(r) + Len(v) + Len(t) + Len(g)
      /\ slice(bytes, 0, Len(r)) = r
      /\ slice(bytes, Len(r), Len(r) + Len(v)) = v
      /\ slice(bytes, Len(r) + Len(v), Len(r) + Len(v) + Len(t)) = t
      /\ slice(bytes, Len(r) + Len(v) + Len(t), Len(r) + Len(v) + Len(t) + Len(g)) = g
    BY <1>3, FourParts
<1> HIDE DEF bytes
<1>5. /\ bytes \in Seq(S) /\ Len(bytes) = 116
      /\ slice(bytes, 0, 20) = r /\ slice(bytes, 20, 52) = v
      /\ slice(bytes, 52, 84) = t /\ slice(bytes, 84, 116) = g
    BY <1>2, <1>4
<1>6. bytes \in Seq(S) /\ 0 < Len(bytes)
    BY <1>5
<1>7. mem \in Seq(S) /\ Len(mem) = Len(length) + Len(bytes) + Len(after)
    BY <1>3, <1>6, ThreeParts
<1>8. ASSUME NEW from \in Nat, NEW to \in Nat, from < to, to <= Len(bytes)
      PROVE  slice(mem, Len(length) + from, Len(length) + to) = slice(bytes, from, to)
    BY <1>3, <1>6, <1>8, Between
<1> HIDE DEF mem
<1>9. /\ mem \in Seq(S) /\ Len(mem) = 180
      /\ \A from, to \in Nat : from < to /\ to <= 116 =>
            slice(mem, 32 + from, 32 + to) = slice(bytes, from, to)
    BY <1>2, <1>5, <1>7, <1>8
<1>10. /\ slice(mem, 32, 52) = r /\ slice(mem, 52, 84) = v
       /\ slice(mem, 84, 116) = t /\ slice(mem, 116, 148) = g
    BY <1>5, <1>9
<1>11. slice(slice(mem, 20, 52), 12, 32) = slice(mem, 32, 52)
    <2>1. \A from, to, first, last \in Nat :
             first < last /\ from + last <= to /\ to <= Len(mem) =>
                slice(slice(mem, from, to), first, last) = slice(mem, from + first, from + last)
        BY <1>7, Within
    <2> QED BY <1>9, <2>1
<1>12. MessageToMain(message) =
          [recipient |-> r, value |-> v, transactionHash |-> t, mainGasPrice |-> g]
    BY Zenon DEF MessageToMain, AddressLength, WordLength, r, v, t, g
<1> DEFINE m == [recipient |-> r, value |-> v, transactionHash |-> t, mainGasPrice |-> g]
<1>13. to_bytes(m) = bytes
    BY DEF to_bytes, bytes, Cat
<1>14. memory(bytes) = mem
    BY <1>5, Zenon DEF memory, WordLength, mem, length, after, Cat
<1>15. /\ getRecipient(bytes) = r /\ getValue(bytes) = v
       /\ getTransactionHash(bytes) = t /\ getMainGasPrice(bytes) = g
    BY <1>10, <1>11, <1>14 DEF getRecipient, getValue, getTransactionHash, getMainGasPrice,
        mload, asAddress, AddressLength, WordLength
<1>16. from_bytes(bytes) = m
    BY <1>5 DEF from_bytes, MESSAGE_LENGTH
<1> QED BY <1>5, <1>12, <1>13, <1>15, <1>16 DEF MESSAGE_LENGTH

(* The same of a signature. *)
LEMMA SignatureAgrees ==
    LET bytes == signature_to_bytes(ECDSA)
    IN  /\ Len(bytes) = SIGNATURE_LENGTH
        /\ recoveredParts(bytes) = ECDSA
        /\ signature_from_bytes(bytes) = ECDSA
<1> DEFINE V == {1, 2, 3, 65, -1}
           S == V \X Int
           r == big_endian(2, 32)
           s == big_endian(3, 32)
           v == big_endian(1, 1)
           bytes  == Cat(Cat(r, s), v)
           length == big_endian(65, 32)
           after  == big_endian(-1, 32)
           mem    == Cat(Cat(length, bytes), after)
<1>1. 1 \in V /\ 2 \in V /\ 3 \in V /\ 65 \in V /\ -1 \in V /\ 1 \in Nat /\ 32 \in Nat
    OBVIOUS
<1> HIDE DEF V
<1>2. /\ r \in Seq(S) /\ s \in Seq(S) /\ v \in Seq(S)
      /\ length \in Seq(S) /\ after \in Seq(S)
      /\ Len(r) = 32 /\ Len(s) = 32 /\ Len(v) = 1
      /\ Len(length) = 32 /\ Len(after) = 32
    <2>1. /\ \A value \in V : big_endian(value, 32) \in Seq(S) /\ Len(big_endian(value, 32)) = 32
          /\ \A value \in V : big_endian(value, 1) \in Seq(S) /\ Len(big_endian(value, 1)) = 1
        BY <1>1, Bytes
    <2> HIDE DEF S
    <2>2. r \in Seq(S) /\ Len(r) = 32 /\ s \in Seq(S) /\ Len(s) = 32
        BY <1>1, <2>1, Zenon
    <2>3. v \in Seq(S) /\ Len(v) = 1
        BY <1>1, <2>1, Zenon
    <2>4. length \in Seq(S) /\ Len(length) = 32 /\ after \in Seq(S) /\ Len(after) = 32
        BY <1>1, <2>1, Zenon
    <2> HIDE DEF r, s, v, length, after
    <2> QED BY <2>2, <2>3, <2>4
<1> HIDE DEF S, r, s, v, length, after
<1>3. /\ r \in Seq(S) /\ s \in Seq(S) /\ v \in Seq(S)
      /\ length \in Seq(S) /\ after \in Seq(S)
      /\ 0 < Len(r) /\ 0 < Len(s) /\ 0 < Len(v) /\ 0 < Len(length) /\ 0 < Len(after)
    BY <1>2
<1>4. /\ bytes \in Seq(S) /\ Len(bytes) = Len(r) + Len(s) + Len(v)
      /\ slice(bytes, 0, Len(r)) = r
      /\ slice(bytes, Len(r), Len(r) + Len(s)) = s
      /\ slice(bytes, Len(r) + Len(s), Len(r) + Len(s) + Len(v)) = v
    BY <1>3, ThreeParts
<1> HIDE DEF bytes
<1>5. /\ bytes \in Seq(S) /\ Len(bytes) = 65
      /\ slice(bytes, 0, 32) = r /\ slice(bytes, 32, 64) = s /\ slice(bytes, 64, 65) = v
    BY <1>2, <1>4
<1>6. bytes \in Seq(S) /\ 0 < Len(bytes)
    BY <1>5
<1>7. mem \in Seq(S) /\ Len(mem) = Len(length) + Len(bytes) + Len(after)
    BY <1>3, <1>6, ThreeParts
<1>8. ASSUME NEW from \in Nat, NEW to \in Nat, from < to, to <= Len(bytes)
      PROVE  slice(mem, Len(length) + from, Len(length) + to) = slice(bytes, from, to)
    BY <1>3, <1>6, <1>8, Between
<1> HIDE DEF mem
<1>9. /\ mem \in Seq(S) /\ Len(mem) = 129
      /\ slice(mem, 32, 64) = r /\ slice(mem, 64, 96) = s /\ slice(mem, 96, 97) = v
    <2>1. \A from, to \in Nat : from < to /\ to <= 65 =>
             slice(mem, 32 + from, 32 + to) = slice(bytes, from, to)
        BY <1>2, <1>5, <1>8
    <2> QED BY <1>2, <1>5, <1>7, <2>1
<1>10. slice(slice(mem, 96, 128), 0, 1) = slice(mem, 96, 97)
    <2>1. \A from, to, first, last \in Nat :
             first < last /\ from + last <= to /\ to <= Len(mem) =>
                slice(slice(mem, from, to), first, last) = slice(mem, from + first, from + last)
        BY <1>7, Within
    <2> QED BY <1>9, <2>1
<1>11. ECDSA = [v |-> v, r |-> r, s |-> s]
    BY Zenon DEF ECDSA, WordLength, r, s, v
<1>12. signature_to_bytes([v |-> v, r |-> r, s |-> s]) = bytes
    BY DEF signature_to_bytes, bytes, Cat
<1>13. memory(bytes) = mem
    BY <1>5, Zenon DEF memory, WordLength, mem, length, after, Cat
<1>14. recoveredParts(bytes) = [v |-> v, r |-> r, s |-> s]
    BY <1>9, <1>10, <1>13 DEF recoveredParts, mload, asByte, WordLength
<1>15. signature_from_bytes(bytes) = [v |-> v, r |-> r, s |-> s]
    BY <1>5 DEF signature_from_bytes
<1> QED BY <1>5, <1>11, <1>12, <1>14, <1>15 DEF SIGNATURE_LENGTH

-----------------------------------------------------------------------------
(***************************************************************************)
(* bridge/src/message_to_main.rs and signature.rs and the libraries of     *)
(* contracts/bridge.sol agree on every byte, for all recipients, values,   *)
(* hashes and gas prices: no field is read from another's place, and the   *)
(* contracts hash a message with the prefix that eth_sign puts before it.  *)
(***************************************************************************)
THEOREM Agreement == Spec => []EncodingsAgree
<1>1. uintToString(MESSAGE_LENGTH) = LengthAsSigned
    BY UintToString DEF MESSAGE_LENGTH
<1>2. EncodingsAgree
    BY <1>1, MessageAgrees, SignatureAgrees, Zenon DEF EncodingsAgree
<1> QED BY <1>2, PTL
=============================================================================

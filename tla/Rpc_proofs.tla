----------------------------- MODULE Rpc_proofs -----------------------------
(***************************************************************************)
(* The generated messages and the remote calls that are made of them.      *)
(*                                                                         *)
(* Fields(type) is recursive over the input.  Each field that is read      *)
(* leaves a shorter input, so by the least-number principle the recursion  *)
(* has one solution (FieldsIs).  What Serialize writes is then read back   *)
(* field by field, and an input that lacks the last bytes of a required    *)
(* field is refused (LacksFails).                                          *)
(*                                                                         *)
(* The messages' invariant (MessageInv) says of each object what was put   *)
(* into it.  That of the calls (RpcInv) places both ends of a connection   *)
(* in two streams, the request's and the answer's bytes: how many the      *)
(* client has sent and received, how many the service has (Joined).  It    *)
(* holds as long as one service at a time uses buffer_ (InTurn).           *)
(***************************************************************************)
EXTENDS Messages, Rpc, WellFoundedInduction, SequenceTheorems, TLAPS

\* A non-empty set of numbers has a least one.
LEMMA LeastNumber ==
    ASSUME NEW T, T \subseteq Nat, T # {}
    PROVE  \E x \in T : \A y \in T : x <= y
<1> DEFINE R == {p \in Nat \X Nat : p[1] < p[2]}
<1>1. IsWellFoundedOn(R, Nat)
  BY NatLessThanWellFounded DEF OpToRel
<1>2. \E x \in T : \A y \in T : ~ (<<y, x>> \in R)
  <2> HIDE DEF R
  <2> QED
    BY <1>1, WFMin
<1>3. PICK x \in T : \A y \in T : ~ (<<y, x>> \in R)
  BY <1>2
<1>4. \A y \in T : x <= y
  <2> TAKE y \in T
  <2>1. ~ (<<y, x>> \in R)
    BY <1>3
  <2>2. x \in Nat /\ y \in Nat
    OBVIOUS
  <2> QED
    BY <2>1, <2>2
<1> QED
  BY <1>4

-----------------------------------------------------------------------------
(* Strings of bytes.                                                       *)

Bytes == Seq(0 .. 255)

\* Their lengths and their bytes.
LEMMA BytesAre ==
    /\ <<>> \in Bytes /\ Len(<<>>) = 0
    /\ \A s \in Bytes : Len(s) \in Nat /\ (s # <<>> => Len(s) >= 1)
    /\ \A s \in Bytes : \A i \in 1 .. Len(s) : s[i] \in Nat /\ s[i] <= 255
<1>1. <<>> \in Bytes /\ Len(<<>>) = 0
  BY EmptySeq DEF Bytes
<1>2. ASSUME NEW s \in Bytes PROVE Len(s) \in Nat /\ (s # <<>> => Len(s) >= 1)
  <2>1. Len(s) \in Nat
    BY DEF Bytes
  <2>2. s # <<>> => Len(s) \in Nat \ {0}
    BY EmptySeq, Zenon DEF Bytes
  <2> QED
    BY <2>1, <2>2
<1>3. ASSUME NEW s \in Bytes, NEW i \in 1 .. Len(s) PROVE s[i] \in Nat /\ s[i] <= 255
  <2>1. s[i] \in 0 .. 255
    BY ElementOfSeq, Zenon DEF Bytes
  <2>2. \A b \in 0 .. 255 : b \in Nat /\ b <= 255
    OBVIOUS
  <2> QED
    BY <2>1, <2>2, Zenon
<1> QED
  BY <1>1, <1>2, <1>3, Zenon

\* What \o makes of two.
LEMMA BytesConcat ==
    ASSUME NEW s \in Bytes, NEW t \in Bytes
    PROVE  /\ s \o t \in Bytes
           /\ Len(s \o t) = Len(s) + Len(t)
           /\ \A i \in 1 .. Len(s) + Len(t) :
                (s \o t)[i] = IF i <= Len(s) THEN s[i] ELSE t[i - Len(s)]
  BY ConcatProperties, Zenon DEF Bytes

\* What SubSeq makes of one.
LEMMA BytesPart ==
    ASSUME NEW s \in Bytes, NEW m \in Nat, m >= 1, NEW n \in Nat, n <= Len(s)
    PROVE  /\ SubSeq(s, m, n) \in Bytes
           /\ Len(SubSeq(s, m, n)) = IF m <= n THEN n - m + 1 ELSE 0
           /\ \A i \in 1 .. n - m + 1 : SubSeq(s, m, n)[i] = s[m + i - 1]
<1>1. m \in Int /\ n \in Int /\ \A i \in m .. n : i \in 1 .. Len(s)
  BY BytesAre
<1>2. \A i \in m .. n : s[i] \in 0 .. 255
  BY <1>1, ElementOfSeq, Zenon DEF Bytes
<1>3. \A S : (\A i \in m .. n : s[i] \in S) =>
          /\ SubSeq(s, m, n) \in Seq(S)
          /\ Len(SubSeq(s, m, n)) = IF m <= n THEN n - m + 1 ELSE 0
          /\ \A i \in 1 .. n - m + 1 : SubSeq(s, m, n)[i] = s[m + i - 1]
  BY <1>1, SubSeqProperties
<1> QED
  BY <1>2, <1>3, Zenon DEF Bytes

\* Equal length and bytes, equal sequences.
LEMMA BytesEqual ==
    ASSUME NEW s \in Bytes, NEW t \in Bytes, Len(s) = Len(t),
           \A i \in 1 .. Len(s) : s[i] = t[i]
    PROVE  s = t
  BY SeqEqual, Zenon DEF Bytes

\* \o is associative.
LEMMA BytesAssociate ==
    ASSUME NEW s \in Bytes, NEW t \in Bytes, NEW u \in Bytes
    PROVE  (s \o t) \o u = s \o (t \o u)
  BY ConcatAssociative DEF Bytes

-----------------------------------------------------------------------------
(* Fields is well defined: the recursion always gets shorter.              *)

\* What a varint says is a number.
LEMMA VarintIs ==
    ASSUME NEW s \in Bytes
    PROVE  VarintSize(s) \in {0, 1, 2, 3} /\ (VarintSize(s) # 0 => VarintValue(s) \in Nat)
<1>0. Len(s) \in Nat /\ \A i \in 1 .. Len(s) : s[i] \in Nat
  BY BytesAre
<1>1. VarintSize(s) \in {0, 1, 2, 3}
  BY DEF VarintSize
<1>2. ASSUME VarintSize(s) = 1 PROVE VarintValue(s) \in Nat
  <2>1. Len(s) >= 2
    BY <1>2 DEF VarintSize
  <2>2. 2 \in 1 .. Len(s)
    BY <1>0, <2>1
  <2>3. VarintValue(s) = s[2]
    BY <1>2 DEF VarintValue
  <2> QED
    BY <1>0, <2>2, <2>3
<1>3. ASSUME VarintSize(s) = 2 PROVE VarintValue(s) \in Nat
  <2>1. Len(s) >= 3 /\ ~ (s[2] < 128)
    BY <1>0, <1>3 DEF VarintSize
  <2>2. 2 \in 1 .. Len(s) /\ 3 \in 1 .. Len(s)
    BY <1>0, <2>1
  <2>3. VarintValue(s) = s[2] - 128 + 128 * s[3]
    BY <1>3 DEF VarintValue
  <2>4. \A a, b \in Nat : ~ (a < 128) => a - 128 + 128 * b \in Nat
    OBVIOUS
  <2> QED
    BY <1>0, <2>1, <2>2, <2>3, <2>4
<1>4. ASSUME VarintSize(s) = 3 PROVE VarintValue(s) \in Nat
  <2>1. Len(s) >= 4 /\ ~ (s[2] < 128) /\ ~ (s[3] < 128)
    BY <1>0, <1>4 DEF VarintSize
  <2>2. 2 \in 1 .. Len(s) /\ 3 \in 1 .. Len(s) /\ 4 \in 1 .. Len(s)
    BY <1>0, <2>1
  <2>3. VarintValue(s) = s[2] - 128 + 128 * (s[3] - 128) + 128 * 128 * s[4]
    BY <1>4 DEF VarintValue
  <2>4. \A a, b, c \in Nat : ~ (a < 128) /\ ~ (b < 128) =>
          a - 128 + 128 * (b - 128) + 128 * 128 * c \in Nat
    OBVIOUS
  <2> QED
    BY <1>0, <2>1, <2>2, <2>3, <2>4
<1> QED
  BY <1>1, <1>2, <1>3, <1>4

\* A field has its bytes in the input.
LEMMA FieldLengthIs ==
    ASSUME NEW s \in Bytes
    PROVE  FieldLength(s) \in Nat /\ (FieldLength(s) # 0 => 1 + FieldLength(s) <= Len(s))
<1> DEFINE size == CASE s[1] % 8 = 0 -> VarintSize(s)
                     [] s[1] % 8 = 1 -> 8
                     [] s[1] % 8 = 2 -> IF VarintSize(s) = 0 THEN 0
                                        ELSE VarintSize(s) + VarintValue(s)
                     [] s[1] % 8 = 5 -> 4
                     [] OTHER -> 0
<1>1. size \in Nat
  BY VarintIs
<1>2. FieldLength(s) = IF 1 + size <= Len(s) THEN size ELSE 0
  BY Zenon DEF FieldLength
<1> HIDE DEF size
<1> QED
  BY <1>1, <1>2, BytesAre

\* Either there is nothing to read behind the first field, or it is shorter.
LEMMA BehindIsShorter ==
    ASSUME NEW type, NEW s \in Bytes
    PROVE  \/ BehindField(s) \in Bytes /\ Len(BehindField(s)) < Len(s)
           \/ \A x, y : FieldAndRest(type, s, x) = FieldAndRest(type, s, y)
<1>1. CASE s = <<>> \/ FieldLength(s) = 0
  <2>1. CASE s = <<>>
    BY <2>1, Zenon DEF FieldAndRest
  <2>2. CASE s # <<>> /\ FieldLength(s) = 0
    BY <2>2, Zenon DEF FieldAndRest
  <2> QED
    BY <1>1, <2>1, <2>2
<1>2. CASE s # <<>> /\ FieldLength(s) # 0
  <2> DEFINE n == FieldLength(s)
  <2>1. n \in Nat /\ 1 + n <= Len(s) /\ Len(s) \in Nat
    BY <1>2, FieldLengthIs, BytesAre
  <2> HIDE DEF n
  <2>2. 2 + n \in Nat /\ 2 + n >= 1 /\ Len(s) <= Len(s)
    BY <2>1
  <2>3. SubSeq(s, 2 + n, Len(s)) \in Bytes
        /\ Len(SubSeq(s, 2 + n, Len(s))) = IF 2 + n <= Len(s) THEN Len(s) - (2 + n) + 1 ELSE 0
    BY <2>1, <2>2, BytesPart, Zenon
  <2>4. (IF 2 + n <= Len(s) THEN Len(s) - (2 + n) + 1 ELSE 0) < Len(s)
    BY <2>1
  <2> QED
    BY <2>3, <2>4 DEF BehindField, n
<1> QED
  BY <1>1, <1>2

\* The fields of the inputs shorter than n.
Shorter(n) == {s \in Bytes : Len(s) < n}
FieldsTo(type, n, g) == g = [s \in Shorter(n) |-> FieldAndRest(type, s, g[BehindField(s)])]

\* They are the same, however far they go.
LEMMA FieldsAgree ==
    ASSUME NEW type, NEW m \in Nat, NEW n \in Nat, NEW g, NEW h,
           FieldsTo(type, m, g), FieldsTo(type, n, h)
    PROVE  \A s \in Bytes : Len(s) < m /\ Len(s) < n => g[s] = h[s]
<1> DEFINE Apart == {Len(s) : s \in {t \in Bytes : Len(t) < m /\ Len(t) < n /\ g[t] # h[t]}}
<1> SUFFICES ASSUME Apart # {} PROVE FALSE
  OBVIOUS
<1>1. Apart \subseteq Nat
  BY DEF Bytes
<1>2. PICK k \in Apart : \A j \in Apart : k <= j
  BY <1>1, LeastNumber
<1>3. PICK s \in Bytes : Len(s) = k /\ Len(s) < m /\ Len(s) < n /\ g[s] # h[s]
  BY <1>2
<1>4. s \in Shorter(m) /\ s \in Shorter(n)
  BY <1>3 DEF Shorter
<1>5. /\ g[s] = FieldAndRest(type, s, g[BehindField(s)])
      /\ h[s] = FieldAndRest(type, s, h[BehindField(s)])
  BY <1>4, Zenon DEF FieldsTo
<1> DEFINE t == BehindField(s)
<1>6. CASE t \in Bytes /\ Len(t) < Len(s)
  <2>1. Len(t) \in Nat /\ Len(s) \in Nat
    BY <1>6 DEF Bytes
  <2> HIDE DEF t
  <2>2. Len(t) < m /\ Len(t) < n
    BY <1>3, <1>6, <2>1
  <2>3. Len(t) \notin Apart
    <3> HIDE DEF Apart
    <3> QED
      BY <1>1, <1>2, <1>3, <1>6, <2>1
  <2>4. g[t] = h[t]
    BY <1>6, <2>2, <2>3
  <2> QED
    BY <1>3, <1>5, <2>4, Zenon DEF t
<1>7. CASE \A x, y : FieldAndRest(type, s, x) = FieldAndRest(type, s, y)
  BY <1>3, <1>5, <1>7, Zenon
<1> QED
  BY <1>6, <1>7, BehindIsShorter

\* And there are some, however far.
LEMMA FieldsToAll ==
    ASSUME NEW type
    PROVE  \A n \in Nat : \E g : FieldsTo(type, n, g)
<1> DEFINE Bad == {n \in Nat : ~ \E g : FieldsTo(type, n, g)}
<1> SUFFICES ASSUME Bad # {} PROVE FALSE
  OBVIOUS
<1>1. PICK k \in Bad : \A j \in Bad : k <= j
  <2>1. Bad \subseteq Nat
    OBVIOUS
  <2> HIDE DEF Bad
  <2> QED
    BY <2>1, LeastNumber
<1>2. k # 0
  <2> SUFFICES ASSUME k = 0 PROVE FALSE
    OBVIOUS
  <2>1. Shorter(k) = {}
    BY DEF Shorter, Bytes
  <2>2. FieldsTo(type, k, [s \in Shorter(k) |-> 0])
    BY <2>1 DEF FieldsTo
  <2> QED
    BY <1>1, <2>2
<1>3. PICK g : FieldsTo(type, k - 1, g)
  <2>1. k \in Nat /\ k - 1 \in Nat /\ ~ (k <= k - 1)
    BY <1>2
  <2>2. k - 1 \notin Bad
    <3> HIDE DEF Bad
    <3> QED
      BY <1>1, <2>1
  <2> QED
    BY <2>1, <2>2
<1> DEFINE h == [s \in Shorter(k) |-> FieldAndRest(type, s, g[BehindField(s)])]
<1>4. ASSUME NEW s \in Shorter(k)
      PROVE  FieldAndRest(type, s, g[BehindField(s)]) = FieldAndRest(type, s, h[BehindField(s)])
  <2> DEFINE t == BehindField(s)
  <2>0. s \in Bytes /\ Len(s) < k /\ Len(s) \in Nat
    BY DEF Shorter, Bytes
  <2>1. CASE t \in Bytes /\ Len(t) < Len(s)
    <3>1. Len(t) \in Nat
      BY <2>1 DEF Bytes
    <3> HIDE DEF t
    <3>2. Len(t) < k - 1 /\ Len(t) < k
      BY <2>0, <2>1, <3>1
    <3>3. t \in Shorter(k - 1) /\ t \in Shorter(k)
      BY <2>1, <3>2 DEF Shorter
    <3>4. g[t] = FieldAndRest(type, t, g[BehindField(t)])
      BY <1>3, <3>3, Zenon DEF FieldsTo
    <3>5. h[t] = FieldAndRest(type, t, g[BehindField(t)])
      BY <3>3, Zenon
    <3> HIDE DEF h
    <3> QED
      BY <3>4, <3>5, Zenon DEF t
  <2>2. CASE \A x, y : FieldAndRest(type, s, x) = FieldAndRest(type, s, y)
    BY <2>2, Zenon
  <2> QED
    BY <2>0, <2>1, <2>2, BehindIsShorter
<1>5. h = [s \in Shorter(k) |-> FieldAndRest(type, s, h[BehindField(s)])]
  <2> DEFINE i == [s \in Shorter(k) |-> FieldAndRest(type, s, h[BehindField(s)])]
  <2>1. \A s \in Shorter(k) : h[s] = i[s]
    <3> TAKE s \in Shorter(k)
    <3>1. h[s] = FieldAndRest(type, s, g[BehindField(s)])
      BY Zenon
    <3>2. i[s] = FieldAndRest(type, s, h[BehindField(s)])
      <4> HIDE DEF h
      <4> QED
        BY Zenon
    <3> HIDE DEF h, i
    <3> QED
      BY <1>4, <3>1, <3>2, Zenon
  <2> QED
    BY <2>1, Zenon
<1> QED
  BY <1>1, <1>5, Zenon DEF FieldsTo

\* The fields of every input: the recursion has a solution.
LEMMA FieldsIs ==
    ASSUME NEW type, NEW s \in Bytes
    PROVE  Fields(type)[s] = FieldAndRest(type, s, Fields(type)[BehindField(s)])
<1> DEFINE Is(F) == F = [t \in Bytes |-> FieldAndRest(type, t, F[BehindField(t)])]
           G(n) == CHOOSE g : FieldsTo(type, n, g)
           H == [t \in Bytes |-> G(Len(t) + 1)[t]]
<1>1. \A n \in Nat : FieldsTo(type, n, G(n))
  BY FieldsToAll, Zenon
<1>2. \A t \in Bytes : Len(t) \in Nat /\ Len(t) + 1 \in Nat /\ Len(t) < Len(t) + 1
  BY DEF Bytes
<1> HIDE DEF G
<1>3. ASSUME NEW t \in Bytes
      PROVE  H[t] = FieldAndRest(type, t, H[BehindField(t)])
  <2> DEFINE u == BehindField(t)
             n == Len(t) + 1
  <2>1. H[t] = G(n)[t]
    BY Zenon
  <2>2. G(n)[t] = FieldAndRest(type, t, G(n)[u])
    <3>1. t \in Shorter(n) /\ n \in Nat
      BY <1>2 DEF Shorter
    <3> HIDE DEF n
    <3> QED
      BY <1>1, <3>1, Zenon DEF FieldsTo
  <2>3. CASE u \in Bytes /\ Len(u) < Len(t)
    <3>1. H[u] = G(Len(u) + 1)[u]
      BY <2>3, Zenon
    <3>2. Len(u) < n /\ Len(u) < Len(u) + 1 /\ Len(u) + 1 \in Nat /\ n \in Nat
      BY <1>2, <2>3
    <3> HIDE DEF u, n, H
    <3>3. FieldsTo(type, n, G(n)) /\ FieldsTo(type, Len(u) + 1, G(Len(u) + 1))
      BY <1>1, <3>2, Zenon
    <3>4. G(n)[u] = G(Len(u) + 1)[u]
      BY <2>3, <3>2, <3>3, FieldsAgree
    <3>5. G(n)[u] = H[u]
      BY <3>1, <3>4, Zenon
    <3> QED
      BY <2>1, <2>2, <3>5, Zenon DEF u
  <2>4. CASE \A x, y : FieldAndRest(type, t, x) = FieldAndRest(type, t, y)
    <3> HIDE DEF H, n
    <3> QED
      BY <2>1, <2>2, <2>4, Zenon
  <2> QED
    BY <2>3, <2>4, BehindIsShorter
<1>4. Is(H)
  <2> DEFINE I == [t \in Bytes |-> FieldAndRest(type, t, H[BehindField(t)])]
  <2>1. \A t \in Bytes : H[t] = I[t]
    <3> TAKE t \in Bytes
    <3>1. I[t] = FieldAndRest(type, t, H[BehindField(t)])
      <4> HIDE DEF H
      <4> QED
        BY Zenon
    <3> HIDE DEF H, I
    <3> QED
      BY <1>3, <3>1, Zenon
  <2> QED
    BY <2>1, Zenon
<1>5. Fields(type) = CHOOSE F : Is(F)
  BY Zenon DEF Fields, Bytes
<1> HIDE DEF H
<1>6. Is(Fields(type))
  <2> HIDE DEF Is
  <2> QED
    BY <1>4, <1>5, Zenon
<1> QED
  BY <1>6, Zenon

-----------------------------------------------------------------------------
(* Parsing one field.                                                      *)

\* Strings whose length takes at most three bytes.
TwoBytesLimit == 128 * 128
TextLimit == 128 * 128 * 128
Texts == {v \in Bytes : Len(v) < TextLimit}

\* The bytes of field f with string v, and those before the string.
Header(f, n) == <<8 * f + 2>> \o Varint(n)
Part(f, v) == Header(f, Len(v)) \o v

\* The 7-bit groups of a length.
LEMMA DigitsOf ==
    ASSUME NEW n \in Nat, n < TextLimit
    PROVE  /\ n % 128 \in Nat /\ n % 128 < 128
           /\ n < TwoBytesLimit => /\ n \div 128 \in Nat /\ n \div 128 < 128
                                  /\ (n % 128) + 128 * (n \div 128) = n
           /\ (n \div 128) % 128 \in Nat /\ (n \div 128) % 128 < 128
           /\ n \div TwoBytesLimit \in Nat /\ n \div TwoBytesLimit < 128
           /\ (n % 128) + 128 * ((n \div 128) % 128) + 128 * 128 * (n \div TwoBytesLimit) = n
<1> DEFINE d == n \div 128
           a == n % 128
<1>1. n = 128 * d + a /\ d \in Nat /\ a \in Nat /\ a < 128
  OBVIOUS
<1>2. n < TwoBytesLimit => d < 128
  BY <1>1 DEF TwoBytesLimit
<1>3. n \div TwoBytesLimit = d \div 128
  BY <1>1 DEF TwoBytesLimit
<1> HIDE DEF d, a
<1> DEFINE e == d \div 128
           b == d % 128
<1>4. d = 128 * e + b /\ e \in Nat /\ b \in Nat /\ b < 128
  BY <1>1
<1>5. e < 128
  BY <1>1, <1>4 DEF TextLimit
<1> HIDE DEF e, b
<1>6. a + 128 * b + 128 * 128 * e = n
  BY <1>1, <1>4
<1> QED
  BY <1>1, <1>2, <1>3, <1>4, <1>5, <1>6 DEF a, b, d, e

\* A string of one byte,
LEMMA OneByte ==
    ASSUME NEW a \in 0 .. 255, NEW x, x = <<a>>
    PROVE  x \in Bytes /\ Len(x) = 1 /\ x[1] = a
  BY DEF Bytes

\* and of two.
LEMMA TwoBytes ==
    ASSUME NEW a \in 0 .. 255, NEW b \in 0 .. 255, NEW x, x = <<a, b>>
    PROVE  x \in Bytes /\ Len(x) = 2 /\ x[1] = a /\ x[2] = b
  BY DEF Bytes

\* The tag of a field says which it is.
LEMMA TagOf ==
    ASSUME NEW f \in 1 .. 3
    PROVE  /\ 8 * f + 2 \in 0 .. 255 /\ 8 * f + 2 \in Nat
           /\ (8 * f + 2) % 8 = 2 /\ (8 * f + 2) \div 8 = f
<1>1. f = 1 \/ f = 2 \/ f = 3
  OBVIOUS
<1>2. /\ (8 * 1 + 2) % 8 = 2 /\ (8 * 1 + 2) \div 8 = 1
      /\ (8 * 2 + 2) % 8 = 2 /\ (8 * 2 + 2) \div 8 = 2
      /\ (8 * 3 + 2) % 8 = 2 /\ (8 * 3 + 2) \div 8 = 3
  OBVIOUS
<1>3. 8 * f + 2 \in 0 .. 255 /\ 8 * f + 2 \in Nat
  OBVIOUS
<1> QED
  BY <1>1, <1>2, <1>3

\* How many bytes a length takes.
LengthSize(n) == IF n < 128 THEN 1 ELSE IF n < TwoBytesLimit THEN 2 ELSE 3

\* A length takes one, two or three bytes.
LEMMA LengthIs ==
    ASSUME NEW n \in Nat, n < TextLimit
    PROVE  /\ Varint(n) \in Bytes /\ Len(Varint(n)) = LengthSize(n) /\ LengthSize(n) \in {1, 2, 3}
           /\ LengthSize(n) = 1 => n < 128 /\ Varint(n)[1] = n
           /\ LengthSize(n) = 2 => /\ Varint(n)[1] = 128 + (n % 128)
                                   /\ Varint(n)[2] = n \div 128 /\ n < TwoBytesLimit
           /\ LengthSize(n) = 3 => /\ Varint(n)[1] = 128 + (n % 128)
                                   /\ Varint(n)[2] = 128 + ((n \div 128) % 128)
                                   /\ Varint(n)[3] = n \div TwoBytesLimit
<1> DEFINE y == Varint(n)
           a == 128 + (n % 128)
           b == n \div 128
           c == 128 + ((n \div 128) % 128)
           d == n \div TwoBytesLimit
<1>0. n < TwoBytesLimit <=> n < 128 * 128
  BY DEF TwoBytesLimit
<1>1. CASE n < 128
  <2>1. n \in 0 .. 255 /\ y = <<n>> /\ LengthSize(n) = 1
    BY <1>1 DEF Varint, LengthSize
  <2> HIDE DEF y
  <2>2. y \in Bytes /\ Len(y) = 1 /\ y[1] = n
    BY <2>1, OneByte, Zenon
  <2>3. 1 # 2 /\ 1 # 3
    OBVIOUS
  <2> QED
    BY <1>1, <2>1, <2>2, <2>3, Zenon DEF y
<1>2. CASE ~ (n < 128) /\ n < TwoBytesLimit
  <2>1. a \in 0 .. 255 /\ b \in 0 .. 255
    BY <1>2, DigitsOf
  <2>2. y = <<a, b>> /\ LengthSize(n) = 2
    BY <1>0, <1>2 DEF Varint, LengthSize
  <2> HIDE DEF y, a, b
  <2>3. y \in Bytes /\ Len(y) = 2 /\ y[1] = a /\ y[2] = b
    BY <2>1, <2>2, TwoBytes, Zenon
  <2>4. 2 # 1 /\ 2 # 3
    OBVIOUS
  <2> QED
    BY <1>2, <2>2, <2>3, <2>4, Zenon DEF y, a, b
<1>3. CASE ~ (n < 128) /\ ~ (n < TwoBytesLimit)
  <2>1. a \in 0 .. 255 /\ c \in 0 .. 255 /\ d \in 0 .. 255
    <3> DEFINE e == (n \div 128) % 128
    <3>1. n % 128 \in Nat /\ n % 128 < 128 /\ e \in Nat /\ e < 128 /\ d \in Nat /\ d < 128
      <4>1. n % 128 \in Nat /\ n % 128 < 128
        BY DigitsOf, Zenon
      <4>2. e \in Nat /\ e < 128
        BY DigitsOf
      <4>3. d \in Nat /\ d < 128
        BY DigitsOf, Zenon
      <4> QED
        BY <4>1, <4>2, <4>3, Zenon
    <3>2. c = 128 + e
      OBVIOUS
    <3> HIDE DEF c, d, e
    <3> QED
      BY <3>1, <3>2
  <2>2. y = <<a, c, d>> /\ LengthSize(n) = 3
    BY <1>0, <1>3 DEF Varint, LengthSize, TwoBytesLimit
  <2> HIDE DEF y, a, c, d
  <2>3. y \in Bytes /\ Len(y) = 3 /\ y[1] = a /\ y[2] = c /\ y[3] = d
    <3>1. y = <<a, c, d>>
      BY <2>2, Zenon
    <3>2. \A x : x = <<a, c, d>> =>
            x \in Bytes /\ Len(x) = 3 /\ x[1] = a /\ x[2] = c /\ x[3] = d
      BY <2>1 DEF Bytes
    <3> QED
      BY <3>1, <3>2, Zenon
  <2>4. 3 # 1 /\ 3 # 2
    OBVIOUS
  <2> QED
    BY <1>3, <2>2, <2>3, <2>4, Zenon DEF y, a, c, d
<1> QED
  BY <1>1, <1>2, <1>3

\* What is before a string: its tag and its length.
LEMMA HeaderIs ==
    ASSUME NEW f \in 1 .. 3, NEW n \in Nat, n < TextLimit
    PROVE  /\ Header(f, n) \in Bytes /\ Len(Header(f, n)) = 1 + LengthSize(n)
           /\ Header(f, n)[1] = 8 * f + 2
           /\ \A i \in 1 .. LengthSize(n) : Header(f, n)[1 + i] = Varint(n)[i]
<1> DEFINE x == <<8 * f + 2>>
           y == Varint(n)
           h == x \o y
<1>1. x \in Bytes /\ Len(x) = 1 /\ x[1] = 8 * f + 2
  <2>1. 8 * f + 2 \in 0 .. 255
    BY TagOf
  <2> QED
    BY <2>1, OneByte, Zenon
<1>2. y \in Bytes /\ Len(y) = LengthSize(n) /\ LengthSize(n) \in {1, 2, 3}
  BY LengthIs
<1>3. Header(f, n) = h
  BY DEF Header
<1> HIDE DEF x, y
<1>4. /\ h \in Bytes /\ Len(h) = Len(x) + Len(y)
      /\ \A i \in 1 .. Len(x) + Len(y) : h[i] = IF i <= Len(x) THEN x[i] ELSE y[i - Len(x)]
  BY <1>1, <1>2, BytesConcat, Zenon
<1> HIDE DEF h
<1>5. /\ h \in Bytes /\ Len(h) = 1 + LengthSize(n)
      /\ \A i \in 1 .. 1 + LengthSize(n) : h[i] = IF i <= 1 THEN x[i] ELSE y[i - 1]
  BY <1>1, <1>2, <1>4, Zenon
<1>6. h[1] = 8 * f + 2
  <2>1. 1 \in 1 .. 1 + LengthSize(n) /\ 1 <= 1
    BY <1>2
  <2> QED
    BY <1>1, <1>5, <2>1, Zenon
<1>7. ASSUME NEW i \in 1 .. LengthSize(n) PROVE h[1 + i] = y[i]
  <2> DEFINE j == 1 + i
  <2>1. j \in 1 .. 1 + LengthSize(n) /\ ~ (j <= 1) /\ j - 1 = i
    BY <1>2
  <2> HIDE DEF j
  <2> QED
    BY <1>5, <2>1, Zenon DEF j
<1> QED
  BY <1>3, <1>5, <1>6, <1>7, Zenon DEF y

\* The parts of an input that starts with a field.
LEMMA PartIs ==
    ASSUME NEW f \in 1 .. 3, NEW v \in Texts
    PROVE  /\ Part(f, v) \in Bytes
           /\ Len(Part(f, v)) = 1 + StringSize(v)
           /\ StringSize(v) = LengthSize(Len(v)) + Len(v)
           /\ StringSize(v) \in Nat
<1>1. v \in Bytes /\ Len(v) \in Nat /\ Len(v) < TextLimit
  BY BytesAre DEF Texts
<1>2. Header(f, Len(v)) \in Bytes /\ Len(Header(f, Len(v))) = 1 + LengthSize(Len(v))
  BY <1>1, HeaderIs, Zenon
<1>3. Part(f, v) \in Bytes /\ Len(Part(f, v)) = Len(Header(f, Len(v))) + Len(v)
  BY <1>1, <1>2, BytesConcat DEF Part
<1>4. Len(Varint(Len(v))) = LengthSize(Len(v)) /\ LengthSize(Len(v)) \in {1, 2, 3}
  BY <1>1, LengthIs, Zenon
<1>5. StringSize(v) = LengthSize(Len(v)) + Len(v)
  BY <1>4 DEF StringSize
<1> QED
  BY <1>1, <1>2, <1>3, <1>4, <1>5

\* A varint at s[2] is read as it was written.
LEMMA LengthIsRead ==
    ASSUME NEW s \in Bytes, NEW n \in Nat, n < TextLimit, Len(s) >= 1 + LengthSize(n),
           \A i \in 1 .. LengthSize(n) : s[1 + i] = Varint(n)[i]
    PROVE  VarintSize(s) = LengthSize(n) /\ VarintValue(s) = n
<1>0. Len(s) \in Nat /\ 1 + 1 = 2 /\ 1 + 2 = 3 /\ 1 + 3 = 4
  BY BytesAre
<1>1. CASE LengthSize(n) = 1
  <2>1. 1 \in 1 .. 1 /\ n < 128 /\ Varint(n)[1] = n
    BY <1>1, LengthIs
  <2>2. s[2] = n
    BY <1>0, <1>1, <2>1
  <2>3. VarintSize(s) = 1
    BY <1>0, <1>1, <2>1, <2>2 DEF VarintSize
  <2>4. VarintValue(s) = s[2]
    BY <2>3 DEF VarintValue
  <2> QED
    BY <1>1, <2>2, <2>3, <2>4, Zenon
<1>2. CASE LengthSize(n) = 2
  <2> DEFINE a == n % 128
             b == n \div 128
  <2>1. Varint(n)[1] = 128 + a /\ Varint(n)[2] = b /\ n < TwoBytesLimit
    BY <1>2, LengthIs
  <2>2. a \in Nat /\ b \in Nat /\ b < 128 /\ a + 128 * b = n
    BY <2>1, DigitsOf
  <2> HIDE DEF a, b
  <2>3. 1 \in 1 .. 2 /\ 2 \in 1 .. 2
    OBVIOUS
  <2>4. s[2] = 128 + a /\ s[3] = b
    BY <1>0, <1>2, <2>1, <2>3
  <2>5. Len(s) >= 3
    BY <1>0, <1>2
  <2>6. VarintSize(s) = 2
    BY <1>0, <2>2, <2>4, <2>5 DEF VarintSize
  <2>7. VarintValue(s) = s[2] - 128 + 128 * s[3]
    BY <2>6 DEF VarintValue
  <2>8. (128 + a) - 128 + 128 * b = n
    BY <2>2
  <2>9. VarintValue(s) = (128 + a) - 128 + 128 * b
    BY <2>4, <2>7
  <2> QED
    BY <1>2, <2>6, <2>8, <2>9
<1>3. CASE LengthSize(n) = 3
  <2> DEFINE a == n % 128
             b == (n \div 128) % 128
             c == n \div TwoBytesLimit
  <2>1. Varint(n)[1] = 128 + a /\ Varint(n)[2] = 128 + b /\ Varint(n)[3] = c
    BY <1>3, LengthIs
  <2>2. a \in Nat /\ b \in Nat /\ c \in Nat /\ c < 128 /\ a + 128 * b + 128 * 128 * c = n
    BY DigitsOf
  <2> HIDE DEF a, b, c
  <2>3. 1 \in 1 .. 3 /\ 2 \in 1 .. 3 /\ 3 \in 1 .. 3
    OBVIOUS
  <2>4. s[2] = 128 + a /\ s[3] = 128 + b /\ s[4] = c
    BY <1>0, <1>3, <2>1, <2>3
  <2>5. Len(s) >= 4
    BY <1>0, <1>3
  <2>6. VarintSize(s) = 3
    BY <1>0, <2>2, <2>4, <2>5 DEF VarintSize
  <2>7. VarintValue(s) = s[2] - 128 + 128 * (s[3] - 128) + 128 * 128 * s[4]
    BY <2>6 DEF VarintValue
  <2>8. VarintValue(s) = (128 + a) - 128 + 128 * ((128 + b) - 128) + 128 * 128 * c
    BY <2>4, <2>7
  <2>9. (128 + a) - 128 + 128 * ((128 + b) - 128) + 128 * 128 * c = n
    BY <2>2
  <2> QED
    BY <1>3, <2>6, <2>8, <2>9
<1> QED
  BY <1>1, <1>2, <1>3, LengthIs

\* A field, and what is behind it.
LEMMA PartThenRest ==
    ASSUME NEW f \in 1 .. 3, NEW v \in Texts, NEW t \in Bytes
    PROVE  /\ Part(f, v) \o t \in Bytes /\ Part(f, v) \o t # <<>>
           /\ FieldLength(Part(f, v) \o t) = StringSize(v) /\ StringSize(v) # 0
           /\ (Part(f, v) \o t)[1] % 8 = 2 /\ (Part(f, v) \o t)[1] \div 8 = f
           /\ BehindField(Part(f, v) \o t) = t
           /\ SubSeq(Part(f, v) \o t, 2 + VarintSize(Part(f, v) \o t), 1 + StringSize(v)) = v
<1> DEFINE p == Part(f, v)
           s == p \o t
           h == Header(f, Len(v))
           n == Len(v)
           H == Len(h)
<1>1. v \in Bytes /\ n \in Nat /\ n < TextLimit /\ t \in Bytes /\ Len(t) \in Nat
  BY BytesAre DEF Texts
<1>2. /\ h \in Bytes /\ h[1] = 8 * f + 2 /\ H = 1 + LengthSize(n) /\ LengthSize(n) \in {1, 2, 3}
      /\ \A i \in 1 .. LengthSize(n) : h[1 + i] = Varint(n)[i]
  <2> HIDE DEF n
  <2>1. h = Header(f, n)
    BY DEF n
  <2> HIDE DEF h
  <2>2. LengthSize(n) \in {1, 2, 3}
    BY <1>1, LengthIs, Zenon
  <2>3. /\ Header(f, n) \in Bytes /\ Header(f, n)[1] = 8 * f + 2
        /\ Len(Header(f, n)) = 1 + LengthSize(n)
        /\ \A i \in 1 .. LengthSize(n) : Header(f, n)[1 + i] = Varint(n)[i]
    BY <1>1, HeaderIs, Zenon
  <2> QED
    BY <2>1, <2>2, <2>3, Zenon
<1>3. /\ p \in Bytes /\ Len(p) = 1 + StringSize(v) /\ StringSize(v) \in Nat
      /\ StringSize(v) = LengthSize(n) + n
  BY PartIs, Zenon
<1>4. /\ s \in Bytes /\ Len(s) = Len(p) + Len(t)
      /\ \A i \in 1 .. Len(p) + Len(t) : s[i] = IF i <= Len(p) THEN p[i] ELSE t[i - Len(p)]
  <2> HIDE DEF p
  <2> QED
    BY <1>1, <1>3, BytesConcat, Zenon
<1>5. /\ Len(p) = H + n
      /\ \A i \in 1 .. H + n : p[i] = IF i <= H THEN h[i] ELSE v[i - H]
  BY <1>1, <1>2, BytesConcat DEF Part
<1> DEFINE L == Len(s)
           S == StringSize(v)
           P == Len(p)
           N == LengthSize(n)
<1> HIDE DEF p, s, h, n, H, L, S, P, N
<1>6. N \in {1, 2, 3} /\ H = 1 + N /\ S = N + n /\ P = H + n /\ P = 1 + S /\ L = P + Len(t)
  <2>1. N \in {1, 2, 3} /\ H = 1 + N
    BY <1>2 DEF N
  <2>2. P = 1 + S /\ S = N + n
    BY <1>3 DEF P, S, N
  <2>3. P = H + n /\ L = P + Len(t)
    BY <1>4, <1>5 DEF P, L
  <2> QED
    BY <1>1, <2>1, <2>2, <2>3
<1>7. \A i \in 1 .. H : s[i] = h[i]
  <2> TAKE i \in 1 .. H
  <2>1. i \in 1 .. H + n /\ i \in 1 .. P + Len(t) /\ i <= H /\ i <= P
    BY <1>1, <1>6
  <2> QED
    BY <1>4, <1>5, <2>1 DEF P
<1>8. \A i \in 1 .. n : s[H + i] = v[i]
  <2> TAKE i \in 1 .. n
  <2> DEFINE k == H + i
  <2>1. k \in 1 .. H + n /\ k \in 1 .. P + Len(t) /\ ~ (k <= H) /\ k <= P /\ k - H = i
    BY <1>1, <1>6
  <2> HIDE DEF k
  <2>2. s[k] = p[k]
    BY <1>4, <2>1 DEF P
  <2>3. p[k] = v[i]
    BY <1>5, <2>1
  <2> QED
    BY <2>2, <2>3 DEF k
<1>9. \A i \in 1 .. Len(t) : s[P + i] = t[i]
  <2> TAKE i \in 1 .. Len(t)
  <2>1. P + i \in 1 .. P + Len(t) /\ ~ (P + i <= P) /\ P + i - P = i
    BY <1>1, <1>6
  <2> QED
    BY <1>4, <2>1 DEF P
<1>10. s[1] = 8 * f + 2 /\ s[1] % 8 = 2 /\ s[1] \div 8 = f
  <2>1. 1 \in 1 .. H
    BY <1>6
  <2>2. s[1] = 8 * f + 2
    BY <1>2, <1>7, <2>1
  <2> QED
    BY <2>2, TagOf
<1>11. VarintSize(s) = N /\ VarintValue(s) = n
  <2>1. \A i \in 1 .. N : s[1 + i] = Varint(n)[i]
    <3> TAKE i \in 1 .. N
    <3>1. 1 + i \in 1 .. H
      BY <1>6
    <3>2. h[1 + i] = Varint(n)[i]
      BY <1>2, Zenon DEF N
    <3> QED
      BY <1>7, <3>1, <3>2, Zenon
  <2>2. Len(s) >= 1 + N
    BY <1>1, <1>6 DEF L
  <2> QED
    BY <1>1, <1>4, <2>1, <2>2, LengthIsRead DEF N
<1>12. FieldLength(s) = S
  <2> DEFINE size == CASE s[1] % 8 = 0 -> VarintSize(s)
                       [] s[1] % 8 = 1 -> 8
                       [] s[1] % 8 = 2 -> IF VarintSize(s) = 0 THEN 0
                                          ELSE VarintSize(s) + VarintValue(s)
                       [] s[1] % 8 = 5 -> 4
                       [] OTHER -> 0
  <2>1. FieldLength(s) = IF 1 + size <= Len(s) THEN size ELSE 0
    BY Zenon DEF FieldLength
  <2>2. size = N + n
    <3>1. s[1] % 8 = 2 /\ VarintSize(s) # 0
      BY <1>6, <1>10, <1>11
    <3> QED
      BY <1>11, <3>1
  <2> HIDE DEF size
  <2> QED
    BY <1>1, <1>6, <2>1, <2>2 DEF L
<1>13. BehindField(s) = t
  <2>1. 2 + S = P + 1 /\ P + 1 \in Nat /\ P + 1 >= 1 /\ L \in Nat /\ L <= L
    BY <1>1, <1>6
  <2>2. BehindField(s) = SubSeq(s, P + 1, L)
    BY <1>12, <2>1, Zenon DEF BehindField, L
  <2>3. /\ SubSeq(s, P + 1, L) \in Bytes
        /\ Len(SubSeq(s, P + 1, L)) = IF P + 1 <= L THEN L - (P + 1) + 1 ELSE 0
        /\ \A i \in 1 .. L - (P + 1) + 1 : SubSeq(s, P + 1, L)[i] = s[P + 1 + i - 1]
    BY <1>4, <2>1, BytesPart DEF L
  <2>4. (IF P + 1 <= L THEN L - (P + 1) + 1 ELSE 0) = Len(t) /\ L - (P + 1) + 1 = Len(t)
    BY <1>1, <1>6
  <2> DEFINE b == SubSeq(s, P + 1, L)
  <2> HIDE DEF b
  <2>5. b \in Bytes /\ Len(b) = Len(t) /\ \A i \in 1 .. Len(t) : b[i] = s[P + 1 + i - 1]
    BY <2>3, <2>4 DEF b
  <2>6. \A i \in 1 .. Len(t) : b[i] = t[i]
    <3> TAKE i \in 1 .. Len(t)
    <3>1. P + 1 + i - 1 = P + i
      BY <1>1, <1>6
    <3> QED
      BY <1>9, <2>5, <3>1
  <2>7. b = t
    BY <1>1, <2>5, <2>6, BytesEqual
  <2> QED
    BY <2>2, <2>7 DEF b
<1>14. SubSeq(s, 2 + VarintSize(s), 1 + S) = v
  <2>1. 2 + VarintSize(s) = H + 1
    BY <1>6, <1>11
  <2>2. 1 + S = P /\ H + 1 \in Nat /\ H + 1 >= 1 /\ P \in Nat /\ P <= Len(s)
    BY <1>1, <1>6 DEF L
  <2>3. /\ SubSeq(s, H + 1, P) \in Bytes
        /\ Len(SubSeq(s, H + 1, P)) = IF H + 1 <= P THEN P - (H + 1) + 1 ELSE 0
        /\ \A i \in 1 .. P - (H + 1) + 1 : SubSeq(s, H + 1, P)[i] = s[H + 1 + i - 1]
    BY <1>4, <2>2, BytesPart
  <2>4. (IF H + 1 <= P THEN P - (H + 1) + 1 ELSE 0) = n /\ P - (H + 1) + 1 = n
    BY <1>1, <1>6
  <2> DEFINE b == SubSeq(s, H + 1, P)
  <2> HIDE DEF b
  <2>5. b \in Bytes /\ Len(b) = n /\ \A i \in 1 .. n : b[i] = s[H + 1 + i - 1]
    BY <2>3, <2>4 DEF b
  <2>6. \A i \in 1 .. n : b[i] = v[i]
    <3> TAKE i \in 1 .. n
    <3>1. H + 1 + i - 1 = H + i
      BY <1>1, <1>6
    <3> QED
      BY <1>8, <2>5, <3>1
  <2>7. b = v
    BY <1>1, <2>5, <2>6, BytesEqual DEF n
  <2> QED
    BY <2>1, <2>2, <2>7, Zenon DEF b
<1>15. s # <<>> /\ S # 0
  <2>1. L # 0 /\ S # 0
    BY <1>1, <1>6
  <2> QED
    BY <2>1, BytesAre DEF L
<1> QED
  BY <1>4, <1>10, <1>12, <1>13, <1>14, <1>15, Zenon DEF s, p, S

-----------------------------------------------------------------------------
(* Parsing what was serialized.                                            *)

Parsed(k, u) == [ok |-> TRUE, known |-> k, unknown |-> u]
LaterField == <<122, 1, 7>>

\* A field in front of what was parsed, unless it comes again there.
Before(f, v, k) == [g \in {f} \cup DOMAIN k |-> IF g \in DOMAIN k THEN k[g] ELSE v]

\* A parse with other known fields, or other unknown ones.
WithKnown(p, x) == [p EXCEPT !.known = x]
WithUnknown(p, x) == [p EXCEPT !.unknown = x]

\* The record of a parse with a part of it replaced.
LEMMA ParsedRecords ==
    ASSUME NEW k, NEW u, NEW x
    PROVE  /\ WithKnown(Parsed(k, u), x) = Parsed(x, u)
           /\ WithUnknown(Parsed(k, u), x) = Parsed(k, x)
<1>1. \A o :
        /\ [[ok |-> o, known |-> k, unknown |-> u] EXCEPT !.known = x]
              = [ok |-> o, known |-> x, unknown |-> u]
        /\ [[ok |-> o, known |-> k, unknown |-> u] EXCEPT !.unknown = x]
              = [ok |-> o, known |-> k, unknown |-> x]
  OBVIOUS
<1> QED
  BY <1>1, Zenon DEF Parsed, WithKnown, WithUnknown

\* The fields of a parse.
LEMMA ParsedFields ==
    ASSUME NEW k, NEW u
    PROVE  Parsed(k, u).known = k /\ Parsed(k, u).unknown = u /\ Parsed(k, u).ok
  BY DEF Parsed

\* A field of the type in front is found first.
LEMMA KnownParsed ==
    ASSUME NEW type, NEW f \in 1 .. 3, f \in type, NEW v \in Texts, NEW t \in Bytes, NEW k, NEW u,
           Fields(type)[t] = Parsed(k, u)
    PROVE  Fields(type)[Part(f, v) \o t] = Parsed(Before(f, v, k), u)
<1> DEFINE s == Part(f, v) \o t
           n == StringSize(v)
<1>1. /\ s \in Bytes /\ s # <<>> /\ FieldLength(s) = n /\ n # 0
      /\ s[1] % 8 = 2 /\ s[1] \div 8 = f /\ BehindField(s) = t
      /\ SubSeq(s, 2 + VarintSize(s), 1 + n) = v
  BY PartThenRest, Zenon
<1> HIDE DEF s, n
<1>2. Fields(type)[s] = FieldAndRest(type, s, Parsed(k, u))
  BY <1>1, FieldsIs, Zenon
<1>3. f # 0
  OBVIOUS
<1>4. \A rest : FieldAndRest(type, s, rest) =
        [rest EXCEPT !.known = [g \in {f} \cup DOMAIN rest.known |->
            IF g \in DOMAIN rest.known THEN rest.known[g] ELSE v]]
  BY <1>1, <1>3, Zenon DEF FieldAndRest
<1>5. FieldAndRest(type, s, Parsed(k, u)) =
        WithKnown(Parsed(k, u), Before(f, v, Parsed(k, u).known))
  BY <1>4, Zenon DEF Before, WithKnown
<1> QED
  <2>1. Parsed(k, u).known = k
    BY ParsedFields
  <2>2. WithKnown(Parsed(k, u), Before(f, v, k)) = Parsed(Before(f, v, k), u)
    BY ParsedRecords
  <2> QED
    BY <1>2, <1>5, <2>1, <2>2 DEF s

\* Nothing is left to parse.
LEMMA NothingParsed ==
    ASSUME NEW type
    PROVE  Fields(type)[<<>>] = Parsed(<<>>, <<>>)
<1>1. <<>> \in Bytes
  BY BytesAre
<1>2. Fields(type)[<<>>] = FieldAndRest(type, <<>>, Fields(type)[BehindField(<<>>)])
  BY <1>1, FieldsIs
<1>3. \A rest : FieldAndRest(type, <<>>, rest) = Parsed(<<>>, <<>>)
  BY Zenon DEF FieldAndRest, Parsed
<1> QED
  BY <1>2, <1>3, Zenon

\* The field of a later version.
LEMMA LaterParsed ==
    ASSUME NEW type \in SUBSET (1 .. 3)
    PROVE  LaterField \in Bytes /\ Fields(type)[LaterField] = Parsed(<<>>, LaterField)
<1> DEFINE s == LaterField
<1>1. s \in Bytes /\ Len(s) = 3 /\ s[1] = 122 /\ s[2] = 1 /\ s[3] = 7 /\ s # <<>>
  BY DEF LaterField, Bytes
<1> HIDE DEF s
<1>2. s[1] % 8 = 2 /\ s[1] \div 8 = 15 /\ 15 \notin type
  BY <1>1
<1>3. FieldLength(s) = 2
  <2>1. VarintSize(s) = 1
    BY <1>1 DEF VarintSize
  <2>2. VarintValue(s) = 1
    BY <1>1, <2>1 DEF VarintValue
  <2> QED
    BY <1>1, <1>2, <2>1, <2>2 DEF FieldLength
<1>4. BehindField(s) = <<>>
  <2>1. 2 + FieldLength(s) = 4 /\ 4 \in Int /\ 3 \in Int /\ 3 < 4
    BY <1>3
  <2>2. SubSeq(s, 4, 3) = <<>>
    BY <2>1, SubSeqEmpty
  <2> QED
    BY <1>1, <2>1, <2>2 DEF BehindField
<1>5. Fields(type)[s] = FieldAndRest(type, s, Parsed(<<>>, <<>>))
  <2>1. Fields(type)[s] = FieldAndRest(type, s, Fields(type)[BehindField(s)])
    BY <1>1, FieldsIs
  <2>2. Fields(type)[<<>>] = Parsed(<<>>, <<>>)
    BY NothingParsed
  <2> QED
    BY <1>4, <2>1, <2>2
<1>6. SubSeq(s, 1, 1 + FieldLength(s)) = s
  <2>1. 1 + FieldLength(s) = Len(s)
    BY <1>1, <1>3
  <2> QED
    BY <1>1, <2>1, SubSeqFull, Zenon DEF Bytes
<1>7. \A rest : FieldAndRest(type, s, rest) = [rest EXCEPT !.unknown = s \o rest.unknown]
  <2>1. FieldLength(s) # 0 /\ 15 # 0
    BY <1>3
  <2> QED
    BY <1>1, <1>2, <1>6, <2>1, Zenon DEF FieldAndRest
<1>8. WithUnknown(Parsed(<<>>, <<>>), s) = Parsed(<<>>, s)
  BY ParsedRecords
<1>9. s \o Parsed(<<>>, <<>>).unknown = s
  <2>1. Parsed(<<>>, <<>>).unknown = <<>>
    BY ParsedFields
  <2>2. s \o <<>> = s
    BY <1>1, ConcatEmptySeq DEF Bytes
  <2> QED
    BY <2>1, <2>2, Zenon
<1>10. FieldAndRest(type, s, Parsed(<<>>, <<>>)) = Parsed(<<>>, s)
  <2>1. FieldAndRest(type, s, Parsed(<<>>, <<>>)) =
          WithUnknown(Parsed(<<>>, <<>>), s \o Parsed(<<>>, <<>>).unknown)
    BY <1>7, Zenon DEF WithUnknown
  <2> QED
    BY <1>8, <1>9, <2>1, Zenon
<1> QED
  BY <1>1, <1>5, <1>10, Zenon DEF s

\* Messages of a type.
Unknowns == {<<>>, LaterField}
MessagesOf(type) ==
    [has : SUBSET type, str : [type -> Texts \cup {DefaultString}], unknown : Unknowns]

\* What Field returns is a text.
LEMMA FieldIsText ==
    ASSUME NEW type, NEW m \in MessagesOf(type), NEW f \in type
    PROVE  Field(m, f) \in Texts /\ (m.str[f] # DefaultString => Field(m, f) = m.str[f])
<1>1. m.str[f] \in Texts \cup {DefaultString}
  BY DEF MessagesOf
<1>2. <<>> \in Texts
  BY BytesAre DEF Texts, TextLimit
<1> QED
  BY <1>1, <1>2 DEF Field

\* The fields among D and the unknown ones are found in s.
FoundIn(type, m, D, s) ==
    /\ s \in Bytes
    /\ \E k : /\ Fields(type)[s] = Parsed(k, m.unknown)
              /\ DOMAIN k = m.has \cap D
              /\ \A g \in m.has \cap D : k[g] = Field(m, g)

\* A present field's bytes.
PartOf(m, f) == IF f \in m.has THEN Part(f, Field(m, f)) ELSE <<>>

\* A serialized field is the next one that Parse finds.
LEMMA PartFound ==
    ASSUME NEW type \in SUBSET (1 .. 3), NEW m \in MessagesOf(type), NEW D, NEW f \in 1 .. 3,
           f \notin D, NEW t, FoundIn(type, m, D, t)
    PROVE  FoundIn(type, m, D \cup {f}, PartOf(m, f) \o t)
<1>1. t \in Bytes
  BY DEF FoundIn
<1>2. PICK k : /\ Fields(type)[t] = Parsed(k, m.unknown)
               /\ DOMAIN k = m.has \cap D
               /\ \A g \in m.has \cap D : k[g] = Field(m, g)
  BY DEF FoundIn
<1>3. CASE f \in m.has
  <2> DEFINE v == Field(m, f)
             K == Before(f, v, k)
  <2>1. f \in type /\ v \in Texts
    BY <1>3, FieldIsText DEF MessagesOf
  <2> HIDE DEF v
  <2>2. PartOf(m, f) \o t = Part(f, v) \o t
    BY <1>3, Zenon DEF PartOf, v
  <2>3. Part(f, v) \o t \in Bytes
    BY <1>1, <2>1, PartThenRest
  <2>4. Fields(type)[Part(f, v) \o t] = Parsed(K, m.unknown)
    BY <1>1, <1>2, <2>1, KnownParsed
  <2>5. DOMAIN K = {f} \cup DOMAIN k
    BY DEF Before
  <2>6. {f} \cup DOMAIN k = m.has \cap (D \cup {f})
    BY <1>2, <1>3
  <2>7. ASSUME NEW g \in m.has \cap (D \cup {f}) PROVE K[g] = Field(m, g)
    <3>1. g \in {f} \cup DOMAIN k
      BY <2>6
    <3>2. K[g] = IF g \in DOMAIN k THEN k[g] ELSE v
      BY <3>1, Zenon DEF Before
    <3> HIDE DEF K
    <3> QED
      BY <1>2, <2>7, <3>2, Zenon DEF v
  <2> HIDE DEF K
  <2> QED
    BY <2>2, <2>3, <2>4, <2>5, <2>6, <2>7, Zenon DEF FoundIn
<1>4. CASE f \notin m.has
  <2>1. PartOf(m, f) \o t = t
    BY <1>1, <1>4, ConcatEmptySeq DEF PartOf, Bytes
  <2>2. m.has \cap (D \cup {f}) = m.has \cap D
    BY <1>4
  <2> QED
    BY <1>1, <1>2, <2>1, <2>2, Zenon DEF FoundIn
<1> QED
  BY <1>3, <1>4

\* The bytes of a field, none if it is not set.
LEMMA PartOfIs ==
    ASSUME NEW type \in SUBSET (1 .. 3), NEW m \in MessagesOf(type), NEW f \in 1 .. 3
    PROVE  /\ PartOf(m, f) \in Bytes
           /\ Len(PartOf(m, f)) = IF f \in m.has THEN 1 + StringSize(Field(m, f)) ELSE 0
<1>1. CASE f \in m.has
  <2>1. Field(m, f) \in Texts
    BY <1>1, FieldIsText DEF MessagesOf
  <2> QED
    BY <1>1, <2>1, PartIs DEF PartOf
<1>2. CASE f \notin m.has
  <2>1. PartOf(m, f) = <<>>
    BY <1>2 DEF PartOf
  <2> QED
    BY <1>2, <2>1, BytesAre
<1> QED
  BY <1>1, <1>2

\* What a message is serialized to is as long as was computed, and all of it
\* is found again.
LEMMA SerializedIsFound ==
    ASSUME NEW type \in SUBSET (1 .. 3), NEW m \in MessagesOf(type)
    PROVE  /\ FoundIn(type, m, type, Serialize(m))
           /\ Len(Serialize(m)) = ByteSizeLong(m)
           /\ Serialize(m) = PartOf(m, 1) \o (PartOf(m, 2) \o (PartOf(m, 3) \o m.unknown))
<1> DEFINE a == PartOf(m, 1)
           b == PartOf(m, 2)
           c == PartOf(m, 3)
           u == m.unknown
<1>1. 1 \in 1 .. 3 /\ 2 \in 1 .. 3 /\ 3 \in 1 .. 3 /\ m.has \in SUBSET type /\ u \in Unknowns
  BY DEF MessagesOf
<1>2. a \in Bytes /\ b \in Bytes /\ c \in Bytes
  BY <1>1, PartOfIs
<1>3. u \in Bytes /\ Fields(type)[u] = Parsed(<<>>, u)
  <2>1. CASE u = <<>>
    BY <2>1, BytesAre, NothingParsed, Zenon
  <2>2. CASE u = LaterField
    BY <2>2, LaterParsed, Zenon
  <2> QED
    BY <1>1, <2>1, <2>2 DEF Unknowns
<1>4. FoundIn(type, m, {}, u)
  <2>1. DOMAIN <<>> = m.has \cap {}
    OBVIOUS
  <2> QED
    BY <1>3, <2>1 DEF FoundIn
<1> HIDE DEF a, b, c
<1>5. FoundIn(type, m, {} \cup {3}, c \o u)
  BY <1>1, <1>4, PartFound DEF c
<1>6. FoundIn(type, m, ({} \cup {3}) \cup {2}, b \o (c \o u))
  <2>1. 2 \notin {} \cup {3}
    OBVIOUS
  <2> QED
    BY <1>1, <1>5, <2>1, PartFound DEF b
<1>7. FoundIn(type, m, (({} \cup {3}) \cup {2}) \cup {1}, a \o (b \o (c \o u)))
  <2>1. 1 \notin ({} \cup {3}) \cup {2}
    OBVIOUS
  <2> QED
    BY <1>1, <1>6, <2>1, PartFound DEF a
<1>8. m.has \cap ((({} \cup {3}) \cup {2}) \cup {1}) = m.has \cap type
  <2>1. \A x \in m.has : x \in type /\ x \in 1 .. 3
    BY <1>1
  <2>2. \A x \in 1 .. 3 : x = 1 \/ x = 2 \/ x = 3
    OBVIOUS
  <2> QED
    BY <2>1, <2>2, Zenon
<1>9. FoundIn(type, m, type, a \o (b \o (c \o u)))
  BY <1>7, <1>8, Zenon DEF FoundIn
<1> DEFINE Q(f) == IF f \in m.has THEN Delimited(m, f) ELSE <<>>
<1>10. \A f : Q(f) = PartOf(m, f)
  BY Zenon DEF PartOf, Part, Header, Delimited
<1>11. Serialize(m) = ((a \o b) \o c) \o u
  <2>1. Serialize(m) = ((Q(1) \o Q(2)) \o Q(3)) \o u
    BY DEF Serialize
  <2> HIDE DEF Q
  <2> QED
    BY <1>10, <2>1, Zenon DEF a, b, c
<1>12. a \o b \in Bytes /\ c \o u \in Bytes /\ b \o (c \o u) \in Bytes /\ (a \o b) \o c \in Bytes
  <2>1. a \o b \in Bytes /\ c \o u \in Bytes
    BY <1>2, <1>3, BytesConcat
  <2> QED
    BY <1>2, <2>1, BytesConcat
<1>13. ((a \o b) \o c) \o u = a \o (b \o (c \o u))
  <2>1. ((a \o b) \o c) \o u = (a \o b) \o (c \o u)
    <3> DEFINE d == a \o b
    <3> HIDE DEF d, u
    <3>1. d \in Bytes
      BY <1>12 DEF d
    <3>2. (d \o c) \o u = d \o (c \o u)
      BY <1>2, <1>3, <3>1, BytesAssociate
    <3> QED
      BY <3>2 DEF d
  <2>2. (a \o b) \o (c \o u) = a \o (b \o (c \o u))
    <3> DEFINE d == c \o u
    <3> HIDE DEF d, u
    <3>1. d \in Bytes
      BY <1>12 DEF d
    <3>2. (a \o b) \o d = a \o (b \o d)
      <4>1. a \in Bytes /\ b \in Bytes
        BY <1>2
      <4> QED
        BY <3>1, <4>1, BytesAssociate
    <3> QED
      BY <3>2 DEF d
  <2> QED
    BY <2>1, <2>2, Zenon
<1>14. Len(((a \o b) \o c) \o u) = Len(a) + Len(b) + Len(c) + Len(u)
  <2>1. Len(a \o b) = Len(a) + Len(b)
    BY <1>2, BytesConcat, Zenon
  <2>2. Len((a \o b) \o c) = Len(a \o b) + Len(c)
    BY <1>2, <1>12, BytesConcat, Zenon
  <2>3. Len(((a \o b) \o c) \o u) = Len((a \o b) \o c) + Len(u)
    BY <1>3, <1>12, BytesConcat, Zenon
  <2> QED
    BY <2>1, <2>2, <2>3, Zenon
<1>15. ByteSizeLong(m) = Len(a) + Len(b) + Len(c) + Len(u)
  BY <1>1, PartOfIs, Zenon DEF ByteSizeLong, a, b, c
<1>16. FoundIn(type, m, type, Serialize(m)) /\ Len(Serialize(m)) = ByteSizeLong(m)
  BY <1>9, <1>11, <1>13, <1>14, <1>15, Zenon
<1>17. Serialize(m) = a \o (b \o (c \o u))
  BY <1>11, <1>13, Zenon
<1> QED
  BY <1>16, <1>17, Zenon DEF a, b, c

-----------------------------------------------------------------------------
(* What a message says.                                                    *)

LEMMA DefaultIsNoText == DefaultString \notin Texts /\ <<>> \in Texts
<1>1. <<>> \in Texts
  BY BytesAre DEF Texts, TextLimit
<1> QED
  BY <1>1, DefaultStringAssumption DEF Texts, Bytes

\* A message says the fields of sd and no others; the string of a field it
\* does not have is empty.
Says(type, m, sd) ==
    /\ m \in MessagesOf(type)
    /\ DOMAIN sd = m.has
    /\ \A f \in m.has : m.str[f] # DefaultString /\ m.str[f] = sd[f]
    /\ \A f \in type \ m.has : Field(m, f) = <<>>

\* A message by its parts.
MessageWith(h, st, u) == [has |-> h, str |-> st, unknown |-> u]

\* A message is its three parts.
LEMMA MessageParts ==
    ASSUME NEW h, NEW st, NEW u
    PROVE  /\ MessageWith(h, st, u).has = h /\ MessageWith(h, st, u).str = st
           /\ MessageWith(h, st, u).unknown = u
           /\ \A type : h \in SUBSET type /\ st \in [type -> Texts \cup {DefaultString}]
                        /\ u \in Unknowns => MessageWith(h, st, u) \in MessagesOf(type)
           /\ \A f : Field(MessageWith(h, st, u), f) = IF st[f] = DefaultString THEN <<>> ELSE st[f]
  BY DEF MessageWith, MessagesOf, Field

\* What Says needs of them.
LEMMA SaysParts ==
    ASSUME NEW type, NEW m, NEW sd, Says(type, m, sd)
    PROVE  /\ m = MessageWith(m.has, m.str, m.unknown)
           /\ m.has \in SUBSET type /\ m.str \in [type -> Texts \cup {DefaultString}]
           /\ m.unknown \in Unknowns /\ DOMAIN m.str = type /\ DOMAIN sd = m.has
           /\ \A f \in m.has : m.str[f] # DefaultString /\ m.str[f] = sd[f] /\ m.str[f] \in Texts
           /\ \A f \in type \ m.has : m.str[f] = <<>> \/ m.str[f] = DefaultString
<1>1. m \in [has : SUBSET type, str : [type -> Texts \cup {DefaultString}], unknown : Unknowns]
  BY DEF Says, MessagesOf
<1>2. /\ m = MessageWith(m.has, m.str, m.unknown)
      /\ m.has \in SUBSET type /\ m.str \in [type -> Texts \cup {DefaultString}]
      /\ m.unknown \in Unknowns /\ DOMAIN m.str = type
  BY <1>1 DEF MessageWith
<1>3. /\ DOMAIN sd = m.has
      /\ \A f \in m.has : m.str[f] # DefaultString /\ m.str[f] = sd[f]
      /\ \A f \in type \ m.has : Field(m, f) = <<>>
  BY DEF Says
<1>4. \A f \in type \ m.has : m.str[f] = <<>> \/ m.str[f] = DefaultString
  BY <1>3 DEF Field
<1>5. \A f \in m.has : m.str[f] \in Texts
  BY <1>2, <1>3
<1> QED
  BY <1>2, <1>3, <1>4, <1>5

\* A message by its parts says sd.
LEMMA SaysIf ==
    ASSUME NEW type, NEW h \in SUBSET type, NEW st \in [type -> Texts \cup {DefaultString}],
           NEW u \in Unknowns, NEW sd, DOMAIN sd = h,
           \A f \in h : st[f] # DefaultString /\ st[f] = sd[f],
           \A f \in type \ h : st[f] = <<>> \/ st[f] = DefaultString
    PROVE  Says(type, MessageWith(h, st, u), sd)
<1> DEFINE m == MessageWith(h, st, u)
<1>1. /\ m.has = h /\ m.str = st /\ m.unknown = u /\ m \in MessagesOf(type)
      /\ \A f : Field(m, f) = IF st[f] = DefaultString THEN <<>> ELSE st[f]
  BY MessageParts
<1> HIDE DEF m
<1> QED
  BY <1>1 DEF Says, m

\* A field set, or taken away.
Changed(m, h, f, v) == MessageWith(h, [m.str EXCEPT ![f] = v], m.unknown)

FieldCallsChangeOnly(m, f, v) ==
    /\ SetField(m, f, v) = Changed(m, m.has \cup {f}, f, v)
    /\ MutableField(m, f) = Changed(m, m.has \cup {f}, f, Field(m, f))
    /\ ClearField(m, f) = Changed(m, m.has \ {f}, f,
                              IF m.str[f] = DefaultString THEN DefaultString ELSE <<>>)
    /\ ReleaseField(m, f) = Changed(m, m.has \ {f}, f, DefaultString)
    /\ SetAllocated(m, f, v) = Changed(m, IF v = DefaultString THEN m.has \ {f}
                                          ELSE m.has \cup {f}, f, v)

\* What a call on one field changes.
LEMMA FieldCallsChange ==
    ASSUME NEW type, NEW m \in MessagesOf(type), NEW f \in type, NEW v
    PROVE  FieldCallsChangeOnly(m, f, v)
<1>1. m \in [has : SUBSET type, str : [type -> Texts \cup {DefaultString}], unknown : Unknowns]
  BY DEF MessagesOf
<1>2. \A h, w : [m EXCEPT !.has = h, !.str[f] = w] =
                  [has |-> h, str |-> [m.str EXCEPT ![f] = w], unknown |-> m.unknown]
  <2> TAKE h, w
  <2> DEFINE m1 == [m EXCEPT !.has = h]
  <2>1. m1 = [has |-> h, str |-> m.str, unknown |-> m.unknown]
    BY <1>1
  <2>2. [m EXCEPT !.has = h, !.str[f] = w] = [m1 EXCEPT !.str = [m1.str EXCEPT ![f] = w]]
    OBVIOUS
  <2> HIDE DEF m1
  <2>3. m1.str = m.str
    BY <2>1
  <2>4. \A x : [m1 EXCEPT !.str = x] = [has |-> h, str |-> x, unknown |-> m.unknown]
    BY <2>1
  <2> QED
    BY <2>2, <2>3, <2>4, Zenon
<1>3. \A w : SetField(m, f, w) = Changed(m, m.has \cup {f}, f, w)
  BY <1>2 DEF SetField, Changed, MessageWith
<1>4. MutableField(m, f) = Changed(m, m.has \cup {f}, f, Field(m, f))
  BY <1>3 DEF MutableField
<1>5. ClearField(m, f) = Changed(m, m.has \ {f}, f,
                                 IF m.str[f] = DefaultString THEN DefaultString ELSE <<>>)
  BY <1>2 DEF ClearField, Changed, MessageWith
<1>6. ReleaseField(m, f) = Changed(m, m.has \ {f}, f, DefaultString)
  BY <1>2 DEF ReleaseField, Changed, MessageWith
<1>7. SetAllocated(m, f, v) = Changed(m, IF v = DefaultString THEN m.has \ {f}
                                         ELSE m.has \cup {f}, f, v)
  BY <1>2 DEF SetAllocated, Changed, MessageWith
<1> QED
  BY <1>3, <1>4, <1>5, <1>6, <1>7, Zenon DEF FieldCallsChangeOnly

\* set_: the message says the new value.
LEMMA SetSays ==
    ASSUME NEW type, NEW m, NEW sd, Says(type, m, sd), NEW f \in type, NEW v \in Texts
    PROVE  Says(type, Changed(m, m.has \cup {f}, f, v),
                [g \in DOMAIN sd \cup {f} |-> IF g = f THEN v ELSE sd[g]])
<1> DEFINE st == [m.str EXCEPT ![f] = v]
           h == m.has \cup {f}
           s2 == [g \in DOMAIN sd \cup {f} |-> IF g = f THEN v ELSE sd[g]]
<1>1. /\ m.has \in SUBSET type /\ m.str \in [type -> Texts \cup {DefaultString}]
      /\ m.unknown \in Unknowns /\ DOMAIN sd = m.has
      /\ \A g \in m.has : m.str[g] # DefaultString /\ m.str[g] = sd[g]
      /\ \A g \in type \ m.has : m.str[g] = <<>> \/ m.str[g] = DefaultString
  BY SaysParts
<1>2. st \in [type -> Texts \cup {DefaultString}] /\ \A g \in type : st[g] = IF g = f THEN v ELSE m.str[g]
  BY <1>1
<1>3. DOMAIN s2 = h /\ \A g \in h : s2[g] = IF g = f THEN v ELSE sd[g]
  BY <1>1
<1> HIDE DEF st, s2
<1>4. \A g \in h : st[g] # DefaultString /\ st[g] = s2[g]
  BY <1>1, <1>2, <1>3, DefaultIsNoText
<1>5. \A g \in type \ h : st[g] = <<>> \/ st[g] = DefaultString
  BY <1>1, <1>2
<1>6. h \in SUBSET type
  BY <1>1
<1> HIDE DEF h
<1> QED
  BY <1>1, <1>2, <1>3, <1>4, <1>5, <1>6, SaysIf DEF Changed, st, h, s2

\* release_ and clear_: it says none.
LEMMA TakenSays ==
    ASSUME NEW type, NEW m, NEW sd, Says(type, m, sd), NEW f \in type, NEW v \in {<<>>, DefaultString}
    PROVE  Says(type, Changed(m, m.has \ {f}, f, v), [g \in DOMAIN sd \ {f} |-> sd[g]])
<1> DEFINE st == [m.str EXCEPT ![f] = v]
           h == m.has \ {f}
           s2 == [g \in DOMAIN sd \ {f} |-> sd[g]]
<1>1. /\ m.has \in SUBSET type /\ m.str \in [type -> Texts \cup {DefaultString}]
      /\ m.unknown \in Unknowns /\ DOMAIN sd = m.has
      /\ \A g \in m.has : m.str[g] # DefaultString /\ m.str[g] = sd[g]
      /\ \A g \in type \ m.has : m.str[g] = <<>> \/ m.str[g] = DefaultString
  BY SaysParts
<1>2. st \in [type -> Texts \cup {DefaultString}] /\ \A g \in type : st[g] = IF g = f THEN v ELSE m.str[g]
  BY <1>1, DefaultIsNoText
<1>3. DOMAIN s2 = h /\ \A g \in h : s2[g] = sd[g]
  BY <1>1
<1> HIDE DEF st, s2
<1>4. \A g \in h : st[g] # DefaultString /\ st[g] = s2[g]
  BY <1>1, <1>2, <1>3
<1>5. \A g \in type \ h : st[g] = <<>> \/ st[g] = DefaultString
  BY <1>1, <1>2
<1>6. h \in SUBSET type
  BY <1>1
<1> HIDE DEF h
<1> QED
  BY <1>1, <1>2, <1>3, <1>4, <1>5, <1>6, SaysIf DEF Changed, st, h, s2

\* A new message says nothing.
LEMMA NewSays ==
    ASSUME NEW type
    PROVE  Says(type, New(type), <<>>)
<1> DEFINE st == [f \in type |-> DefaultString]
<1>1. New(type) = MessageWith({}, st, <<>>)
  BY DEF New, MessageWith
<1>2. st \in [type -> Texts \cup {DefaultString}] /\ \A f \in type : st[f] = DefaultString
  OBVIOUS
<1>3. DOMAIN <<>> = {} /\ {} \in SUBSET type /\ <<>> \in Unknowns
  BY DEF Unknowns
<1> HIDE DEF st
<1>4. Says(type, MessageWith({}, st, <<>>), <<>>)
  <2>1. \A f \in type \ {} : st[f] = <<>> \/ st[f] = DefaultString
    BY <1>2
  <2> QED
    BY <1>2, <1>3, <2>1, SaysIf
<1> QED
  BY <1>1, <1>4

\* Nor does one after Clear.
LEMMA ClearSays ==
    ASSUME NEW type, NEW m, NEW sd, Says(type, m, sd)
    PROVE  Says(type, MessageClear(m), <<>>) /\ MessageClear(m).unknown = <<>>
           /\ MessageClear(m).has = {}
<1> DEFINE st == [f \in DOMAIN m.str |-> IF f \in m.has THEN <<>> ELSE m.str[f]]
<1>1. /\ m.str \in [type -> Texts \cup {DefaultString}] /\ DOMAIN m.str = type
      /\ \A f \in type \ m.has : m.str[f] = <<>> \/ m.str[f] = DefaultString
  BY SaysParts
<1>2. MessageClear(m) = MessageWith({}, st, <<>>)
  BY DEF MessageClear, MessageWith
<1>3. /\ st \in [type -> Texts \cup {DefaultString}]
      /\ \A f \in type : st[f] = <<>> \/ st[f] = DefaultString
  BY <1>1, DefaultIsNoText
<1>4. DOMAIN <<>> = {} /\ {} \in SUBSET type /\ <<>> \in Unknowns
  BY DEF Unknowns
<1> HIDE DEF st
<1>5. Says(type, MessageWith({}, st, <<>>), <<>>)
  <2>1. \A f \in type \ {} : st[f] = <<>> \/ st[f] = DefaultString
    BY <1>3
  <2> QED
    BY <1>3, <1>4, <2>1, SaysIf
<1>6. MessageWith({}, st, <<>>).unknown = <<>> /\ MessageWith({}, st, <<>>).has = {}
  BY MessageParts
<1> QED
  BY <1>2, <1>5, <1>6

\* MergeFrom: the other one's fields, where it has them.
LEMMA MergeSays ==
    ASSUME NEW type, NEW m, NEW sd, Says(type, m, sd), NEW n, NEW sn, Says(type, n, sn),
           m.unknown \o n.unknown \in Unknowns
    PROVE  Says(type, MergeFrom(m, n), Override(sd, sn))
<1> DEFINE st == [f \in DOMAIN m.str |-> IF f \in n.has THEN n.str[f] ELSE m.str[f]]
           h == m.has \cup n.has
           u == m.unknown \o n.unknown
           s2 == Override(sd, sn)
<1>1. /\ m.has \in SUBSET type /\ m.str \in [type -> Texts \cup {DefaultString}] /\ DOMAIN m.str = type
      /\ DOMAIN sd = m.has
      /\ \A g \in m.has : m.str[g] # DefaultString /\ m.str[g] = sd[g]
      /\ \A g \in type \ m.has : m.str[g] = <<>> \/ m.str[g] = DefaultString
  BY SaysParts
<1>2. /\ n.has \in SUBSET type /\ n.str \in [type -> Texts \cup {DefaultString}]
      /\ DOMAIN sn = n.has
      /\ \A g \in n.has : n.str[g] # DefaultString /\ n.str[g] = sn[g]
  BY SaysParts
<1>3. MergeFrom(m, n) = MessageWith(h, st, u)
  BY DEF MergeFrom, MessageWith
<1>4. /\ st \in [type -> Texts \cup {DefaultString}]
      /\ \A f \in type : st[f] = IF f \in n.has THEN n.str[f] ELSE m.str[f]
  BY <1>1, <1>2
<1>5. DOMAIN s2 = h /\ \A f \in h : s2[f] = IF f \in n.has THEN sn[f] ELSE sd[f]
  BY <1>1, <1>2 DEF Override
<1> HIDE DEF st, s2
<1>6. \A g \in h : st[g] # DefaultString /\ st[g] = s2[g]
  BY <1>1, <1>2, <1>4, <1>5
<1>7. \A g \in type \ h : st[g] = <<>> \/ st[g] = DefaultString
  BY <1>1, <1>4
<1>8. h \in SUBSET type /\ u \in Unknowns
  BY <1>1, <1>2
<1> HIDE DEF h, u
<1>9. Says(type, MessageWith(h, st, u), s2)
  BY <1>4, <1>5, <1>6, <1>7, <1>8, SaysIf
<1> QED
  BY <1>3, <1>9 DEF s2

\* The bytes of a message depend on what it has only.
LEMMA SameBytes ==
    ASSUME NEW m, NEW n, m.has = n.has, m.unknown = n.unknown,
           \A f \in m.has : Field(m, f) = Field(n, f)
    PROVE  Serialize(m) = Serialize(n)
<1>1. \A f : (IF f \in m.has THEN Delimited(m, f) ELSE <<>>)
             = (IF f \in n.has THEN Delimited(n, f) ELSE <<>>)
  BY Zenon DEF Delimited
<1> DEFINE Q(f) == IF f \in m.has THEN Delimited(m, f) ELSE <<>>
           R(f) == IF f \in n.has THEN Delimited(n, f) ELSE <<>>
<1>2. Serialize(m) = ((Q(1) \o Q(2)) \o Q(3)) \o m.unknown
  BY DEF Serialize
<1>3. Serialize(n) = ((R(1) \o R(2)) \o R(3)) \o n.unknown
  BY DEF Serialize
<1>4. \A f : Q(f) = R(f)
  BY <1>1, Zenon
<1> HIDE DEF Q, R
<1> QED
  BY <1>2, <1>3, <1>4, Zenon

\* A message parses what another one of its type is serialized to, if that
\* has all fields.
\* r is what parsing the bytes of m gives.
ReadBack(type, r, m, sm) ==
    /\ r.ok = IsInitialized(m)
    /\ r.ok => Says(type, r.m, sm) /\ r.m.unknown = m.unknown

\* What is parsed of what was serialized says the same.
LEMMA ParseSerialized ==
    ASSUME NEW type \in SUBSET (1 .. 3), NEW m, NEW sm, Says(type, m, sm),
           NEW n, NEW sn, Says(type, n, sn)
    PROVE  ReadBack(type, Parse(n, Serialize(m)), m, sm)
<1> DEFINE s == Serialize(m)
           c == MessageClear(n)
           p == Fields(type)[s]
           q == MergePartial(c, s)
           r == Parse(n, s)
<1>1. m \in MessagesOf(type) /\ DOMAIN m.str = type /\ m.has \in SUBSET type
  <2>1. m \in MessagesOf(type)
    BY DEF Says
  <2> QED
    BY <2>1, SaysParts
<1>2. Says(type, c, <<>>) /\ c.unknown = <<>> /\ c.has = {}
  BY ClearSays
<1>3. DOMAIN c.str = type /\ c.str \in [type -> Texts \cup {DefaultString}]
      /\ \A f \in type : c.str[f] = <<>> \/ c.str[f] = DefaultString
  <2> HIDE DEF c
  <2> QED
    BY <1>2, SaysParts
<1>4. PICK k : /\ p = Parsed(k, m.unknown)
               /\ DOMAIN k = m.has \cap type
               /\ \A g \in m.has \cap type : k[g] = Field(m, g)
  BY <1>1, SerializedIsFound DEF FoundIn
<1> DEFINE st == [f \in type |-> IF f \in DOMAIN k THEN k[f] ELSE c.str[f]]
           w == MessageWith(m.has, st, m.unknown)
<1>5. DOMAIN k = m.has /\ p.ok /\ p.known = k /\ p.unknown = m.unknown
  <2>1. DOMAIN k = m.has
    BY <1>1, <1>4
  <2> HIDE DEF p
  <2> QED
    BY <1>4, <2>1, ParsedFields
<1>6. q = [ok |-> TRUE, m |-> w]
  <2>1. <<>> \o m.unknown = m.unknown
    <3>1. m.unknown \in Bytes
      BY <1>1, LaterParsed, BytesAre DEF MessagesOf, Unknowns
    <3> QED
      BY <3>1, ConcatEmptySeq DEF Bytes
  <2>2. {} \cup m.has = m.has
    OBVIOUS
  <2>3. q = IF ~ p.ok THEN NotParsed(c)
            ELSE [ok |-> TRUE,
                  m |-> [has |-> c.has \cup DOMAIN p.known,
                         str |-> [f \in type |-> IF f \in DOMAIN p.known THEN p.known[f] ELSE c.str[f]],
                         unknown |-> c.unknown \o p.unknown]]
    <3> HIDE DEF c, s
    <3> QED
      BY <1>3, Zenon DEF MergePartial
  <2> HIDE DEF p, c, q, s
  <2>4. q = [ok |-> TRUE,
             m |-> [has |-> {} \cup m.has, str |-> st, unknown |-> <<>> \o m.unknown]]
    BY <1>2, <1>5, <2>3, Zenon
  <2> QED
    BY <2>1, <2>2, <2>4, Zenon DEF MessageWith
<1>7. w.has = m.has /\ w.str = st /\ w.unknown = m.unknown
  BY MessageParts
<1>8. DOMAIN st = type
  OBVIOUS
<1>9. IsInitialized(w) <=> IsInitialized(m)
  <2> HIDE DEF w, st
  <2> QED
    BY <1>1, <1>7, <1>8 DEF IsInitialized
<1>10. r = IF q.ok /\ IsInitialized(q.m) THEN q ELSE NotParsed(n)
  <2> HIDE DEF s
  <2> QED
    BY Zenon DEF Parse
<1> HIDE DEF w
<1>11. q.ok /\ q.m = w
  <2> HIDE DEF q
  <2> QED
    BY <1>6
<1>12. ~ NotParsed(n).ok
  BY DEF NotParsed
<1>13. Says(type, w, sm)
  <2>1. /\ m.has \in SUBSET type /\ m.unknown \in Unknowns /\ DOMAIN sm = m.has
        /\ \A f \in m.has : m.str[f] # DefaultString /\ m.str[f] = sm[f] /\ m.str[f] \in Texts
    BY SaysParts
  <2>2. \A f \in m.has : k[f] = m.str[f]
    BY <1>1, <1>4, <2>1 DEF Field
  <2>3. \A f \in type : st[f] = IF f \in m.has THEN m.str[f] ELSE c.str[f]
    <3> HIDE DEF c
    <3> QED
      BY <1>5, <2>2
  <2>4. st \in [type -> Texts \cup {DefaultString}]
    <3>1. \A f \in type : st[f] \in Texts \cup {DefaultString}
      <4> HIDE DEF st, c
      <4> QED
        BY <1>3, <2>1, <2>3
    <3> QED
      BY <3>1
  <2> HIDE DEF st, c
  <2>5. \A f \in m.has : st[f] # DefaultString /\ st[f] = sm[f]
    BY <2>1, <2>3
  <2>6. \A f \in type \ m.has : st[f] = <<>> \/ st[f] = DefaultString
    BY <1>3, <2>3
  <2> QED
    BY <2>1, <2>4, <2>5, <2>6, SaysIf DEF w
<1> HIDE DEF q, r, s, p, c, st
<1>14. CASE IsInitialized(m)
  <2>1. r = q
    BY <1>9, <1>10, <1>11, <1>14, Zenon
  <2>2. r.ok = TRUE
    BY <1>6, <2>1
  <2>3. IsInitialized(m) = TRUE
    BY <1>14 DEF IsInitialized
  <2>4. r.m = w
    BY <1>11, <2>1
  <2>5. /\ r.ok = IsInitialized(m)
        /\ r.ok => Says(type, r.m, sm) /\ r.m.unknown = m.unknown
    BY <1>7, <1>13, <2>2, <2>3, <2>4, Zenon
  <2> QED
    BY <2>5, Zenon DEF ReadBack, r, s
<1>15. CASE ~ IsInitialized(m)
  <2>1. r = NotParsed(n)
    BY <1>9, <1>10, <1>11, <1>15, Zenon
  <2>2. r.ok = FALSE
    BY <2>1 DEF NotParsed
  <2>3. IsInitialized(m) = FALSE
    BY <1>15 DEF IsInitialized
  <2>5. /\ r.ok = IsInitialized(m)
        /\ r.ok => Says(type, r.m, sm) /\ r.m.unknown = m.unknown
    BY <2>2, <2>3, Zenon
  <2> QED
    BY <2>5, Zenon DEF ReadBack, r, s
<1> QED
  BY <1>14, <1>15

-----------------------------------------------------------------------------
(* Two messages of a type say what they were told.                         *)

SaysAll(type, ms, sd) ==
    /\ ms = [o \in MessageObjects |-> ms[o]] /\ sd = [o \in MessageObjects |-> sd[o]]
    /\ \A o \in MessageObjects : Says(type, ms[o], sd[o])

MessageTypes == {RpcRequest, EchoRequest}
MessageInv == \E type \in MessageTypes : SaysAll(type, msg, said)

\* The types have fields 1 to 3 at most.
LEMMA TypesAre == \A type \in MessageTypes : type \in SUBSET (1 .. 3)
  BY DEF MessageTypes, RpcRequest, EchoRequest

\* A call that leaves one message saying what is meant.
LEMMA CallsKeep ==
    ASSUME NEW type, SaysAll(type, msg, said), NEW o \in MessageObjects, NEW m, NEW meant,
           Says(type, m, meant), Calls(o, m, meant)
    PROVE  SaysAll(type, msg', said')
<1>1. msg' = [msg EXCEPT ![o] = m] /\ said' = [said EXCEPT ![o] = meant]
  BY DEF Calls
<1>2. DOMAIN msg = MessageObjects /\ DOMAIN said = MessageObjects
  BY DEF SaysAll
<1>3. /\ msg' = [p \in MessageObjects |-> IF p = o THEN m ELSE msg[p]]
      /\ said' = [p \in MessageObjects |-> IF p = o THEN meant ELSE said[p]]
  BY <1>1, <1>2
<1>4. \A p \in MessageObjects : /\ msg'[p] = IF p = o THEN m ELSE msg[p]
                                /\ said'[p] = IF p = o THEN meant ELSE said[p]
  BY <1>3
<1>5. \A p \in MessageObjects : Says(type, msg'[p], said'[p])
  BY <1>4 DEF SaysAll
<1>6. msg' = [p \in MessageObjects |-> msg'[p]] /\ said' = [p \in MessageObjects |-> said'[p]]
  BY <1>3
<1> QED
  BY <1>5, <1>6 DEF SaysAll

\* Calls on one field keep the invariant.
LEMMA FieldCallsKeep ==
    ASSUME NEW type \in MessageTypes, SaysAll(type, msg, said), NEW o \in MessageObjects, FieldCalls(o)
    PROVE  SaysAll(type, msg', said')
<1> DEFINE m == msg[o]
           sd == said[o]
<1>1. Says(type, m, sd)
  BY DEF SaysAll
<1>2. m \in MessagesOf(type) /\ DOMAIN m.str = type /\ DOMAIN sd = m.has
  <2>1. m \in MessagesOf(type)
    BY <1>1 DEF Says
  <2> HIDE DEF m, sd
  <2> QED
    BY <1>1, <2>1, SaysParts
<1>3. PICK f \in type :
        \/ \E v \in Payloads : Calls(o, SetField(m, f, v), With(o, f, v))
        \/ Calls(o, MutableField(m, f), With(o, f, IF f \in DOMAIN sd THEN sd[f] ELSE <<>>))
        \/ Calls(o, ClearField(m, f), WithoutField(o, f))
        \/ Calls(o, ReleaseField(m, f), WithoutField(o, f))
        \/ \E v \in Payloads : Calls(o, SetAllocated(m, f, v), With(o, f, v))
        \/ Calls(o, SetAllocated(m, f, DefaultString), WithoutField(o, f))
  BY <1>2 DEF FieldCalls
<1>4. ASSUME NEW v \in Texts PROVE Says(type, Changed(m, m.has \cup {f}, f, v), With(o, f, v))
  <2>1. With(o, f, v) = [g \in DOMAIN sd \cup {f} |-> IF g = f THEN v ELSE sd[g]]
    BY DEF With
  <2> HIDE DEF m, sd
  <2> QED
    BY <1>1, <2>1, SetSays
<1>5. ASSUME NEW v \in {<<>>, DefaultString}
      PROVE  Says(type, Changed(m, m.has \ {f}, f, v), WithoutField(o, f))
  <2>1. WithoutField(o, f) = [g \in DOMAIN sd \ {f} |-> sd[g]]
    BY DEF WithoutField
  <2> HIDE DEF m, sd
  <2> QED
    BY <1>1, <2>1, TakenSays
<1>6. Payloads \subseteq Texts
  BY PayloadAssumption DEF Texts, Bytes, TextLimit
<1> HIDE DEF m, sd
<1>13. \A v : FieldCallsChangeOnly(m, f, v)
  <2>1. m \in MessagesOf(type)
    BY <1>2
  <2> QED
    BY <2>1, FieldCallsChange, Zenon
<1>7. CASE \E v \in Payloads : Calls(o, SetField(m, f, v), With(o, f, v))
  <2>1. PICK v \in Payloads : Calls(o, SetField(m, f, v), With(o, f, v))
    BY <1>7
  <2>2. SetField(m, f, v) = Changed(m, m.has \cup {f}, f, v)
    BY <1>13, Zenon DEF FieldCallsChangeOnly
  <2>3. Says(type, SetField(m, f, v), With(o, f, v))
    BY <1>4, <1>6, <2>2
  <2> QED
    BY <2>1, <2>3, CallsKeep
<1>8. CASE Calls(o, MutableField(m, f), With(o, f, IF f \in DOMAIN sd THEN sd[f] ELSE <<>>))
  <2> DEFINE v == IF f \in DOMAIN sd THEN sd[f] ELSE <<>>
  <2>1. MutableField(m, f) = Changed(m, m.has \cup {f}, f, Field(m, f))
    BY <1>13, Zenon DEF FieldCallsChangeOnly
  <2>2. v = Field(m, f)
    <3>1. CASE f \in m.has
      BY <1>1, <1>2, <3>1 DEF Says, Field
    <3>2. CASE f \notin m.has
      BY <1>1, <1>2, <3>2 DEF Says
    <3> QED
      BY <3>1, <3>2
  <2>3. Field(m, f) \in Texts
    BY <1>2, FieldIsText
  <2> HIDE DEF v
  <2>4. Says(type, MutableField(m, f), With(o, f, v))
    BY <1>4, <2>1, <2>2, <2>3
  <2>5. Calls(o, MutableField(m, f), With(o, f, v))
    BY <1>8 DEF v
  <2> QED
    BY <2>4, <2>5, CallsKeep
<1>9. CASE Calls(o, ClearField(m, f), WithoutField(o, f))
  <2> DEFINE v == IF m.str[f] = DefaultString THEN DefaultString ELSE <<>>
  <2>1. ClearField(m, f) = Changed(m, m.has \ {f}, f, v)
    BY <1>13, Zenon DEF FieldCallsChangeOnly
  <2>2. v \in {<<>>, DefaultString}
    OBVIOUS
  <2> HIDE DEF v
  <2>3. Says(type, ClearField(m, f), WithoutField(o, f))
    BY <1>5, <2>1, <2>2
  <2> QED
    BY <1>9, <2>3, CallsKeep
<1>10. CASE Calls(o, ReleaseField(m, f), WithoutField(o, f))
  <2>1. ReleaseField(m, f) = Changed(m, m.has \ {f}, f, DefaultString)
    BY <1>13, Zenon DEF FieldCallsChangeOnly
  <2>2. Says(type, ReleaseField(m, f), WithoutField(o, f))
    BY <1>5, <2>1
  <2> QED
    BY <1>10, <2>2, CallsKeep
<1>11. CASE \E v \in Payloads : Calls(o, SetAllocated(m, f, v), With(o, f, v))
  <2>1. PICK v \in Payloads : Calls(o, SetAllocated(m, f, v), With(o, f, v))
    BY <1>11
  <2>2. v \in Texts /\ v # DefaultString
    BY <1>6, DefaultIsNoText
  <2>3. SetAllocated(m, f, v) = Changed(m, m.has \cup {f}, f, v)
    BY <1>13, <2>2, Zenon DEF FieldCallsChangeOnly
  <2>4. Says(type, SetAllocated(m, f, v), With(o, f, v))
    BY <1>4, <2>2, <2>3
  <2> QED
    BY <2>1, <2>4, CallsKeep
<1>12. CASE Calls(o, SetAllocated(m, f, DefaultString), WithoutField(o, f))
  <2>1. SetAllocated(m, f, DefaultString) = Changed(m, m.has \ {f}, f, DefaultString)
    BY <1>13, Zenon DEF FieldCallsChangeOnly
  <2>2. Says(type, SetAllocated(m, f, DefaultString), WithoutField(o, f))
    BY <1>5, <2>1
  <2> QED
    BY <1>12, <2>2, CallsKeep
<1> QED
  BY <1>3, <1>7, <1>8, <1>9, <1>10, <1>11, <1>12

\* Unknown fields are bytes.
LEMMA UnknownsFacts ==
    /\ LaterField \in Bytes /\ Len(LaterField) = 3
    /\ \A u \in Unknowns : u \in Bytes /\ u \o <<>> = u /\ <<>> \o u = u
    /\ \A u, w \in Unknowns : Len(u \o w) <= 3 => u \o w \in Unknowns
<1>1. LaterField \in Bytes /\ Len(LaterField) = 3 /\ <<>> \in Bytes
  BY BytesAre DEF LaterField, Bytes
<1>2. \A u \in Unknowns : u \in Bytes
  BY <1>1 DEF Unknowns
<1>3. \A u \in Unknowns : u \o <<>> = u /\ <<>> \o u = u
  BY <1>2, ConcatEmptySeq DEF Bytes
<1>4. ASSUME NEW u \in Unknowns, NEW w \in Unknowns, Len(u \o w) <= 3 PROVE u \o w \in Unknowns
  <2>1. CASE u = <<>>
    BY <1>3, <2>1
  <2>2. CASE w = <<>>
    BY <1>3, <2>2
  <2>3. CASE u = LaterField /\ w = LaterField
    <3>1. Len(u \o w) = Len(u) + Len(w)
      BY <1>2, BytesConcat
    <3>2. Len(u) = 3 /\ Len(w) = 3
      BY <1>1, <2>3
    <3> QED
      BY <1>4, <3>1, <3>2
  <2> QED
    BY <2>1, <2>2, <2>3 DEF Unknowns
<1> QED
  BY <1>1, <1>2, <1>3, <1>4

\* So do the calls on a message.
LEMMA MessageCallsKeep ==
    ASSUME NEW type \in MessageTypes, SaysAll(type, msg, said),
           NEW o \in MessageObjects, NEW p \in MessageObjects, MessageCalls(o, p)
    PROVE  SaysAll(type, msg', said')
<1>1. Says(type, msg[o], said[o]) /\ Says(type, msg[p], said[p])
  BY DEF SaysAll
<1>2. msg[o].unknown \in Unknowns /\ msg[p].unknown \in Unknowns
  BY <1>1, SaysParts
<1>3. CASE Calls(o, MessageClear(msg[o]), <<>>)
  <2>1. Says(type, MessageClear(msg[o]), <<>>)
    BY <1>1, ClearSays
  <2> QED
    BY <1>3, <2>1, CallsKeep
<1>4. CASE /\ Len(msg[o].unknown \o msg[p].unknown) <= 3
           /\ Calls(o, MergeFrom(msg[o], msg[p]), Override(said[o], said[p]))
  <2>1. msg[o].unknown \o msg[p].unknown \in Unknowns
    BY <1>2, <1>4, UnknownsFacts
  <2>2. Says(type, MergeFrom(msg[o], msg[p]), Override(said[o], said[p]))
    BY <1>1, <2>1, MergeSays
  <2> QED
    BY <1>4, <2>2, CallsKeep
<1>5. CASE Calls(o, CopyFrom(msg[o], msg[p]), said[p])
  <2> DEFINE c == MessageClear(msg[o])
             n == msg[p]
             sn == said[p]
             s2 == Override(<<>>, sn)
  <2>1. Says(type, c, <<>>) /\ c.unknown = <<>>
    BY <1>1, ClearSays
  <2>2. CopyFrom(msg[o], n) = MergeFrom(c, n)
    BY DEF CopyFrom
  <2>3. Says(type, n, sn)
    BY <1>1
  <2> HIDE DEF c, n, sn
  <2>4. c.unknown \o n.unknown \in Unknowns
    BY <1>2, <2>1, UnknownsFacts DEF n
  <2>5. Says(type, MergeFrom(c, n), s2)
    BY <2>1, <2>3, <2>4, MergeSays
  <2>6. DOMAIN s2 = DOMAIN sn /\ \A f \in DOMAIN sn : s2[f] = sn[f]
    BY DEF Override
  <2> HIDE DEF s2
  <2>7. Says(type, MergeFrom(c, n), sn)
    BY <2>5, <2>6 DEF Says
  <2> QED
    BY <1>5, <2>2, <2>7, CallsKeep DEF n, sn
<1>6. CASE /\ msg' = [msg EXCEPT ![o] = msg[p], ![p] = msg[o]]
           /\ said' = [said EXCEPT ![o] = said[p], ![p] = said[o]]
           /\ o # p
  <2>1. DOMAIN msg = MessageObjects /\ DOMAIN said = MessageObjects
    BY DEF SaysAll
  <2>2. /\ msg' = [q \in MessageObjects |-> IF q = p THEN msg[o] ELSE IF q = o THEN msg[p] ELSE msg[q]]
        /\ said' = [q \in MessageObjects |-> IF q = p THEN said[o] ELSE IF q = o THEN said[p] ELSE said[q]]
    BY <1>6, <2>1
  <2>3. \A q \in MessageObjects : Says(type, msg'[q], said'[q])
    BY <1>1, <2>2 DEF SaysAll
  <2>4. msg' = [q \in MessageObjects |-> msg'[q]] /\ said' = [q \in MessageObjects |-> said'[q]]
    BY <2>2
  <2> QED
    BY <2>3, <2>4 DEF SaysAll
<1> QED
  BY <1>3, <1>4, <1>5, <1>6 DEF MessageCalls

\* The unknown fields do not matter to Says.
LEMMA OtherUnknown ==
    ASSUME NEW type, NEW m, NEW sd, Says(type, m, sd), NEW u \in Unknowns
    PROVE  Says(type, [m EXCEPT !.unknown = u], sd) /\ IsInitialized([m EXCEPT !.unknown = u]) = IsInitialized(m)
<1>1. /\ m = MessageWith(m.has, m.str, m.unknown)
      /\ m.has \in SUBSET type /\ m.str \in [type -> Texts \cup {DefaultString}]
      /\ DOMAIN sd = m.has /\ DOMAIN m.str = type
      /\ \A f \in m.has : m.str[f] # DefaultString /\ m.str[f] = sd[f]
      /\ \A f \in type \ m.has : m.str[f] = <<>> \/ m.str[f] = DefaultString
  BY SaysParts
<1>2. m = [has |-> m.has, str |-> m.str, unknown |-> m.unknown]
  BY <1>1 DEF MessageWith
<1>3. [m EXCEPT !.unknown = u] = MessageWith(m.has, m.str, u)
  BY <1>2 DEF MessageWith
<1>4. Says(type, MessageWith(m.has, m.str, u), sd)
  BY <1>1, SaysIf
<1>5. MessageWith(m.has, m.str, u).has = m.has /\ MessageWith(m.has, m.str, u).str = m.str
  BY MessageParts
<1> QED
  BY <1>3, <1>4, <1>5 DEF IsInitialized

\* So does ParseFromArray.
LEMMA ParseCallKeeps ==
    ASSUME NEW type \in MessageTypes, SaysAll(type, msg, said),
           NEW o \in MessageObjects, NEW p \in MessageObjects, ParseCall(o, p)
    PROVE  SaysAll(type, msg', said')
<1>1. Says(type, msg[o], said[o]) /\ Says(type, msg[p], said[p]) /\ type \in SUBSET (1 .. 3)
  BY TypesAre DEF SaysAll
<1>2. PICK u \in 1 .. 2 :
        LET r == Parse(msg[o], Serialize([msg[p] EXCEPT !.unknown = Unknown[u]])) IN
        IF r.ok THEN Calls(o, r.m, said[p]) ELSE Calls(o, New(DOMAIN msg[o].str), <<>>)
  BY DEF ParseCall
<1> DEFINE m == [msg[p] EXCEPT !.unknown = Unknown[u]]
           r == Parse(msg[o], Serialize(m))
<1>3. IF r.ok THEN Calls(o, r.m, said[p]) ELSE Calls(o, New(DOMAIN msg[o].str), <<>>)
  BY <1>2, Zenon
<1>4. Unknown[u] \in Unknowns
  BY DEF Unknown, Unknowns, LaterField
<1>5. Says(type, m, said[p])
  BY <1>1, <1>4, OtherUnknown
<1> HIDE DEF m
<1>6. r.ok => Says(type, r.m, said[p])
  <2>1. ReadBack(type, r, m, said[p])
    BY <1>1, <1>5, ParseSerialized, Zenon
  <2> HIDE DEF r
  <2> QED
    BY <2>1 DEF ReadBack
<1> HIDE DEF r
<1>7. CASE r.ok
  BY <1>3, <1>6, <1>7, CallsKeep
<1>8. CASE ~ r.ok
  <2>1. DOMAIN msg[o].str = type
    BY <1>1, SaysParts
  <2>2. Calls(o, New(type), <<>>)
    BY <1>3, <1>8, <2>1
  <2>3. Says(type, New(type), <<>>)
    BY NewSays
  <2> QED
    BY <2>2, <2>3, CallsKeep
<1> QED
  BY <1>7, <1>8

\* Every step keeps the invariant.
LEMMA MessageStep == MessageInv /\ [MessageNext]_messageVars => MessageInv'
<1> SUFFICES ASSUME MessageInv, [MessageNext]_messageVars PROVE MessageInv'
  OBVIOUS
<1>1. PICK type \in MessageTypes : SaysAll(type, msg, said)
  BY DEF MessageInv
<1>2. CASE MessageNext
  <2>1. PICK o, p \in MessageObjects : FieldCalls(o) \/ MessageCalls(o, p) \/ ParseCall(o, p)
    BY <1>2 DEF MessageNext
  <2>2. SaysAll(type, msg', said')
    BY <1>1, <2>1, FieldCallsKeep, MessageCallsKeep, ParseCallKeeps
  <2> QED
    BY <2>2 DEF MessageInv
<1>3. CASE UNCHANGED messageVars
  BY <1>1, <1>3 DEF MessageInv, messageVars
<1> QED
  BY <1>2, <1>3

\* It holds of new messages.
LEMMA MessageStart == MessageInit => MessageInv
<1> SUFFICES ASSUME MessageInit PROVE MessageInv
  OBVIOUS
<1>1. PICK type \in MessageTypes : msg = [o \in MessageObjects |-> New(type)]
  BY DEF MessageInit, MessageTypes
<1>2. said = [o \in MessageObjects |-> <<>>]
  BY DEF MessageInit
<1>3. \A o \in MessageObjects : msg[o] = New(type) /\ said[o] = <<>>
  BY <1>1, <1>2
<1>4. \A o \in MessageObjects : Says(type, msg[o], said[o])
  BY <1>3, NewSays
<1>5. SaysAll(type, msg, said)
  BY <1>1, <1>2, <1>4 DEF SaysAll
<1> QED
  BY <1>5 DEF MessageInv

\* It implies the first property,
LEMMA SaysWhatWasSet == MessageInv => MessageSaysWhatWasSet
<1> SUFFICES ASSUME NEW type \in MessageTypes, SaysAll(type, msg, said)
             PROVE  MessageSaysWhatWasSet
  BY DEF MessageInv
<1>1. ASSUME NEW o \in MessageObjects
      PROVE  /\ msg[o].has = DOMAIN said[o]
             /\ \A f \in msg[o].has : Field(msg[o], f) = said[o][f] /\ msg[o].str[f] # DefaultString
  <2>1. Says(type, msg[o], said[o])
    BY DEF SaysAll
  <2> QED
    BY <2>1 DEF Says, Field
<1> QED
  BY <1>1 DEF MessageSaysWhatWasSet, BitsOwnStrings

\* and the second.
LEMMA WrittenIsRead == MessageInv => RoundTrips
<1> SUFFICES ASSUME NEW type \in MessageTypes, SaysAll(type, msg, said),
                    NEW o \in MessageObjects, NEW p \in MessageObjects
             PROVE  LET s == Serialize(msg[o])
                        r == Parse(msg[p], s)
                    IN  /\ Len(s) = ByteSizeLong(msg[o])
                        /\ r.ok = IsInitialized(msg[o])
                        /\ r.ok => Serialize(r.m) = s /\ \A f \in r.m.has : Field(r.m, f) = said[o][f]
  BY DEF MessageInv, RoundTrips
<1>1. Says(type, msg[o], said[o]) /\ Says(type, msg[p], said[p]) /\ type \in SUBSET (1 .. 3)
  BY TypesAre DEF SaysAll
<1> DEFINE s == Serialize(msg[o])
           r == Parse(msg[p], s)
<1>2. Len(s) = ByteSizeLong(msg[o])
  <2>1. msg[o] \in MessagesOf(type)
    BY <1>1 DEF Says
  <2> QED
    BY <1>1, <2>1, SerializedIsFound
<1>3. /\ r.ok = IsInitialized(msg[o])
      /\ r.ok => Says(type, r.m, said[o]) /\ r.m.unknown = msg[o].unknown
  <2> HIDE DEF s, r
  <2> DEFINE m == msg[o]
             n == msg[p]
             sm == said[o]
             sn == said[p]
  <2>1. Says(type, m, sm) /\ Says(type, n, sn)
    BY <1>1
  <2>2. r = Parse(n, Serialize(m))
    BY DEF r, s
  <2> HIDE DEF m, n, sm, sn
  <2>3. ReadBack(type, Parse(n, Serialize(m)), m, sm)
    BY <1>1, <2>1, ParseSerialized, Zenon
  <2>4. r.ok = IsInitialized(m) /\ (r.ok => Says(type, r.m, sm) /\ r.m.unknown = m.unknown)
    BY <2>2, <2>3, Zenon DEF ReadBack
  <2> QED
    BY <2>4, Zenon DEF m, sm
<1> HIDE DEF r
<1>4. ASSUME r.ok
      PROVE  Serialize(r.m) = s /\ \A f \in r.m.has : Field(r.m, f) = said[o][f]
  <2> DEFINE n == r.m
  <2>1. Says(type, n, said[o]) /\ n.unknown = msg[o].unknown
    BY <1>3, <1>4
  <2> HIDE DEF n
  <2>2. n.has = DOMAIN said[o] /\ \A f \in n.has : Field(n, f) = said[o][f]
    BY <2>1 DEF Says, Field
  <2>3. msg[o].has = DOMAIN said[o] /\ \A f \in msg[o].has : Field(msg[o], f) = said[o][f]
    BY <1>1 DEF Says, Field
  <2>4. Serialize(n) = Serialize(msg[o])
    BY <2>1, <2>2, <2>3, SameBytes
  <2> QED
    BY <2>2, <2>4 DEF n
<1> QED
  BY <1>2, <1>3, <1>4, Zenon DEF r

\* Whatever is called on the messages of rpc.proto and echo_service.proto, a
\* message has the fields that were set, copied, merged or parsed into it
\* since it was cleared, with those values, in strings of its own: for any
\* strings of bytes.
THEOREM MessagesSay == MessageSpec => []MessageSaysWhatWasSet
  BY MessageStart, MessageStep, SaysWhatWasSet, PTL DEF MessageSpec

\* What SerializeWithCachedSizesToArray writes is as long as ByteSizeLong
\* said, and MergePartialFromCodedStream reads it back, if all required fields
\* are there, into a message with the same fields and the same bytes.
THEOREM MessagesRoundTrip == MessageSpec => []RoundTrips
  BY MessageStart, MessageStep, WrittenIsRead, PTL DEF MessageSpec

-----------------------------------------------------------------------------
(* Pieces of a string of bytes.                                            *)

\* Those behind the first i, up to the j-th.
Slice(s, i, j) == SubSeq(s, i + 1, j)

\* The length and the bytes of a piece.
LEMMA SliceIs ==
    ASSUME NEW s \in Bytes, NEW i \in Nat, NEW j \in Nat, i <= j, j <= Len(s)
    PROVE  /\ Slice(s, i, j) \in Bytes /\ Len(Slice(s, i, j)) = j - i
           /\ \A x \in 1 .. j - i : Slice(s, i, j)[x] = s[i + x]
<1> DEFINE m == i + 1
<1>1. m \in Nat /\ m >= 1 /\ (IF m <= j THEN j - m + 1 ELSE 0) = j - i /\ j - m + 1 = j - i
  OBVIOUS
<1>2. \A x \in 1 .. j - i : m + x - 1 = i + x
  OBVIOUS
<1> HIDE DEF m
<1>3. /\ SubSeq(s, m, j) \in Bytes
      /\ Len(SubSeq(s, m, j)) = IF m <= j THEN j - m + 1 ELSE 0
      /\ \A x \in 1 .. j - m + 1 : SubSeq(s, m, j)[x] = s[m + x - 1]
  BY <1>1, BytesPart
<1>4. Slice(s, i, j) = SubSeq(s, m, j)
  BY DEF Slice, m
<1> QED
  BY <1>1, <1>2, <1>3, <1>4

\* The whole, and nothing.
LEMMA SliceEnds ==
    ASSUME NEW s \in Bytes
    PROVE  /\ Slice(s, 0, Len(s)) = s
           /\ \A i \in Nat : i <= Len(s) => Slice(s, i, i) = <<>>
<1>1. Len(s) \in Nat /\ 0 <= Len(s) /\ Len(s) <= Len(s)
  BY BytesAre
<1>2. Slice(s, 0, Len(s)) = s
  <2> DEFINE t == Slice(s, 0, Len(s))
  <2>1. t \in Bytes /\ Len(t) = Len(s) - 0 /\ \A x \in 1 .. Len(s) - 0 : t[x] = s[0 + x]
    BY <1>1, SliceIs
  <2> HIDE DEF t
  <2>2. Len(s) - 0 = Len(s) /\ \A x \in 1 .. Len(s) : 0 + x = x
    BY <1>1
  <2>3. Len(t) = Len(s) /\ \A x \in 1 .. Len(t) : t[x] = s[x]
    BY <2>1, <2>2
  <2>4. t = s
    BY <2>1, <2>3, BytesEqual
  <2> QED
    BY <2>4 DEF t
<1>3. ASSUME NEW i \in Nat, i <= Len(s) PROVE Slice(s, i, i) = <<>>
  <2>1. Slice(s, i, i) \in Bytes /\ Len(Slice(s, i, i)) = i - i
    BY <1>3, SliceIs
  <2>2. i - i = 0
    OBVIOUS
  <2> QED
    BY <2>1, <2>2, BytesAre
<1> QED
  BY <1>2, <1>3

\* A piece is cut in two, and put together again.
LEMMA SliceCut ==
    ASSUME NEW s \in Bytes, NEW i \in Nat, NEW j \in Nat, NEW k \in Nat,
           i <= j, j <= k, k <= Len(s)
    PROVE  /\ First(Slice(s, i, k), j - i) = Slice(s, i, j)
           /\ Rest(Slice(s, i, k), j - i) = Slice(s, j, k)
           /\ Slice(s, i, j) \o Slice(s, j, k) = Slice(s, i, k)
<1> DEFINE a == Slice(s, i, j)
           b == Slice(s, j, k)
           c == Slice(s, i, k)
           m == j - i
           n == k - j
<1>0. Len(s) \in Nat /\ i <= k /\ j <= Len(s) /\ m \in Nat /\ n \in Nat /\ m + n = k - i
  BY BytesAre
<1>1. /\ a \in Bytes /\ Len(a) = m /\ \A x \in 1 .. m : a[x] = s[i + x]
      /\ b \in Bytes /\ Len(b) = n /\ \A x \in 1 .. n : b[x] = s[j + x]
  <2>1. a \in Bytes /\ Len(a) = m /\ \A x \in 1 .. m : a[x] = s[i + x]
    BY <1>0, SliceIs
  <2>2. b \in Bytes /\ Len(b) = n /\ \A x \in 1 .. n : b[x] = s[j + x]
    BY <1>0, SliceIs
  <2> QED
    BY <2>1, <2>2
<1>2. c \in Bytes /\ Len(c) = m + n /\ \A x \in 1 .. m + n : c[x] = s[i + x]
  <2>1. c \in Bytes /\ Len(c) = k - i /\ \A x \in 1 .. k - i : c[x] = s[i + x]
    BY <1>0, SliceIs
  <2> HIDE DEF c, m, n
  <2> QED
    BY <1>0, <2>1
<1>3. \A x \in 1 .. m : x \in 1 .. m + n
  BY <1>0
<1>4. \A x \in 1 .. n : m + x \in 1 .. m + n /\ i + (m + x) = j + x
  BY <1>0
<1> HIDE DEF a, b, c
<1>5. First(c, m) = a
  <2> DEFINE t == First(c, m)
  <2>1. t = SubSeq(c, 1, m)
    BY DEF First
  <2>2. 1 \in Nat /\ 1 >= 1 /\ m <= Len(c) /\ (IF 1 <= m THEN m - 1 + 1 ELSE 0) = m
        /\ m - 1 + 1 = m /\ \A x \in 1 .. m : 1 + x - 1 = x
    BY <1>0, <1>2
  <2>3. /\ SubSeq(c, 1, m) \in Bytes
        /\ Len(SubSeq(c, 1, m)) = IF 1 <= m THEN m - 1 + 1 ELSE 0
        /\ \A x \in 1 .. m - 1 + 1 : SubSeq(c, 1, m)[x] = c[1 + x - 1]
    <3> HIDE DEF m
    <3> QED
      BY <1>0, <1>2, <2>2, BytesPart
  <2> HIDE DEF t, m, n
  <2>4. t \in Bytes /\ Len(t) = m /\ \A x \in 1 .. m : t[x] = c[x]
    BY <2>1, <2>2, <2>3
  <2>5. \A x \in 1 .. m : t[x] = a[x]
    BY <1>1, <1>2, <1>3, <2>4
  <2>6. t = a
    BY <1>1, <2>4, <2>5, BytesEqual
  <2> QED
    BY <2>6 DEF t
<1>6. Rest(c, m) = b
  <2> DEFINE t == Slice(c, m, m + n)
  <2> HIDE DEF m, n
  <2>1. Rest(c, m) = t
    BY <1>2 DEF Rest, Slice
  <2>2. t \in Bytes /\ Len(t) = (m + n) - m /\ \A x \in 1 .. (m + n) - m : t[x] = c[m + x]
    <3>1. m + n \in Nat /\ m <= m + n /\ m + n <= Len(c)
      BY <1>0, <1>2
    <3> QED
      BY <1>0, <1>2, <3>1, SliceIs
  <2>3. (m + n) - m = n
    BY <1>0
  <2> HIDE DEF t
  <2>4. t \in Bytes /\ Len(t) = n /\ \A x \in 1 .. n : t[x] = c[m + x]
    BY <2>2, <2>3
  <2>5. \A x \in 1 .. n : t[x] = b[x]
    BY <1>1, <1>2, <1>4, <2>4
  <2>6. t = b
    BY <1>1, <2>4, <2>5, BytesEqual
  <2> QED
    BY <2>1, <2>6
<1>7. a \o b = c
  <2> DEFINE t == a \o b
  <2>1. /\ t \in Bytes /\ Len(t) = Len(a) + Len(b)
        /\ \A x \in 1 .. Len(a) + Len(b) : t[x] = IF x <= Len(a) THEN a[x] ELSE b[x - Len(a)]
    BY <1>1, BytesConcat
  <2> HIDE DEF t, m, n
  <2>2. Len(t) = m + n /\ \A x \in 1 .. m + n : t[x] = IF x <= m THEN a[x] ELSE b[x - m]
    BY <1>1, <2>1
  <2>3. ASSUME NEW x \in 1 .. m + n PROVE t[x] = c[x]
    <3>1. CASE x <= m
      <4>1. x \in 1 .. m
        BY <1>0, <3>1
      <4> QED
        BY <1>1, <1>2, <2>2, <3>1, <4>1
    <3>2. CASE ~ (x <= m)
      <4>1. x - m \in 1 .. n /\ m + (x - m) = x
        BY <1>0, <3>2
      <4> DEFINE y == x - m
      <4>2. t[x] = b[y]
        BY <2>2, <3>2
      <4> HIDE DEF y
      <4>3. b[y] = s[j + y] /\ i + (m + y) = j + y /\ m + y = x
        BY <1>1, <1>4, <4>1 DEF y
      <4> QED
        BY <1>2, <4>2, <4>3
    <3> QED
      BY <3>1, <3>2
  <2>4. t = c
    BY <1>2, <2>1, <2>2, <2>3, BytesEqual
  <2> QED
    BY <2>4 DEF t
<1> QED
  BY <1>5, <1>6, <1>7 DEF a, b, c, m

\* The beginning of two strings one after the other.
LEMMA SliceOfTwo ==
    ASSUME NEW s \in Bytes, NEW t \in Bytes, NEW l \in Nat, l <= Len(s) + Len(t)
    PROVE  Slice(s \o t, 0, l) = IF l < Len(s) THEN Slice(s, 0, l)
                                 ELSE s \o Slice(t, 0, l - Len(s))
<1> DEFINE w == s \o t
           h == Slice(w, 0, l)
<1>0. Len(s) \in Nat /\ Len(t) \in Nat /\ 0 <= l /\ l - 0 = l /\ \A x \in 1 .. l : 0 + x = x
  BY BytesAre
<1>1. /\ w \in Bytes /\ Len(w) = Len(s) + Len(t)
      /\ \A x \in 1 .. Len(s) + Len(t) : w[x] = IF x <= Len(s) THEN s[x] ELSE t[x - Len(s)]
  BY BytesConcat
<1> HIDE DEF w
<1>2. h \in Bytes /\ Len(h) = l /\ \A x \in 1 .. l : h[x] = w[x]
  <2>0. 0 \in Nat /\ l <= Len(w)
    BY <1>1
  <2>1. h \in Bytes /\ Len(h) = l - 0 /\ \A x \in 1 .. l - 0 : h[x] = w[0 + x]
    BY <1>0, <1>1, <2>0, SliceIs, Zenon
  <2> HIDE DEF h
  <2> QED
    BY <1>0, <2>1
<1>3. \A x \in 1 .. l : x \in 1 .. Len(s) + Len(t)
  BY <1>0
<1>4. CASE l < Len(s)
  <2> DEFINE g == Slice(s, 0, l)
  <2>0. 0 \in Nat /\ l <= Len(s)
    BY <1>0, <1>4
  <2>1. g \in Bytes /\ Len(g) = l - 0 /\ \A x \in 1 .. l - 0 : g[x] = s[0 + x]
    BY <1>0, <2>0, SliceIs, Zenon
  <2> HIDE DEF g, h
  <2>2. Len(g) = l /\ \A x \in 1 .. l : g[x] = s[x]
    BY <1>0, <2>1
  <2>3. \A x \in 1 .. l : h[x] = g[x]
    <3> TAKE x \in 1 .. l
    <3>1. x <= Len(s)
      BY <1>0, <1>4
    <3> QED
      BY <1>1, <1>2, <1>3, <2>2, <3>1
  <2>4. h = g
    BY <1>2, <2>1, <2>2, <2>3, BytesEqual
  <2> QED
    BY <1>4, <2>4 DEF h, g, w
<1>5. CASE ~ (l < Len(s))
  <2> DEFINE n == l - Len(s)
             p == Slice(t, 0, n)
             g == s \o p
  <2>0. n \in Nat /\ n <= Len(t) /\ 0 <= n /\ n - 0 = n /\ Len(s) + n = l /\ \A x \in 1 .. n : 0 + x = x
    BY <1>0, <1>5
  <2>1. p \in Bytes /\ Len(p) = n /\ \A x \in 1 .. n : p[x] = t[x]
    <3> HIDE DEF n
    <3>1. p \in Bytes /\ Len(p) = n - 0 /\ \A x \in 1 .. n - 0 : p[x] = t[0 + x]
      BY <2>0, SliceIs
    <3> HIDE DEF p
    <3> QED
      BY <2>0, <3>1
  <2> HIDE DEF p
  <2>2. /\ g \in Bytes /\ Len(g) = Len(s) + Len(p)
        /\ \A x \in 1 .. Len(s) + Len(p) : g[x] = IF x <= Len(s) THEN s[x] ELSE p[x - Len(s)]
    BY <2>1, BytesConcat
  <2> HIDE DEF g, h
  <2>3. Len(g) = l /\ \A x \in 1 .. l : g[x] = IF x <= Len(s) THEN s[x] ELSE p[x - Len(s)]
    <3>1. Len(s) + Len(p) = l
      BY <2>0, <2>1
    <3> QED
      BY <2>2, <3>1
  <2>4. ASSUME NEW x \in 1 .. l PROVE h[x] = g[x]
    <3>1. CASE x <= Len(s)
      BY <1>1, <1>2, <1>3, <2>3, <3>1
    <3>2. CASE ~ (x <= Len(s))
      <4>1. x - Len(s) \in 1 .. n
        BY <1>0, <2>0, <3>2
      <4> DEFINE y == x - Len(s)
      <4>2. h[x] = t[y] /\ g[x] = p[y]
        BY <1>1, <1>2, <1>3, <2>3, <3>2
      <4> HIDE DEF y
      <4> QED
        BY <2>1, <4>1, <4>2 DEF y
    <3> QED
      BY <3>1, <3>2
  <2>5. h = g
    BY <1>2, <2>2, <2>3, <2>4, BytesEqual
  <2> QED
    BY <1>5, <2>5, Zenon DEF h, g, w, p, n
<1> QED
  BY <1>4, <1>5

-----------------------------------------------------------------------------
(* A message that lost its end is not parsed.                              *)

Read(o, k, u) == [ok |-> o, known |-> k, unknown |-> u]

\* Parsing s fails, or field f is missing.
Lacks(type, s, f) ==
    s \in Bytes /\ \E o, k, u : Fields(type)[s] = Read(o, k, u) /\ (o = FALSE \/ (o = TRUE /\ f \notin DOMAIN k))

\* A field without its last bytes.
LEMMA PartCut ==
    ASSUME NEW type, NEW f \in 1 .. 3, NEW v \in Texts, NEW l \in Nat, l < Len(Part(f, v))
    PROVE  Lacks(type, Slice(Part(f, v), 0, l), f)
<1> DEFINE p == Part(f, v)
           s == Slice(p, 0, l)
           h == Header(f, Len(v))
           n == Len(v)
           H == Len(h)
           N == LengthSize(n)
<1>1. v \in Bytes /\ n \in Nat /\ n < TextLimit
  BY BytesAre DEF Texts
<1>2. /\ h \in Bytes /\ h[1] = 8 * f + 2 /\ H = 1 + N /\ N \in {1, 2, 3}
      /\ \A i \in 1 .. N : h[1 + i] = Varint(n)[i]
  <2> HIDE DEF n
  <2>1. h = Header(f, n)
    BY DEF n
  <2> HIDE DEF h
  <2>2. LengthSize(n) \in {1, 2, 3}
    BY <1>1, LengthIs, Zenon
  <2>3. /\ Header(f, n) \in Bytes /\ Header(f, n)[1] = 8 * f + 2
        /\ Len(Header(f, n)) = 1 + LengthSize(n)
        /\ \A i \in 1 .. LengthSize(n) : Header(f, n)[1 + i] = Varint(n)[i]
    BY <1>1, HeaderIs, Zenon
  <2> QED
    BY <2>1, <2>2, <2>3, Zenon
<1>3. p \in Bytes /\ Len(p) = H + n /\ \A i \in 1 .. H + n : p[i] = IF i <= H THEN h[i] ELSE v[i - H]
  BY <1>1, <1>2, BytesConcat DEF Part
<1> HIDE DEF p, h, n, H, N
<1>4. l < H + n /\ H \in Nat
  BY <1>2, <1>3 DEF p
<1>5. s \in Bytes /\ Len(s) = l /\ \A i \in 1 .. l : s[i] = p[i]
  <2>1. 0 \in Nat /\ 0 <= l /\ l <= Len(p)
    BY <1>1, <1>3, <1>4
  <2>2. s \in Bytes /\ Len(s) = l - 0 /\ \A i \in 1 .. l - 0 : s[i] = p[0 + i]
    BY <1>3, <2>1, SliceIs, Zenon
  <2>3. l - 0 = l /\ \A i \in 1 .. l : 0 + i = i
    OBVIOUS
  <2> HIDE DEF s
  <2> QED
    BY <2>2, <2>3
<1> HIDE DEF s
<1>6. \A i \in 1 .. l : i <= H => s[i] = h[i]
  <2> TAKE i \in 1 .. l
  <2>1. i \in 1 .. H + n
    BY <1>1, <1>4
  <2> QED
    BY <1>3, <1>5, <2>1
<1>7. CASE l = 0
  <2>1. s = <<>>
    BY <1>5, <1>7, BytesAre
  <2>2. Fields(type)[s] = Read(TRUE, <<>>, <<>>)
    BY <2>1, NothingParsed, Zenon DEF Parsed, Read
  <2>3. f \notin DOMAIN <<>>
    OBVIOUS
  <2> QED
    BY <1>5, <2>2, <2>3, Zenon DEF Lacks, s, p
<1>8. CASE l # 0
  <2>1. s # <<>> /\ s[1] = 8 * f + 2
    <3>1. 1 \in 1 .. l /\ 1 <= H
      BY <1>2, <1>8
    <3> QED
      BY <1>2, <1>5, <1>6, <1>8, <3>1, BytesAre
  <2>2. s[1] % 8 = 2
    BY <2>1, TagOf
  <2>3. ASSUME l >= 1 + N PROVE FieldLength(s) = 0
    <3>1. \A i \in 1 .. N : s[1 + i] = Varint(n)[i]
      <4> TAKE i \in 1 .. N
      <4>1. 1 + i \in 1 .. l /\ 1 + i <= H
        BY <1>2, <2>3
      <4>2. s[1 + i] = h[1 + i]
        BY <1>6, <4>1
      <4> QED
        BY <1>2, <4>2, Zenon
    <3>2. VarintSize(s) = N /\ VarintValue(s) = n
      BY <1>1, <1>5, <2>3, <3>1, LengthIsRead DEF N
    <3>3. ~ (1 + (N + n) <= Len(s)) /\ N # 0
      BY <1>1, <1>2, <1>4, <1>5
    <3>4. FieldLength(s) = 0
      BY <2>2, <3>2, <3>3 DEF FieldLength
    <3> QED
      BY <3>4
  <2>4. ASSUME ~ (l >= 1 + N) PROVE FieldLength(s) = 0
    <3>1. VarintSize(s) = 0
      <4>1. ASSUME NEW i \in 1 .. N, 1 + i <= l PROVE s[1 + i] = Varint(n)[i]
        <5>1. 1 + i \in 1 .. l /\ 1 + i <= H
          BY <1>2, <4>1
        <5>2. s[1 + i] = h[1 + i]
          BY <1>6, <5>1
        <5> QED
          BY <1>2, <5>2, Zenon
      <4>2. CASE N = 1
        BY <1>5, <1>8, <2>4, <4>2 DEF VarintSize
      <4>3. CASE N = 2
        <5> DEFINE x == Varint(n)[1]
                   a == n % 128
        <5>0. a \in Nat
          BY <1>1, DigitsOf, Zenon
        <5>1. x = 128 + a
          BY <1>1, <4>3, LengthIs, Zenon DEF N
        <5> HIDE DEF x, a
        <5>2. x \in Nat /\ ~ (x < 128)
          BY <5>0, <5>1
        <5>3. 2 <= l => s[2] = x
          <6>1. 1 \in 1 .. N /\ 1 + 1 = 2
            BY <4>3
          <6> QED
            BY <4>1, <6>1 DEF x
        <5> QED
          BY <1>5, <1>8, <2>4, <4>3, <5>2, <5>3 DEF VarintSize
      <4>4. CASE N = 3
        <5> DEFINE x == Varint(n)[1]
                   y == Varint(n)[2]
                   a == n % 128
                   b == (n \div 128) % 128
        <5>6. a \in Nat
          BY <1>1, DigitsOf, Zenon
        <5>7. b \in Nat
          BY <1>1, DigitsOf
        <5>0. a \in Nat /\ b \in Nat
          BY <5>6, <5>7, Zenon
        <5>1. x = 128 + a
          BY <1>1, <4>4, LengthIs, Zenon DEF N
        <5>2. y = 128 + b
          BY <1>1, <4>4, LengthIs, Zenon DEF N
        <5> HIDE DEF x, y, a, b
        <5>3. x \in Nat /\ ~ (x < 128) /\ y \in Nat /\ ~ (y < 128)
          BY <5>0, <5>1, <5>2
        <5>4. 2 <= l => s[2] = x
          <6>1. 1 \in 1 .. N /\ 1 + 1 = 2
            BY <4>4
          <6> QED
            BY <4>1, <6>1 DEF x
        <5>5. 3 <= l => s[3] = y
          <6>1. 2 \in 1 .. N /\ 1 + 2 = 3
            BY <4>4
          <6> QED
            BY <4>1, <6>1 DEF y
        <5> QED
          BY <1>5, <1>8, <2>4, <4>4, <5>3, <5>4, <5>5 DEF VarintSize
      <4> QED
        BY <1>2, <4>2, <4>3, <4>4
    <3>2. FieldLength(s) = 0
      BY <1>5, <2>2, <3>1 DEF FieldLength
    <3> QED
      BY <3>2
  <2>5. FieldLength(s) = 0
    BY <2>3, <2>4
  <2>6. \A rest : FieldAndRest(type, s, rest) = Read(FALSE, <<>>, <<>>)
    BY <2>1, <2>5, Zenon DEF FieldAndRest, Read
  <2>7. Fields(type)[s] = Read(FALSE, <<>>, <<>>)
    BY <1>5, <2>6, FieldsIs, Zenon
  <2> QED
    BY <1>5, <2>7, Zenon DEF Lacks, s, p
<1> QED
  BY <1>7, <1>8

\* Another field in front of them does not help.
LEMMA LacksBehind ==
    ASSUME NEW type, NEW g \in 1 .. 3, g \in type, NEW f, f # g, NEW v \in Texts, NEW t,
           Lacks(type, t, f)
    PROVE  Lacks(type, Part(g, v) \o t, f)
<1> DEFINE s == Part(g, v) \o t
           n == StringSize(v)
<1>0. t \in Bytes
  BY DEF Lacks
<1>1. /\ s \in Bytes /\ s # <<>> /\ FieldLength(s) = n /\ n # 0
      /\ s[1] % 8 = 2 /\ s[1] \div 8 = g /\ BehindField(s) = t
      /\ SubSeq(s, 2 + VarintSize(s), 1 + n) = v
  BY <1>0, PartThenRest, Zenon
<1> HIDE DEF s, n
<1>2. PICK o, k, u : /\ Fields(type)[t] = Read(o, k, u)
                     /\ o = FALSE \/ (o = TRUE /\ f \notin DOMAIN k)
  BY DEF Lacks
<1>3. Fields(type)[s] = FieldAndRest(type, s, Read(o, k, u))
  BY <1>1, <1>2, FieldsIs, Zenon
<1>4. \A rest : FieldAndRest(type, s, rest) = WithKnown(rest, Before(g, v, rest.known))
  <2>1. g # 0
    OBVIOUS
  <2> QED
    BY <1>1, <2>1, Zenon DEF FieldAndRest, WithKnown, Before
<1>5. WithKnown(Read(o, k, u), Before(g, v, k)) = Read(o, Before(g, v, k), u)
  <2>1. \A x : [[ok |-> o, known |-> k, unknown |-> u] EXCEPT !.known = x]
                 = [ok |-> o, known |-> x, unknown |-> u]
    OBVIOUS
  <2> QED
    BY <2>1, Zenon DEF WithKnown, Read
<1>6. Read(o, k, u).known = k
  BY DEF Read
<1>7. Fields(type)[s] = Read(o, Before(g, v, k), u)
  BY <1>3, <1>4, <1>5, <1>6, Zenon
<1>8. o = FALSE \/ (o = TRUE /\ f \notin DOMAIN Before(g, v, k))
  <2>1. DOMAIN Before(g, v, k) = {g} \cup DOMAIN k
    BY DEF Before
  <2> QED
    BY <1>2, <2>1
<1> QED
  BY <1>1, <1>7, <1>8, Zenon DEF Lacks, s

\* Parse refuses it.
LEMMA LacksFails ==
    ASSUME NEW type, NEW n, NEW sn, Says(type, n, sn), NEW f \in type, NEW s, Lacks(type, s, f)
    PROVE  Parse(n, s).ok = FALSE
<1> DEFINE c == MessageClear(n)
           q == MergePartial(c, s)
           r == Parse(n, s)
<1>1. PICK o, k, u : /\ Fields(type)[s] = Read(o, k, u)
                     /\ o = FALSE \/ (o = TRUE /\ f \notin DOMAIN k)
  BY DEF Lacks
<1>2. DOMAIN c.str = type /\ c.has = {}
  <2>1. Says(type, c, <<>>) /\ c.has = {}
    BY ClearSays
  <2> HIDE DEF c
  <2> QED
    BY <2>1, SaysParts
<1> DEFINE p == Fields(type)[s]
           w == [has |-> c.has \cup DOMAIN p.known,
                 str |-> [g \in type |-> IF g \in DOMAIN p.known THEN p.known[g] ELSE c.str[g]],
                 unknown |-> c.unknown \o p.unknown]
<1>3. q = IF ~ p.ok THEN NotParsed(c) ELSE [ok |-> TRUE, m |-> w]
  <2> HIDE DEF c
  <2> QED
    BY <1>2, Zenon DEF MergePartial
<1>4. p.ok = o /\ p.known = k
  BY <1>1 DEF Read
<1>5. r = IF q.ok /\ IsInitialized(q.m) THEN q ELSE NotParsed(n)
  BY Zenon DEF Parse
<1>6. NotParsed(n).ok = FALSE /\ NotParsed(c).ok = FALSE
  BY DEF NotParsed
<1>7. w.has = c.has \cup DOMAIN p.known /\ DOMAIN w.str = type
  OBVIOUS
<1> HIDE DEF c, q, r, w, p
<1>8. ~ (q.ok /\ IsInitialized(q.m))
  <2>1. CASE o = FALSE
    BY <1>3, <1>4, <1>6, <2>1
  <2>2. CASE o = TRUE /\ f \notin DOMAIN k
    <3>1. q = [ok |-> TRUE, m |-> w]
      BY <1>3, <1>4, <2>2, Zenon
    <3>2. q.m = w
      BY <3>1
    <3>3. f \notin w.has
      BY <1>2, <1>4, <1>7, <2>2
    <3> QED
      BY <1>7, <3>2, <3>3 DEF IsInitialized
  <2> QED
    BY <1>1, <2>1, <2>2
<1>9. r.ok = FALSE
  BY <1>5, <1>6, <1>8, Zenon
<1> QED
  BY <1>9 DEF r

-----------------------------------------------------------------------------
(* Messages with all their fields.                                         *)

\* m has all fields of its type, with the strings st: it is written whole and
\* read back.
IsFull(type, st, m) ==
    /\ m.has = type
    /\ \A f \in type : Field(m, f) = st[f]
    /\ Serialize(m) \in Bytes /\ SubSeq(Serialize(m), 1, ByteSizeLong(m)) = Serialize(m)
    /\ Serialize(m) = PartOf(m, 1) \o (PartOf(m, 2) \o (PartOf(m, 3) \o <<>>))
    /\ Parse(New(type), Serialize(m)).ok
    /\ \A f \in type : Field(Parse(New(type), Serialize(m)).m, f) = st[f]

\* A message whose fields are all set, written and read.
LEMMA FullMessage ==
    ASSUME NEW type \in SUBSET (1 .. 3), NEW st \in [type -> Texts], NEW m,
           m = MessageWith(type, st, <<>>)
    PROVE  IsFull(type, st, m)
<1>1. /\ st \in [type -> Texts \cup {DefaultString}] /\ DOMAIN st = type /\ type \in SUBSET type
      /\ <<>> \in Unknowns
      /\ \A f \in type : st[f] # DefaultString
      /\ \A f \in type \ type : st[f] = <<>> \/ st[f] = DefaultString
  BY DefaultIsNoText DEF Unknowns
<1>2. Says(type, m, st)
  BY <1>1, SaysIf
<1>3. /\ m.has = type /\ m.str = st /\ m.unknown = <<>>
      /\ \A f : Field(m, f) = IF st[f] = DefaultString THEN <<>> ELSE st[f]
  BY MessageParts
<1>4. m \in MessagesOf(type)
  BY <1>2 DEF Says
<1>5. /\ FoundIn(type, m, type, Serialize(m)) /\ Len(Serialize(m)) = ByteSizeLong(m)
      /\ Serialize(m) = PartOf(m, 1) \o (PartOf(m, 2) \o (PartOf(m, 3) \o m.unknown))
  BY <1>4, SerializedIsFound
<1>6. Serialize(m) \in Bytes
  BY <1>5 DEF FoundIn
<1>7. SubSeq(Serialize(m), 1, ByteSizeLong(m)) = Serialize(m)
  BY <1>5, <1>6, SubSeqFull, Zenon DEF Bytes
<1>8. IsInitialized(m) = TRUE
  BY <1>1, <1>3 DEF IsInitialized
<1>9. Says(type, New(type), <<>>)
  BY NewSays
<1> DEFINE r == Parse(New(type), Serialize(m))
<1>10. ReadBack(type, r, m, st)
  BY <1>2, <1>9, ParseSerialized, Zenon
<1> HIDE DEF r
<1>11. r.ok /\ Says(type, r.m, st)
  BY <1>8, <1>10 DEF ReadBack
<1>12. \A f \in type : Field(r.m, f) = st[f]
  BY <1>1, <1>11 DEF Says, Field
<1>13. \A f \in type : Field(m, f) = st[f]
  BY <1>1, <1>3
<1> QED
  BY <1>3, <1>5, <1>6, <1>7, <1>11, <1>12, <1>13, Zenon DEF r, IsFull

WithText(st, f, v) == [st EXCEPT ![f] = v]

\* A field set in a message.
LEMMA SetInParts ==
    ASSUME NEW type, NEW h \in SUBSET type, NEW st \in [type -> Texts \cup {DefaultString}],
           NEW f \in type, NEW v
    PROVE  SetField(MessageWith(h, st, <<>>), f, v)
             = MessageWith(h \cup {f}, WithText(st, f, v), <<>>)
<1> DEFINE m == MessageWith(h, st, <<>>)
<1>1. <<>> \in Unknowns
  BY DEF Unknowns
<1>2. m \in MessagesOf(type) /\ m.has = h /\ m.str = st /\ m.unknown = <<>>
  BY <1>1, MessageParts
<1> HIDE DEF m
<1>3. FieldCallsChangeOnly(m, f, v)
  BY <1>2, FieldCallsChange, Zenon
<1>4. SetField(m, f, v) = Changed(m, m.has \cup {f}, f, v)
  BY <1>3 DEF FieldCallsChangeOnly
<1> QED
  BY <1>2, <1>4, Zenon DEF Changed, WithText, m

\* The messages with one field: RpcResponse, EchoRequest and EchoResponse.
OneField(v) == SetField(New({1}), 1, v)

\* A message of one field: its bytes, read whole and cut short.
LEMMA OneFieldIs ==
    ASSUME NEW v \in Texts
    PROVE  /\ Part(1, v) \in Bytes /\ Len(Part(1, v)) <= Len(v) + 4
           /\ SubSeq(Serialize(OneField(v)), 1, ByteSizeLong(OneField(v))) = Part(1, v)
           /\ Parse(New({1}), Part(1, v)).ok
           /\ Field(Parse(New({1}), Part(1, v)).m, 1) = v
           /\ \A l \in Nat : l < Len(Part(1, v)) =>
                Parse(New({1}), Slice(Part(1, v), 0, l)).ok = FALSE
<1> DEFINE m == OneField(v)
           st0 == [f \in {1} |-> DefaultString]
           st == [f \in {1} |-> v]
           p == Part(1, v)
<1>0. 1 \in {1} /\ {1} \in SUBSET (1 .. 3) /\ {} \in SUBSET {1} /\ 1 \in 1 .. 3 /\ 2 \notin {1} /\ 3 \notin {1}
  OBVIOUS
<1>1. st0 \in [{1} -> Texts \cup {DefaultString}] /\ st \in [{1} -> Texts] /\ st[1] = v
      /\ [st0 EXCEPT ![1] = v] = st /\ {} \cup {1} = {1}
  OBVIOUS
<1>2. m = MessageWith({1}, st, <<>>)
  <2>1. New({1}) = MessageWith({}, st0, <<>>)
    BY Zenon DEF New, MessageWith
  <2> HIDE DEF st0, st
  <2>2. SetField(MessageWith({}, st0, <<>>), 1, v) = MessageWith({} \cup {1}, WithText(st0, 1, v), <<>>)
    BY <1>0, <1>1, SetInParts
  <2> QED
    BY <1>1, <2>1, <2>2, Zenon DEF OneField, WithText
<1> HIDE DEF st0, st, m
<1>3. /\ m.has = {1}
      /\ Field(m, 1) = v
      /\ SubSeq(Serialize(m), 1, ByteSizeLong(m)) = Serialize(m)
      /\ Serialize(m) = PartOf(m, 1) \o (PartOf(m, 2) \o (PartOf(m, 3) \o <<>>))
      /\ Parse(New({1}), Serialize(m)).ok
      /\ Field(Parse(New({1}), Serialize(m)).m, 1) = v
  <2>1. /\ m.has = {1}
        /\ \A f \in {1} : Field(m, f) = st[f]
        /\ SubSeq(Serialize(m), 1, ByteSizeLong(m)) = Serialize(m)
        /\ Serialize(m) = PartOf(m, 1) \o (PartOf(m, 2) \o (PartOf(m, 3) \o <<>>))
        /\ Parse(New({1}), Serialize(m)).ok
        /\ \A f \in {1} : Field(Parse(New({1}), Serialize(m)).m, f) = st[f]
    <3>1. IsFull({1}, st, m)
      BY <1>0, <1>1, <1>2, FullMessage
    <3> QED
      BY <3>1, Zenon DEF IsFull
  <2> QED
    BY <1>0, <1>1, <2>1, Zenon
<1>4. /\ p \in Bytes /\ Len(p) = 1 + StringSize(v)
      /\ StringSize(v) = LengthSize(Len(v)) + Len(v)
  BY <1>0, PartIs
<1>5. Len(p) <= Len(v) + 4
  <2>1. Len(v) \in Nat /\ Len(v) < TextLimit
    BY BytesAre DEF Texts
  <2>2. LengthSize(Len(v)) \in {1, 2, 3}
    BY <2>1, LengthIs, Zenon
  <2> QED
    BY <1>4, <2>1, <2>2
<1>6. Serialize(m) = p
  <2>1. PartOf(m, 1) = p /\ PartOf(m, 2) = <<>> /\ PartOf(m, 3) = <<>>
    BY <1>0, <1>3, Zenon DEF PartOf
  <2>2. <<>> \o <<>> = <<>> /\ p \o <<>> = p
    BY <1>4, ConcatEmptySeq DEF Bytes
  <2> QED
    BY <1>3, <2>1, <2>2, Zenon
<1>7. ASSUME NEW l \in Nat, l < Len(p)
      PROVE  Parse(New({1}), Slice(p, 0, l)).ok = FALSE
  <2>1. Lacks({1}, Slice(p, 0, l), 1)
    BY <1>0, <1>7, PartCut
  <2>2. Says({1}, New({1}), <<>>)
    BY NewSays
  <2> QED
    BY <1>0, <2>1, <2>2, LacksFails, Zenon
<1> QED
  BY <1>3, <1>4, <1>5, <1>6, <1>7, Zenon DEF m

\* An RpcRequest with argument z is read from b, and from nothing less.
IsRequest(b, z) ==
    /\ b \in Bytes
    /\ ParseRpcRequest(b).ok
    /\ Field(ParseRpcRequest(b).m, 3) = z
    /\ \A l \in Nat : l < Len(b) => ParseRpcRequest(Slice(b, 0, l)).ok = FALSE

\* The same of a request, which has three.
LEMMA RpcRequestIs ==
    ASSUME NEW x \in Texts, NEW y \in Texts, NEW z \in Texts, NEW b,
           b = RpcRequestBytes(RpcRequestOf(x, y, z))
    PROVE  IsRequest(b, z)
<1> DEFINE type == 1 .. 3
           m == RpcRequestOf(x, y, z)
           st0 == [f \in type |-> DefaultString]
           st1 == WithText(st0, 1, x)
           st2 == WithText(st1, 2, y)
           st == WithText(st2, 3, z)
           p == Part(1, x)
           q == Part(2, y)
           r == Part(3, z)
<1>0. 1 \in type /\ 2 \in type /\ 3 \in type /\ type \in SUBSET (1 .. 3) /\ {} \in SUBSET type
      /\ {} \cup {1} \in SUBSET type /\ ({} \cup {1}) \cup {2} \in SUBSET type
      /\ (({} \cup {1}) \cup {2}) \cup {3} = type /\ 1 # 2 /\ 1 # 3 /\ 2 # 3
  OBVIOUS
<1>1. st0 \in [type -> Texts \cup {DefaultString}]
  OBVIOUS
<1> HIDE DEF st0, type
<1>2. st1 \in [type -> Texts \cup {DefaultString}] /\ \A f \in type : st1[f] = IF f = 1 THEN x ELSE st0[f]
  BY <1>0, <1>1 DEF WithText
<1> HIDE DEF st1
<1>3. st2 \in [type -> Texts \cup {DefaultString}] /\ \A f \in type : st2[f] = IF f = 2 THEN y ELSE st1[f]
  BY <1>0, <1>2 DEF WithText
<1> HIDE DEF st2
<1>4. st \in [type -> Texts \cup {DefaultString}] /\ \A f \in type : st[f] = IF f = 3 THEN z ELSE st2[f]
  BY <1>0, <1>3 DEF WithText
<1> HIDE DEF st
<1>5. st[1] = x /\ st[2] = y /\ st[3] = z
  BY <1>0, <1>2, <1>3, <1>4
<1>6. st \in [type -> Texts]
  <2>1. \A f \in type : f = 1 \/ f = 2 \/ f = 3
    BY DEF type
  <2> QED
    BY <1>4, <1>5, <2>1
<1>7. m = MessageWith(type, st, <<>>)
  <2>1. NewRpcRequest = MessageWith({}, st0, <<>>)
    BY Zenon DEF NewRpcRequest, RpcRequest, New, MessageWith, st0, type
  <2>2. SetField(MessageWith({}, st0, <<>>), 1, x) = MessageWith({} \cup {1}, st1, <<>>)
    BY <1>0, <1>1, SetInParts DEF st1
  <2>3. SetField(MessageWith({} \cup {1}, st1, <<>>), 2, y) = MessageWith(({} \cup {1}) \cup {2}, st2, <<>>)
    BY <1>0, <1>2, SetInParts DEF st2
  <2>4. SetField(MessageWith(({} \cup {1}) \cup {2}, st2, <<>>), 3, z)
          = MessageWith((({} \cup {1}) \cup {2}) \cup {3}, st, <<>>)
    BY <1>0, <1>3, SetInParts DEF st
  <2> QED
    BY <1>0, <2>1, <2>2, <2>3, <2>4, Zenon DEF RpcRequestOf
<1> HIDE DEF m
<1>8. /\ m.has = type
      /\ \A f \in type : Field(m, f) = st[f]
      /\ Serialize(m) \in Bytes /\ SubSeq(Serialize(m), 1, ByteSizeLong(m)) = Serialize(m)
      /\ Serialize(m) = PartOf(m, 1) \o (PartOf(m, 2) \o (PartOf(m, 3) \o <<>>))
      /\ Parse(New(type), Serialize(m)).ok
      /\ \A f \in type : Field(Parse(New(type), Serialize(m)).m, f) = st[f]
  <2>1. IsFull(type, st, m)
    BY <1>0, <1>6, <1>7, FullMessage
  <2> QED
    BY <2>1, Zenon DEF IsFull
<1>9. p \in Bytes /\ q \in Bytes /\ r \in Bytes
  BY <1>0, PartIs DEF type
<1>10. b = p \o (q \o r)
  <2>1. PartOf(m, 1) = p /\ PartOf(m, 2) = q /\ PartOf(m, 3) = r
    BY <1>0, <1>5, <1>8, Zenon DEF PartOf
  <2>2. r \o <<>> = r
    BY <1>9, ConcatEmptySeq DEF Bytes
  <2>3. b = Serialize(m)
    BY <1>8, Zenon DEF RpcRequestBytes, m
  <2> QED
    BY <1>8, <2>1, <2>2, <2>3, Zenon
<1>11. b = Serialize(m)
  BY <1>8, Zenon DEF RpcRequestBytes, m
<1> DEFINE w == q \o r
<1>12. w \in Bytes /\ Len(w) = Len(q) + Len(r)
  BY <1>9, BytesConcat, Zenon
<1> HIDE DEF p, q, r, w
<1>13. p \o w \in Bytes /\ Len(p \o w) = Len(p) + Len(w)
  BY <1>9, <1>12, BytesConcat, Zenon
<1>14. b = p \o w
  BY <1>10, Zenon DEF w
<1>15. Len(p) \in Nat /\ Len(q) \in Nat /\ Len(r) \in Nat /\ Len(w) \in Nat
  BY <1>9, <1>12, BytesAre
<1>17. \A s : ParseRpcRequest(s) = Parse(New(type), s)
  BY Zenon DEF ParseRpcRequest, NewRpcRequest, RpcRequest, type
<1>18. ASSUME NEW l \in Nat, l < Len(b) PROVE \E f \in type : Lacks(type, Slice(b, 0, l), f)
  <2>0. l <= Len(p) + Len(w)
    BY <1>13, <1>14, <1>15, <1>18
  <2>1. Slice(b, 0, l) = IF l < Len(p) THEN Slice(p, 0, l) ELSE p \o Slice(w, 0, l - Len(p))
    BY <1>9, <1>12, <1>14, <2>0, SliceOfTwo
  <2>2. CASE l < Len(p)
    <3>1. Lacks(type, Slice(p, 0, l), 1)
      BY <1>0, <2>2, PartCut DEF p, type
    <3> QED
      BY <1>0, <2>1, <2>2, <3>1
  <2>3. CASE ~ (l < Len(p))
    <3> DEFINE k == l - Len(p)
    <3>1. k \in Nat /\ k <= Len(q) + Len(r) /\ k < Len(q) + Len(r)
      BY <1>12, <1>13, <1>14, <1>15, <1>18, <2>3
    <3>2. Slice(b, 0, l) = p \o Slice(w, 0, k)
      BY <2>1, <2>3
    <3> HIDE DEF k
    <3>3. Slice(w, 0, k) = IF k < Len(q) THEN Slice(q, 0, k) ELSE q \o Slice(r, 0, k - Len(q))
      BY <1>9, <3>1, SliceOfTwo DEF w
    <3>4. CASE k < Len(q)
      <4>1. Lacks(type, Slice(q, 0, k), 2)
        BY <1>0, <3>1, <3>4, PartCut DEF q, type
      <4>2. Lacks(type, p \o Slice(q, 0, k), 2)
        BY <1>0, <4>1, LacksBehind DEF p, type
      <4> QED
        BY <1>0, <3>2, <3>3, <3>4, <4>2
    <3>5. CASE ~ (k < Len(q))
      <4> DEFINE j == k - Len(q)
      <4>1. j \in Nat /\ j < Len(r)
        BY <1>15, <3>1, <3>5
      <4>2. Slice(w, 0, k) = q \o Slice(r, 0, j)
        BY <3>3, <3>5
      <4> HIDE DEF j
      <4>3. Lacks(type, Slice(r, 0, j), 3)
        BY <1>0, <4>1, PartCut DEF r, type
      <4>4. Lacks(type, q \o Slice(r, 0, j), 3)
        BY <1>0, <4>3, LacksBehind DEF q, type
      <4>5. Lacks(type, p \o (q \o Slice(r, 0, j)), 3)
        BY <1>0, <4>4, LacksBehind DEF p, type
      <4> QED
        BY <1>0, <3>2, <4>2, <4>5, Zenon
    <3> QED
      BY <3>4, <3>5
  <2> QED
    BY <2>2, <2>3
<1>19. ASSUME NEW l \in Nat, l < Len(b) PROVE ParseRpcRequest(Slice(b, 0, l)).ok = FALSE
  <2>1. PICK f \in type : Lacks(type, Slice(b, 0, l), f)
    BY <1>18, <1>19
  <2>2. Says(type, New(type), <<>>)
    BY NewSays
  <2>3. Parse(New(type), Slice(b, 0, l)).ok = FALSE
    BY <2>1, <2>2, LacksFails, Zenon
  <2> QED
    BY <1>17, <2>3, Zenon
<1>20. ParseRpcRequest(b).ok /\ Field(ParseRpcRequest(b).m, 3) = z
  BY <1>0, <1>5, <1>8, <1>11, <1>17, Zenon
<1> QED
  BY <1>13, <1>14, <1>19, <1>20, Zenon DEF IsRequest

-----------------------------------------------------------------------------
(* The codec's frames.                                                     *)

\* f is body behind its three bytes.  The length that is read is never more
\* than was written.
IsFrame(f, type, body) ==
    /\ f \in Bytes /\ Len(f) = 3 + Len(body) /\ f[1] = type
    /\ PackLen(f) \in Nat /\ PackLen(f) <= Len(body)
    /\ \A n \in Nat : n <= Len(body) => Slice(f, 3, 3 + n) = Slice(body, 0, n)

\* The bytes of a length as WriteMessage writes them, and what is read.
HighByte(n) == (n \div 65536) % 256
LowByte(n) == n % 256
LengthRead(n) == LowByte(n) + 256 * HighByte(n)

\* They are bytes, and never say more than n.
LEMMA LowAndHigh ==
    ASSUME NEW n \in Nat
    PROVE  /\ LowByte(n) \in 0 .. 255 /\ HighByte(n) \in 0 .. 255
           /\ LengthRead(n) \in Nat /\ LengthRead(n) <= n
<1> DEFINE q == n \div 256
           a == n % 256
           e == n \div 65536
           d == e % 256
<1>1. q \in Nat /\ a \in Nat /\ a < 256 /\ n = 256 * q + a
  OBVIOUS
<1>2. e \in Nat /\ e <= q
  OBVIOUS
<1> HIDE DEF q, a, e
<1>3. d \in Nat /\ d < 256 /\ d <= e
  BY <1>2
<1> HIDE DEF d
<1>4. a \in 0 .. 255 /\ d \in 0 .. 255 /\ a + 256 * d \in Nat /\ a + 256 * d <= n
  BY <1>1, <1>2, <1>3
<1>5. d = HighByte(n)
  BY DEF d, e, HighByte
<1> QED
  BY <1>4, <1>5 DEF a, LowByte, LengthRead

\* WriteMessage makes a frame.
LEMMA FrameIs ==
    ASSUME NEW type \in 0 .. 255, NEW body \in Bytes
    PROVE  IsFrame(WriteMessage(type, body), type, body)
<1> DEFINE L == Len(body)
           a == LowByte(L)
           b == HighByte(L)
           h == <<type, a, b>>
           f == h \o body
<1>0. L \in Nat
  BY BytesAre
<1>1. a \in 0 .. 255 /\ b \in 0 .. 255 /\ LengthRead(L) \in Nat /\ LengthRead(L) <= L
  <2> HIDE DEF L
  <2> QED
    BY <1>0, LowAndHigh, Zenon
<1>2. WriteMessage(type, body) = f
  BY DEF WriteMessage, HighByte, LowByte
<1> HIDE DEF a, b, L
<1>3. h \in Bytes /\ Len(h) = 3 /\ h[1] = type /\ h[2] = a /\ h[3] = b
  BY <1>1 DEF Bytes
<1> HIDE DEF h
<1>4. /\ f \in Bytes /\ Len(f) = Len(h) + Len(body)
      /\ \A i \in 1 .. Len(h) + Len(body) : f[i] = IF i <= Len(h) THEN h[i] ELSE body[i - Len(h)]
  BY <1>3, BytesConcat, Zenon
<1> HIDE DEF f
<1>5. Len(f) = 3 + L /\ \A i \in 1 .. 3 + L : f[i] = IF i <= 3 THEN h[i] ELSE body[i - 3]
  BY <1>3, <1>4 DEF L
<1>6. f[1] = type /\ f[2] = a /\ f[3] = b
  <2>1. 1 \in 1 .. 3 + L /\ 2 \in 1 .. 3 + L /\ 3 \in 1 .. 3 + L /\ 1 <= 3 /\ 2 <= 3 /\ 3 <= 3
    BY <1>0
  <2> QED
    BY <1>3, <1>5, <2>1
<1>7. PackLen(f) = LengthRead(L)
  BY <1>6 DEF PackLen, LengthRead, a, b
<1>8. ASSUME NEW n \in Nat, n <= L PROVE Slice(f, 3, 3 + n) = Slice(body, 0, n)
  <2> DEFINE x == Slice(f, 3, 3 + n)
             y == Slice(body, 0, n)
  <2>1. 3 \in Nat /\ 3 + n \in Nat /\ 3 <= 3 + n /\ 3 + n <= Len(f) /\ (3 + n) - 3 = n
        /\ 0 \in Nat /\ 0 <= n /\ n <= Len(body) /\ n - 0 = n
    BY <1>0, <1>5, <1>8 DEF L
  <2>2. x \in Bytes /\ Len(x) = (3 + n) - 3 /\ \A i \in 1 .. (3 + n) - 3 : x[i] = f[3 + i]
    <3> DEFINE k == 3 + n
    <3>1. k \in Nat /\ 3 <= k /\ k <= Len(f) /\ 3 \in Nat
      BY <2>1
    <3> HIDE DEF k
    <3>2. Slice(f, 3, k) \in Bytes /\ Len(Slice(f, 3, k)) = k - 3
          /\ \A i \in 1 .. k - 3 : Slice(f, 3, k)[i] = f[3 + i]
      BY <1>4, <3>1, SliceIs
    <3> QED
      BY <3>2 DEF k
  <2>3. y \in Bytes /\ Len(y) = n - 0 /\ \A i \in 1 .. n - 0 : y[i] = body[0 + i]
    BY <2>1, SliceIs, Zenon
  <2> HIDE DEF x, y
  <2>4. x \in Bytes /\ Len(x) = n /\ y \in Bytes /\ Len(y) = n
    BY <2>1, <2>2, <2>3, Zenon
  <2>5. ASSUME NEW i \in 1 .. n PROVE x[i] = y[i]
    <3>1. 3 + i \in 1 .. 3 + L /\ ~ (3 + i <= 3) /\ (3 + i) - 3 = i /\ 0 + i = i
      BY <1>0, <1>8
    <3>2. f[3 + i] = body[i]
      BY <1>5, <3>1
    <3> QED
      BY <2>1, <2>2, <2>3, <3>1, <3>2
  <2>6. x = y
    BY <2>4, <2>5, BytesEqual
  <2> QED
    BY <2>6 DEF x, y
<1>9. PackLen(f) \in Nat /\ PackLen(f) <= L
  BY <1>1, <1>7, Zenon
<1> QED
  BY <1>2, <1>4, <1>5, <1>6, <1>8, <1>9, Zenon DEF IsFrame, L

\* The frames of a call with text t and of its answer.
RequestFrame(t) ==
    WriteRequestMessage(RpcRequestOf(EchoService, Echo, EchoRequestBytes(EchoRequestOf(t))))
ResponseFrame(t) ==
    WriteResponeMessage(RpcResponseOf(EchoResponseBytes(SetEchoText(NewEchoResponse, t))))

TextMax == 65535
CallTexts == {t \in Bytes : Len(t) < TextMax}

\* The messages of a call are one field in another.
LEMMA CallTextIs ==
    ASSUME NEW t \in CallTexts
    PROVE  /\ t \in Texts /\ Part(1, t) \in Texts
           /\ EchoService \in Texts /\ Echo \in Texts
           /\ EchoRequestBytes(EchoRequestOf(t)) = Part(1, t)
           /\ EchoResponseBytes(SetEchoText(NewEchoResponse, t)) = Part(1, t)
           /\ RpcResponseBytes(RpcResponseOf(Part(1, t))) = Part(1, Part(1, t))
<1>1. t \in Bytes /\ Len(t) \in Nat /\ Len(t) < TextMax
  BY BytesAre DEF CallTexts
<1>2. t \in Texts
  BY <1>1 DEF Texts, TextMax, TextLimit
<1>3. Part(1, t) \in Bytes /\ Len(Part(1, t)) <= Len(t) + 4
  BY <1>2, OneFieldIs, Zenon
<1>4. Part(1, t) \in Texts
  <2>1. Len(Part(1, t)) \in Nat
    BY <1>3, BytesAre
  <2>2. Len(Part(1, t)) < TextLimit
    BY <1>1, <1>3, <2>1 DEF TextMax, TextLimit
  <2> QED
    BY <1>3, <2>2 DEF Texts
<1>5. EchoService \in Texts /\ Echo \in Texts
  <2>1. \A x \in 0 .. 255 : <<x>> \in Bytes /\ Len(<<x>>) = 1
    BY DEF Bytes
  <2>2. 69 \in 0 .. 255 /\ 101 \in 0 .. 255
    OBVIOUS
  <2>3. 1 < TextLimit
    BY DEF TextLimit
  <2> QED
    BY <2>1, <2>2, <2>3 DEF EchoService, Echo, Texts
<1>6. EchoRequestBytes(EchoRequestOf(t)) = Part(1, t)
  <2>1. EchoRequestOf(t) = OneField(t)
    BY Zenon DEF EchoRequestOf, NewEchoRequest, EchoRequest, OneField
  <2> QED
    BY <1>2, <2>1, OneFieldIs, Zenon DEF EchoRequestBytes
<1>7. EchoResponseBytes(SetEchoText(NewEchoResponse, t)) = Part(1, t)
  <2>1. SetEchoText(NewEchoResponse, t) = OneField(t)
    BY Zenon DEF SetEchoText, NewEchoResponse, EchoResponse, OneField
  <2> QED
    BY <1>2, <2>1, OneFieldIs, Zenon DEF EchoResponseBytes
<1>8. RpcResponseBytes(RpcResponseOf(Part(1, t))) = Part(1, Part(1, t))
  <2> DEFINE v == Part(1, t)
  <2>1. RpcResponseOf(v) = OneField(v)
    BY Zenon DEF RpcResponseOf, NewRpcResponse, RpcResponse, OneField
  <2>2. v \in Texts
    BY <1>4
  <2> HIDE DEF v
  <2>3. RpcResponseBytes(RpcResponseOf(v)) = Part(1, v)
    BY <2>1, <2>2, OneFieldIs, Zenon DEF RpcResponseBytes
  <2> QED
    BY <2>3 DEF v
<1> QED
  BY <1>2, <1>4, <1>5, <1>6, <1>7, <1>8

\* A request that is parsed was whole, and has the text.
LEMMA RequestIsRead ==
    ASSUME NEW t \in CallTexts, NEW f, f = RequestFrame(t), NEW r,
           r = ParseRpcRequest(Slice(f, 3, 3 + PackLen(f)))
    PROVE  /\ f \in Bytes /\ Len(f) >= 3 /\ f[1] = kRequest
           /\ PackLen(f) \in Nat /\ PackLen(f) <= Len(f) - 3
           /\ r.ok => /\ 3 + PackLen(f) = Len(f)
                      /\ Field(ParseEchoRequest(Field(r.m, 3)).m, 1) = t
<1> DEFINE z == Part(1, t)
           b == RpcRequestBytes(RpcRequestOf(EchoService, Echo, z))
           n == PackLen(f)
<1>1. /\ t \in Texts /\ z \in Texts /\ EchoService \in Texts /\ Echo \in Texts
      /\ EchoRequestBytes(EchoRequestOf(t)) = z
  BY CallTextIs
<1>2. f = WriteMessage(kRequest, b)
  BY <1>1, Zenon DEF RequestFrame, WriteRequestMessage
<1>10. b = RpcRequestBytes(RpcRequestOf(EchoService, Echo, z))
  OBVIOUS
<1> HIDE DEF z, b
<1>3. /\ b \in Bytes /\ ParseRpcRequest(b).ok /\ Field(ParseRpcRequest(b).m, 3) = z
      /\ \A l \in Nat : l < Len(b) => ParseRpcRequest(Slice(b, 0, l)).ok = FALSE
  <2>1. IsRequest(b, z)
    BY <1>1, <1>10, RpcRequestIs, Zenon
  <2> QED
    BY <2>1, Zenon DEF IsRequest
<1>4. kRequest \in 0 .. 255
  BY DEF kRequest
<1>5. IsFrame(f, kRequest, b)
  BY <1>2, <1>3, <1>4, FrameIs
<1>6. /\ f \in Bytes /\ Len(f) = 3 + Len(b) /\ f[1] = kRequest
      /\ n \in Nat /\ n <= Len(b) /\ Slice(f, 3, 3 + n) = Slice(b, 0, n)
  BY <1>5 DEF IsFrame
<1>7. Len(b) \in Nat
  BY <1>3, BytesAre
<1> HIDE DEF n
<1>8. CASE n < Len(b)
  <2>1. r.ok = FALSE
    BY <1>3, <1>6, <1>8 DEF n
  <2> QED
    BY <1>6, <1>7, <2>1 DEF n
<1>9. CASE n = Len(b)
  <2>1. Slice(b, 0, n) = b
    BY <1>3, <1>9, SliceEnds
  <2>2. r = ParseRpcRequest(b)
    BY <1>6, <2>1, Zenon DEF n
  <2>3. Field(ParseEchoRequest(z).m, 1) = t
    <3>1. ParseEchoRequest(z) = Parse(New({1}), z)
      BY Zenon DEF ParseEchoRequest, NewEchoRequest, EchoRequest
    <3> QED
      BY <1>1, <3>1, OneFieldIs, Zenon DEF z
  <2>4. Field(ParseEchoRequest(Field(r.m, 3)).m, 1) = t
    BY <1>3, <2>2, <2>3, Zenon
  <2>5. 3 + n = Len(f) /\ Len(f) >= 3 /\ n <= Len(f) - 3
    BY <1>6, <1>7, <1>9
  <2> QED
    BY <1>6, <2>4, <2>5 DEF n
<1> QED
  BY <1>6, <1>7, <1>8, <1>9

\* So was an answer.
LEMMA ResponseIsRead ==
    ASSUME NEW t \in CallTexts, NEW f, f = ResponseFrame(t), NEW r,
           r = ParseRpcResponse(Slice(f, 3, 3 + PackLen(f)))
    PROVE  /\ f \in Bytes /\ Len(f) > 3 /\ f[1] = KResponse
           /\ PackLen(f) \in Nat /\ PackLen(f) <= Len(f) - 3
           /\ r.ok => /\ 3 + PackLen(f) = Len(f)
                      /\ Field(ParseEchoResponse(Field(r.m, 1)).m, 1) = t
<1> DEFINE z == Part(1, t)
           b == Part(1, z)
           n == PackLen(f)
<1>1. /\ t \in Texts /\ z \in Texts
      /\ EchoResponseBytes(SetEchoText(NewEchoResponse, t)) = z
      /\ RpcResponseBytes(RpcResponseOf(z)) = b
  BY CallTextIs
<1>2. f = WriteMessage(KResponse, b)
  BY <1>1, Zenon DEF ResponseFrame, WriteResponeMessage
<1> HIDE DEF z
<1>3. /\ b \in Bytes /\ Parse(New({1}), b).ok /\ Field(Parse(New({1}), b).m, 1) = z
      /\ \A l \in Nat : l < Len(b) => Parse(New({1}), Slice(b, 0, l)).ok = FALSE
  BY <1>1, OneFieldIs
<1>0. Len(b) > 0 /\ Len(b) \in Nat
  <2>1. 1 \in 1 .. 3
    OBVIOUS
  <2>2. Len(b) = 1 + StringSize(z) /\ StringSize(z) \in Nat
    BY <1>1, <2>1, PartIs
  <2> HIDE DEF b
  <2> QED
    BY <2>2
<1> HIDE DEF b
<1>4. KResponse \in 0 .. 255
  BY DEF KResponse
<1>5. IsFrame(f, KResponse, b)
  BY <1>2, <1>3, <1>4, FrameIs
<1>6. /\ f \in Bytes /\ Len(f) = 3 + Len(b) /\ f[1] = KResponse
      /\ n \in Nat /\ n <= Len(b) /\ Slice(f, 3, 3 + n) = Slice(b, 0, n)
  BY <1>5 DEF IsFrame
<1>7. /\ \A s : ParseRpcResponse(s) = Parse(New({1}), s)
      /\ \A s : ParseEchoResponse(s) = Parse(New({1}), s)
  BY Zenon DEF ParseRpcResponse, NewRpcResponse, RpcResponse, ParseEchoResponse, NewEchoResponse, EchoResponse
<1> HIDE DEF n
<1>10. r = Parse(New({1}), Slice(b, 0, n))
  BY <1>6, <1>7, Zenon DEF n
<1>8. CASE n < Len(b)
  <2>1. r.ok = FALSE
    BY <1>3, <1>6, <1>8, <1>10
  <2> QED
    BY <1>0, <1>6, <2>1 DEF n
<1>9. CASE n = Len(b)
  <2>1. Slice(b, 0, n) = b
    BY <1>3, <1>9, SliceEnds
  <2>2. r = Parse(New({1}), b)
    BY <1>10, <2>1, Zenon
  <2>3. Field(ParseEchoResponse(z).m, 1) = t
    <3>1. ParseEchoResponse(z) = Parse(New({1}), z)
      BY <1>7, Zenon
    <3> QED
      BY <1>1, <3>1, OneFieldIs, Zenon DEF z
  <2>4. Field(ParseEchoResponse(Field(r.m, 1)).m, 1) = t
    BY <1>3, <2>2, <2>3, Zenon
  <2>5. 3 + n = Len(f) /\ Len(f) > 3 /\ n <= Len(f) - 3
    BY <1>0, <1>6, <1>9
  <2> QED
    BY <1>6, <2>4, <2>5 DEF n
<1> QED
  BY <1>0, <1>6, <1>8, <1>9

-----------------------------------------------------------------------------
(* A client and its connection.                                            *)

\* Where a client with record r is: it has sent a bytes of its request f and
\* received e of the answer q.
CliAt(f, q, r, a, e) ==
    \/ r.at = "idle" /\ a = Len(f) /\ e = Len(q)
    \/ r.at = "write" /\ r.data = Slice(f, a, Len(f)) /\ e = 0
    \/ r.at = "head" /\ a = Len(f) /\ e < 3 /\ r.data = Slice(q, 0, e)
    \/ /\ r.at = "body" /\ a = Len(f) /\ 3 <= e /\ e < 3 + r.n /\ r.n = PackLen(q)
       /\ r.data = Slice(q, 3, e)

\* Where the service s of its connection is, which has received b bytes of f
\* and sent d of q, when buf is in buffer_: before the request, after it, or
\* on the way.
SrvAt(t, f, q, s, buf, b, d) ==
    \/ s.at = "head" /\ b < 3 /\ d = 0 /\ s.head = Slice(f, 0, b)
    \/ s.at = "head" /\ b = Len(f) /\ d = Len(q) /\ s.head = <<>>
    \/ /\ s.at = "body" /\ d = 0 /\ s.done \in Nat /\ b = 3 + s.done
       /\ s.n = PackLen(f) /\ s.done < s.n
       /\ buf = [i \in 1 .. s.n |-> buf[i]] /\ \A i \in 1 .. s.done : buf[i] = f[3 + i]
    \/ s.at = "parse" /\ d = 0 /\ b = 3 + PackLen(f) /\ buf = Slice(f, 3, b)
    \/ s.at \in {"call", "called"} /\ d = 0 /\ b = Len(f) /\ s.arg = t
    \/ s.at = "write" /\ b = Len(f) /\ s.done = d /\ d < Len(q) /\ s.n = Len(q) /\ buf = q
    \/ s.at = "closed"

\* What is between them: the bytes u on their way to the server, w on their
\* way back.
Placed(t, f, q, r, s, u, w, buf, a, b, d, e) ==
    /\ a <= Len(f) /\ e <= d /\ d <= Len(q)
    /\ CliAt(f, q, r, a, e) /\ SrvAt(t, f, q, s, buf, b, d)
    /\ w = Slice(q, e, d)
    /\ s.at # "closed" => b <= a /\ u = Slice(f, b, a)
Joined(t, f, q, r, s, u, w, buf) ==
    \E a, b, d, e \in Nat : Placed(t, f, q, r, s, u, w, buf, a, b, d, e)

\* All that has to be known of the frames of a call, but for what they say.
Frames(f, q) ==
    /\ f \in Bytes /\ Len(f) \in Nat /\ Len(f) >= 3 /\ PackLen(f) \in Nat /\ PackLen(f) <= Len(f) - 3
    /\ q \in Bytes /\ Len(q) \in Nat /\ Len(q) > 3 /\ PackLen(q) \in Nat /\ PackLen(q) <= Len(q) - 3

\* A connection that is closed needs nothing.
LEMMA ClosedJoins ==
    ASSUME NEW t, NEW f, NEW q, NEW r, NEW s, NEW u, NEW w, NEW buf,
           Joined(t, f, q, r, s, u, w, buf), NEW s2, s2.at = "closed", NEW u2, NEW buf2
    PROVE  Joined(t, f, q, r, s2, u2, w, buf2)
<1>1. PICK a, b, d, e \in Nat : Placed(t, f, q, r, s, u, w, buf, a, b, d, e)
  BY DEF Joined
<1>2. SrvAt(t, f, q, s2, buf2, b, d)
  BY DEF SrvAt
<1>3. Placed(t, f, q, r, s2, u2, w, buf2, a, b, d, e)
  BY <1>1, <1>2 DEF Placed
<1> QED
  BY <1>3 DEF Joined

\* Who does not use buffer_ does not mind what is in it.
LEMMA OtherBuffer ==
    ASSUME NEW t, NEW f, NEW q, NEW r, NEW s, NEW u, NEW w, NEW buf,
           Joined(t, f, q, r, s, u, w, buf), s.at \notin {"body", "parse", "write"}, NEW buf2
    PROVE  Joined(t, f, q, r, s, u, w, buf2)
<1>1. PICK a, b, d, e \in Nat : Placed(t, f, q, r, s, u, w, buf, a, b, d, e)
  BY DEF Joined
<1>2. SrvAt(t, f, q, s, buf2, b, d)
  BY <1>1 DEF Placed, SrvAt
<1>3. Placed(t, f, q, r, s, u, w, buf2, a, b, d, e)
  BY <1>1, <1>2 DEF Placed
<1> QED
  BY <1>3 DEF Joined

\* Pieces of f.
LEMMA SliceLength ==
    ASSUME NEW f \in Bytes, NEW i \in Nat, NEW j \in Nat, i <= j, j <= Len(f)
    PROVE  Len(Slice(f, i, j)) = j - i
BY SliceIs

AtWell(f, i, j) ==
    /\ Slice(f, i, j) = [x \in 1 .. j - i |-> Slice(f, i, j)[x]]
    /\ \A x \in 1 .. j - i : Slice(f, i, j)[x] = f[i + x]
\* The bytes of a piece, by their places.
LEMMA SliceAt ==
    ASSUME NEW f \in Bytes, NEW i \in Nat, NEW j \in Nat, i <= j, j <= Len(f)
    PROVE  AtWell(f, i, j)
<1> DEFINE y == Slice(f, i, j)
<1>1. y \in Bytes /\ Len(y) = j - i /\ \A x \in 1 .. j - i : y[x] = f[i + x]
  BY SliceIs
<1> HIDE DEF y
<1>2. y = [x \in 1 .. Len(y) |-> y[x]]
  BY <1>1 DEF Bytes
<1> QED
  BY <1>1, <1>2 DEF y, AtWell

\* A piece can be cut, and taken from its front.
CutWell(f, i, j, k) ==
    /\ First(Slice(f, i, k), j - i) = Slice(f, i, j)
    /\ Rest(Slice(f, i, k), j - i) = Slice(f, j, k)
    /\ Slice(f, i, j) \o Slice(f, j, k) = Slice(f, i, k)
\* A piece is cut in two.
LEMMA SliceCutsWell ==
    ASSUME NEW f \in Bytes, NEW i \in Nat, NEW j \in Nat, NEW k \in Nat,
           i <= j, j <= k, k <= Len(f)
    PROVE  CutWell(f, i, j, k)
BY SliceCut DEF CutWell

TakenWell(f, i, j, u, n) ==
    /\ i + n \in Nat /\ i + n <= j /\ i + n <= Len(f)
    /\ First(u, n) = Slice(f, i, i + n)
    /\ Rest(u, n) = Slice(f, i + n, j)
\* The first n bytes are taken from one.
LEMMA PieceTaken ==
    ASSUME NEW f \in Bytes, NEW i \in Nat, NEW j \in Nat, i <= j, j <= Len(f), NEW u,
           u = Slice(f, i, j), NEW n \in Nat, n <= j - i
    PROVE  TakenWell(f, i, j, u, n)
<1>0. Len(f) \in Nat
  BY BytesAre
<1> DEFINE k == i + n
<1>1. k \in Nat /\ i <= k /\ k <= j /\ k <= Len(f) /\ k - i = n
  BY <1>0
<1> HIDE DEF k
<1>2. CutWell(f, i, k, j)
  BY <1>1, SliceCutsWell, Zenon
<1>3. First(u, n) = Slice(f, i, k) /\ Rest(u, n) = Slice(f, k, j)
  BY <1>1, <1>2, Zenon DEF CutWell
<1> QED
  BY <1>1, <1>3 DEF k, TakenWell

\* A read of at most m bytes of one.
LEMMA ReadPiece ==
    ASSUME NEW f \in Bytes, NEW i \in Nat, NEW j \in Nat, i <= j, j <= Len(f), NEW u,
           u = Slice(f, i, j), NEW m \in Nat, NEW n, n = Least(m, Len(u)), n > 0
    PROVE  /\ n \in Nat /\ n <= m /\ i + n \in Nat /\ i + n <= j /\ i + n <= Len(f)
           /\ First(u, n) = Slice(f, i, i + n)
           /\ Rest(u, n) = Slice(f, i + n, j)
           /\ Len(u) = j - i
<1>1. Len(u) = j - i
  BY SliceLength
<1>2. n \in Nat /\ n <= m /\ n <= j - i
  BY <1>1 DEF Least
<1> QED
  BY <1>1, <1>2, PieceTaken DEF TakenWell

\* What was read before, and the next piece.
LEMMA SliceGrows ==
    ASSUME NEW f \in Bytes, NEW i \in Nat, NEW j \in Nat, i <= j, j <= Len(f)
    PROVE  Slice(f, 0, i) \o Slice(f, i, j) = Slice(f, 0, j)
<1>1. 0 \in Nat /\ 0 <= i
  OBVIOUS
<1>2. CutWell(f, 0, i, j)
  BY <1>1, SliceCutsWell, Zenon
<1> QED
  BY <1>2, Zenon DEF CutWell

\* The first three bytes say the length.
LEMMA HeadIs ==
    ASSUME NEW f \in Bytes, Len(f) >= 3
    PROVE  Len(Slice(f, 0, 3)) = 3 /\ PackLen(Slice(f, 0, 3)) = PackLen(f)
<1> DEFINE h == Slice(f, 0, 3)
<1>1. 0 \in Nat /\ 3 \in Nat /\ 0 <= 3 /\ 3 <= Len(f)
  BY BytesAre
<1>2. Len(h) = 3 - 0 /\ \A x \in 1 .. 3 - 0 : h[x] = f[0 + x]
  BY <1>1, SliceIs, Zenon
<1> HIDE DEF h
<1>3. 3 - 0 = 3 /\ 2 \in 1 .. 3 - 0 /\ 3 \in 1 .. 3 - 0 /\ 0 + 2 = 2 /\ 0 + 3 = 3
  OBVIOUS
<1>4. Len(h) = 3 /\ h[2] = f[2] /\ h[3] = f[3]
  BY <1>2, <1>3
<1> QED
  BY <1>4 DEF PackLen, h

\* ReceiveHead.
HeadRead(t, f, q, r, u2, w, buf, head) ==
    /\ Len(head) = 3 => \A s2, buf2 :
         /\ s2.at = "body" /\ s2.done = 0 /\ s2.n = PackLen(head) /\ PackLen(head) # 0
         /\ buf2 = [i \in 1 .. PackLen(head) |-> buf2[i]]
         => Joined(t, f, q, r, s2, u2, w, buf2)
    /\ Len(head) # 3 => \A s2 : s2.at = "head" /\ s2.head = head
         => Joined(t, f, q, r, s2, u2, w, buf)
\* The head grows by a read, or the body begins.
LEMMA HeadReceived ==
    ASSUME NEW t, NEW f, NEW q, Frames(f, q), NEW r, NEW s, NEW u, NEW w, NEW buf,
           Joined(t, f, q, r, s, u, w, buf), s.at = "head",
           NEW n, n = Least(3 - Len(s.head), Len(u)), n > 0,
           NEW head, head = s.head \o First(u, n), NEW u2, u2 = Rest(u, n)
    PROVE  HeadRead(t, f, q, r, u2, w, buf, head)
<1>1. PICK a, b, d, e \in Nat : Placed(t, f, q, r, s, u, w, buf, a, b, d, e)
  BY DEF Joined
<1>2. a <= Len(f) /\ e <= d /\ d <= Len(q) /\ w = Slice(q, e, d) /\ b <= a /\ u = Slice(f, b, a)
      /\ CliAt(f, q, r, a, e)
  BY <1>1 DEF Placed
<1>3. f \in Bytes /\ Len(f) \in Nat /\ Len(f) >= 3 /\ PackLen(f) \in Nat /\ PackLen(f) <= Len(f) - 3
  BY DEF Frames
<1>4. b < 3 /\ d = 0 /\ s.head = Slice(f, 0, b)
  <2> SUFFICES ASSUME b = Len(f), s.head = <<>> PROVE FALSE
    BY <1>1 DEF Placed, SrvAt
  <2>1. a = b
    BY <1>2, <1>3
  <2>2. u = <<>>
    BY <1>2, <1>3, <2>1, SliceEnds
  <2>3. Len(u) = 0 /\ Len(s.head) = 0
    BY <2>2
  <2> QED
    BY <2>3 DEF Least
<1>5. Len(s.head) = b
  <2>1. 0 \in Nat /\ 0 <= b /\ b <= Len(f) /\ b - 0 = b
    BY <1>2, <1>3
  <2> QED
    BY <1>3, <1>4, <2>1, SliceIs
<1> DEFINE m == 3 - b
           k == b + n
<1>6. m \in Nat /\ n = Least(m, Len(u))
  BY <1>4, <1>5
<1> HIDE DEF m
<1>7. /\ n \in Nat /\ n <= m /\ k \in Nat /\ k <= a /\ k <= Len(f)
      /\ First(u, n) = Slice(f, b, k) /\ u2 = Slice(f, k, a)
  BY <1>2, <1>3, <1>6, ReadPiece
<1>8. b <= k /\ k <= 3
  BY <1>7 DEF m
<1> HIDE DEF k
<1>9. head = Slice(f, 0, k) /\ Len(head) = k
  <2>1. 0 \in Nat /\ 0 <= b /\ 0 <= k /\ k - 0 = k
    BY <1>7
  <2>2. Slice(f, 0, b) \o Slice(f, b, k) = Slice(f, 0, k)
    BY <1>3, <1>7, <1>8, SliceGrows
  <2>3. Len(Slice(f, 0, k)) = k - 0
    BY <1>3, <1>7, <2>1, SliceIs, Zenon
  <2> QED
    BY <1>4, <1>7, <2>1, <2>2, <2>3
<1>10. ASSUME Len(head) = 3, NEW s2, NEW buf2,
              s2.at = "body", s2.done = 0, s2.n = PackLen(head), PackLen(head) # 0,
              buf2 = [i \in 1 .. PackLen(head) |-> buf2[i]]
       PROVE  Joined(t, f, q, r, s2, u2, w, buf2)
  <2>1. k = 3 /\ PackLen(head) = PackLen(f)
    BY <1>3, <1>9, <1>10, HeadIs
  <2>2. SrvAt(t, f, q, s2, buf2, k, d)
    <3>1. k = 3 + s2.done /\ s2.done \in Nat /\ s2.n = PackLen(f) /\ s2.done < s2.n
      BY <1>3, <1>10, <2>1
    <3>2. \A i \in 1 .. s2.done : buf2[i] = f[3 + i]
      BY <1>10
    <3>3. buf2 = [i \in 1 .. s2.n |-> buf2[i]]
      BY <1>10, Zenon
    <3> QED
      BY <1>4, <1>10, <3>1, <3>2, <3>3, Zenon DEF SrvAt
  <2>3. Placed(t, f, q, r, s2, u2, w, buf2, a, k, d, e)
    BY <1>2, <1>7, <2>2 DEF Placed
  <2> QED
    BY <1>7, <2>3 DEF Joined
<1>11. ASSUME Len(head) # 3, NEW s2, s2.at = "head", s2.head = head
       PROVE  Joined(t, f, q, r, s2, u2, w, buf)
  <2>0. k # 3
    BY <1>9, <1>11, Zenon
  <2>1. k < 3
    BY <1>7, <1>8, <2>0
  <2>2. SrvAt(t, f, q, s2, buf, k, d)
    BY <1>4, <1>9, <1>11, <2>1 DEF SrvAt
  <2>3. Placed(t, f, q, r, s2, u2, w, buf, a, k, d, e)
    BY <1>2, <1>7, <2>2 DEF Placed
  <2> QED
    BY <1>7, <2>3 DEF Joined
<1> QED
  BY <1>10, <1>11 DEF HeadRead

\* ReceiveBody.
LEMMA BodyReceived ==
    ASSUME NEW t, NEW f, NEW q, Frames(f, q), NEW r, NEW s, NEW u, NEW w, NEW buf,
           Joined(t, f, q, r, s, u, w, buf), s.at = "body",
           NEW n, n = Least(s.n - s.done, Len(u)), n > 0, NEW u2, u2 = Rest(u, n), NEW buf2,
           buf2 = [i \in DOMAIN buf |->
                     IF i \in s.done + 1 .. s.done + n THEN u[i - s.done] ELSE buf[i]],
           NEW s2, s2.at = IF s.done + n = s.n THEN "parse" ELSE "body",
           s2.done = s.done + n, s2.n = s.n
    PROVE  Joined(t, f, q, r, s2, u2, w, buf2)
<1>1. PICK a, b, d, e \in Nat : Placed(t, f, q, r, s, u, w, buf, a, b, d, e)
  BY DEF Joined
<1>2. a <= Len(f) /\ e <= d /\ d <= Len(q) /\ w = Slice(q, e, d) /\ b <= a /\ u = Slice(f, b, a)
      /\ CliAt(f, q, r, a, e)
  BY <1>1 DEF Placed
<1>3. f \in Bytes /\ Len(f) \in Nat /\ PackLen(f) \in Nat /\ PackLen(f) <= Len(f) - 3
  BY DEF Frames
<1>4. /\ d = 0 /\ s.done \in Nat /\ b = 3 + s.done /\ s.n = PackLen(f) /\ s.done < s.n
  BY <1>1 DEF Placed, SrvAt
<1>40. buf = [i \in 1 .. s.n |-> buf[i]] /\ \A i \in 1 .. s.done : buf[i] = f[3 + i]
  BY <1>1 DEF Placed, SrvAt
<1> DEFINE done == s.done
           l == s.n
           m == l - done
           k == b + n
<1>5. m \in Nat /\ n = Least(m, Len(u)) /\ l \in Nat /\ done \in Nat /\ b = 3 + done
  BY <1>3, <1>4
<1>8. DOMAIN buf = 1 .. l /\ \A i \in 1 .. done : buf[i] = f[3 + i]
  BY <1>40
<1>80. buf2 = [i \in 1 .. l |-> IF i \in done + 1 .. done + n THEN u[i - done] ELSE buf[i]]
  BY <1>8
<1> HIDE DEF m, l, done
<1>6. /\ n \in Nat /\ n <= m /\ k \in Nat /\ k <= a /\ k <= Len(f)
      /\ u2 = Slice(f, k, a) /\ Len(u) = a - b
  BY <1>2, <1>3, <1>5, ReadPiece
<1>60. n <= a - b /\ done + n <= l /\ k = 3 + (done + n)
  BY <1>5, <1>6 DEF m
<1>61. done \in Nat /\ n \in Nat /\ l \in Nat
  BY <1>5, <1>6
<1>7. \A x \in 1 .. a - b : u[x] = f[b + x]
  BY <1>2, <1>3, SliceAt DEF AtWell
<1>9. buf2 = [i \in 1 .. l |-> buf2[i]]
  BY <1>80
<1>10. ASSUME NEW i \in 1 .. done + n PROVE i \in 1 .. l /\ buf2[i] = f[3 + i]
  <2>1. i \in 1 .. l
    BY <1>60, <1>61
  <2>2. ASSUME i \in done + 1 .. done + n PROVE buf2[i] = f[3 + i]
    <3>1. i - done \in 1 .. a - b /\ b + (i - done) = 3 + i
      BY <1>5, <1>6, <1>60, <2>2
    <3>2. buf2[i] = u[i - done]
      BY <1>80, <2>1, <2>2
    <3> QED
      BY <1>7, <3>1, <3>2
  <2>3. ASSUME i \notin done + 1 .. done + n PROVE buf2[i] = f[3 + i]
    <3>1. i \in 1 .. done
      BY <1>5, <1>6, <2>3
    <3>2. buf2[i] = buf[i]
      BY <1>80, <2>1, <2>3
    <3> QED
      BY <1>8, <3>1, <3>2
  <2> QED
    BY <2>1, <2>2, <2>3
<1> HIDE DEF k
<1>100. s2.at = (IF done + n = l THEN "parse" ELSE "body") /\ s2.done = done + n /\ s2.n = l
        /\ l = PackLen(f)
  BY <1>4 DEF done, l
<1>11. SrvAt(t, f, q, s2, buf2, k, d)
  <2>1. CASE done + n = l
    <3> DEFINE y == Slice(f, 3, k)
    <3>1. 3 \in Nat /\ 3 <= k /\ k = 3 + l /\ k - 3 = l
      BY <1>60, <1>61, <2>1
    <3>2. y = [x \in 1 .. k - 3 |-> y[x]] /\ \A x \in 1 .. k - 3 : y[x] = f[3 + x]
      <4>1. AtWell(f, 3, k)
        BY <1>3, <1>6, <3>1, SliceAt, Zenon
      <4> QED
        BY <4>1, Zenon DEF AtWell
    <3>3. y = [x \in 1 .. l |-> y[x]] /\ \A x \in 1 .. l : y[x] = f[3 + x]
      <4> HIDE DEF y
      <4> QED
        BY <3>1, <3>2
    <3> HIDE DEF y
    <3>4. \A x \in 1 .. l : y[x] = buf2[x]
      BY <1>10, <2>1, <3>3
    <3>5. buf2 = y
      BY <1>9, <3>3, <3>4
    <3>6. s2.at = "parse" /\ k = 3 + PackLen(f)
      BY <1>100, <2>1, <3>1
    <3> QED
      BY <1>4, <3>5, <3>6, Zenon DEF SrvAt, y
  <2>2. CASE done + n # l
    <3>0. done + n \in Nat /\ done + n < l
      BY <1>60, <1>61, <2>2
    <3>1. s2.at = "body" /\ s2.done \in Nat /\ s2.done < s2.n /\ k = 3 + s2.done /\ s2.n = PackLen(f)
      BY <1>60, <1>100, <2>2, <3>0, Zenon
    <3>2. \A i \in 1 .. s2.done : buf2[i] = f[3 + i]
      BY <1>10, <1>100
    <3>3. buf2 = [i \in 1 .. s2.n |-> buf2[i]]
      BY <1>9, <1>100
    <3> QED
      BY <1>4, <3>1, <3>2, <3>3, Zenon DEF SrvAt
  <2> QED
    BY <2>1, <2>2
<1>12. Placed(t, f, q, r, s2, u2, w, buf2, a, k, d, e)
  BY <1>2, <1>6, <1>11 DEF Placed
<1> QED
  BY <1>6, <1>12 DEF Joined

\* ParseRequest, of a request that is not refused.
LEMMA RequestParsed ==
    ASSUME NEW t \in CallTexts, NEW f, NEW q, f = RequestFrame(t), NEW r, NEW s, NEW u, NEW w,
           NEW buf, Joined(t, f, q, r, s, u, w, buf), s.at = "parse",
           NEW req, req = ParseRpcRequest(buf), req.ok,
           NEW s2, s2.at = "call", s2.arg = Field(ParseEchoRequest(Field(req.m, 3)).m, 1)
    PROVE  Joined(t, f, q, r, s2, u, w, buf)
<1>1. PICK a, b, d, e \in Nat : Placed(t, f, q, r, s, u, w, buf, a, b, d, e)
  BY DEF Joined
<1>2. d = 0 /\ b = 3 + PackLen(f) /\ buf = Slice(f, 3, 3 + PackLen(f))
  BY <1>1 DEF Placed, SrvAt
<1>3. b = Len(f) /\ s2.arg = t
  BY <1>2, RequestIsRead
<1>4. SrvAt(t, f, q, s2, buf, b, d)
  BY <1>2, <1>3 DEF SrvAt
<1>5. Placed(t, f, q, r, s2, u, w, buf, a, b, d, e)
  BY <1>1, <1>4 DEF Placed
<1> QED
  BY <1>5 DEF Joined

\* CallServiceMethod.
LEMMA MethodCalled ==
    ASSUME NEW t, NEW f, NEW q, NEW r, NEW s, NEW u, NEW w, NEW buf,
           Joined(t, f, q, r, s, u, w, buf), s.at = "call",
           NEW s2, s2.at = "called", s2.arg = s.arg
    PROVE  Joined(t, f, q, r, s2, u, w, buf)
<1>1. PICK a, b, d, e \in Nat : Placed(t, f, q, r, s, u, w, buf, a, b, d, e)
  BY DEF Joined
<1>2. SrvAt(t, f, q, s2, buf, b, d)
  BY <1>1 DEF Placed, SrvAt
<1>3. Placed(t, f, q, r, s2, u, w, buf, a, b, d, e)
  BY <1>1, <1>2 DEF Placed
<1> QED
  BY <1>3 DEF Joined

\* HandleCall.
LEMMA CallHandled ==
    ASSUME NEW t, NEW f, NEW q, Frames(f, q), NEW r, NEW s, NEW u, NEW w, NEW buf,
           Joined(t, f, q, r, s, u, w, buf), s.at = "called",
           NEW s2, s2.at = "write", s2.done = 0, s2.n = Len(q)
    PROVE  s.arg = t /\ Joined(t, f, q, r, s2, u, w, q)
<1>1. PICK a, b, d, e \in Nat : Placed(t, f, q, r, s, u, w, buf, a, b, d, e)
  BY DEF Joined
<1>2. s.arg = t /\ d = 0 /\ b = Len(f)
  BY <1>1 DEF Placed, SrvAt
<1>3. 0 < Len(q)
  BY DEF Frames
<1>4. SrvAt(t, f, q, s2, q, b, d)
  BY <1>2, <1>3 DEF SrvAt
<1>5. Placed(t, f, q, r, s2, u, w, q, a, b, d, e)
  BY <1>1, <1>4 DEF Placed
<1> QED
  BY <1>2, <1>5 DEF Joined

\* How much a send takes.
LEMMA SendTakes ==
    ASSUME NEW left \in Nat, NEW begins, NEW n \in SendSizes(left, begins)
    PROVE  n \in Nat /\ n <= left
BY RpcAssumption DEF SendSizes

\* ServerSends.
LEMMA AnswerSent ==
    ASSUME NEW t, NEW f, NEW q, Frames(f, q), NEW r, NEW s, NEW u, NEW w, NEW buf,
           Joined(t, f, q, r, s, u, w, buf), s.at = "write",
           NEW n \in SendSizes(s.n - s.done, s.done = 0), NEW w2,
           w2 = w \o [i \in 1 .. n |->
                        IF s.done + i \in DOMAIN buf THEN buf[s.done + i] ELSE 0],
           NEW s2, IF s.done + n = s.n THEN s2 = AwaitsRequest
                   ELSE s2.at = "write" /\ s2.done = s.done + n /\ s2.n = s.n
    PROVE  Joined(t, f, q, r, s2, u, w2, buf)
<1>1. PICK a, b, d, e \in Nat : Placed(t, f, q, r, s, u, w, buf, a, b, d, e)
  BY DEF Joined
<1>2. a <= Len(f) /\ e <= d /\ d <= Len(q) /\ w = Slice(q, e, d) /\ b <= a /\ u = Slice(f, b, a)
      /\ CliAt(f, q, r, a, e)
  BY <1>1 DEF Placed
<1>3. q \in Bytes /\ Len(q) \in Nat
  BY DEF Frames
<1>4. b = Len(f) /\ s.done = d /\ d < Len(q) /\ s.n = Len(q) /\ buf = q
  BY <1>1 DEF Placed, SrvAt
<1> DEFINE left == s.n - s.done
           k == d + n
<1>5. left \in Nat /\ left = Len(q) - d
  BY <1>3, <1>4
<1>6. n \in Nat /\ n <= Len(q) - d
  <2> HIDE DEF left
  <2>1. n \in SendSizes(left, s.done = 0)
    BY DEF left
  <2> QED
    BY <1>5, <2>1, SendTakes
<1>7. k \in Nat /\ d <= k /\ k <= Len(q) /\ k - d = n
  BY <1>3, <1>4, <1>6
<1> DEFINE y == Slice(q, d, k)
           p == [i \in 1 .. n |-> IF s.done + i \in DOMAIN buf THEN buf[s.done + i] ELSE 0]
<1>8. y = p
  <2>1. y = [x \in 1 .. k - d |-> y[x]] /\ \A x \in 1 .. k - d : y[x] = q[d + x]
    <3> HIDE DEF k
    <3>1. AtWell(q, d, k)
      BY <1>3, <1>7, SliceAt, Zenon
    <3> QED
      BY <3>1, Zenon DEF AtWell
  <2> HIDE DEF y, k
  <2>3. y = [i \in 1 .. n |-> y[i]]
    BY <1>7, <2>1
  <2>4. DOMAIN q = 1 .. Len(q)
    BY <1>3 DEF Bytes
  <2>5. ASSUME NEW i \in 1 .. n PROVE p[i] = y[i]
    <3>1. d + i \in 1 .. Len(q)
      BY <1>3, <1>6
    <3>2. p[i] = q[d + i]
      BY <1>4, <2>4, <3>1
    <3> QED
      BY <1>7, <2>1, <3>2
  <2> QED
    BY <2>3, <2>5
<1> HIDE DEF p, k
<1>9. w2 = Slice(q, e, k)
  <2>1. w2 = Slice(q, e, d) \o Slice(q, d, k)
    BY <1>2, <1>8, Zenon DEF p, y
  <2>2. Slice(q, e, d) \o Slice(q, d, k) = Slice(q, e, k)
    <3>1. CutWell(q, e, d, k)
      BY <1>2, <1>3, <1>7, SliceCutsWell, Zenon
    <3> QED
      BY <3>1, Zenon DEF CutWell
  <2> QED
    BY <2>1, <2>2, Zenon
<1>10. SrvAt(t, f, q, s2, buf, b, k)
  <2>1. CASE s.done + n = s.n
    <3>1. s2.at = "head" /\ s2.head = <<>>
      BY <2>1 DEF AwaitsRequest, Connection
    <3>2. k = Len(q)
      BY <1>4, <2>1 DEF k
    <3> QED
      BY <1>4, <3>1, <3>2 DEF SrvAt
  <2>2. CASE s.done + n # s.n
    <3>1. s2.at = "write" /\ s2.done = k /\ s2.n = Len(q) /\ k < Len(q)
      BY <1>3, <1>4, <1>7, <2>2 DEF k
    <3> QED
      BY <1>4, <3>1 DEF SrvAt
  <2> QED
    BY <2>1, <2>2
<1>11. s2.at # "closed"
  BY DEF AwaitsRequest, Connection
<1>12. Placed(t, f, q, r, s2, u, w2, buf, a, b, k, e)
  <2>1. e <= k
    BY <1>2, <1>7
  <2> QED
    BY <1>2, <1>7, <1>9, <1>10, <2>1, Zenon DEF Placed
<1> QED
  BY <1>7, <1>12 DEF Joined

\* A call begins where nothing is on its way.
LEMMA CallBegins ==
    ASSUME NEW t, NEW f, NEW q, Frames(f, q), NEW r, r.at = "write", r.data = f,
           NEW s, NEW u, s.at = "closed" \/ (s.at = "head" /\ s.head = <<>> /\ u = <<>>), NEW buf
    PROVE  Joined(t, f, q, r, s, u, <<>>, buf)
<1>1. f \in Bytes /\ Len(f) \in Nat /\ Len(f) >= 3 /\ q \in Bytes /\ Len(q) \in Nat
  BY DEF Frames
<1>2. 0 \in Nat /\ 0 <= Len(f) /\ 0 <= Len(q) /\ 0 <= 0 /\ 0 < 3
  BY <1>1
<1>3. Slice(f, 0, 0) = <<>> /\ Slice(q, 0, 0) = <<>> /\ Slice(f, 0, Len(f)) = f
  BY <1>1, <1>2, SliceEnds, Zenon
<1>4. CliAt(f, q, r, 0, 0)
  BY <1>3, Zenon DEF CliAt
<1>5. SrvAt(t, f, q, s, buf, 0, 0)
  BY <1>2, <1>3, Zenon DEF SrvAt
<1>6. Placed(t, f, q, r, s, u, <<>>, buf, 0, 0, 0, 0)
  BY <1>2, <1>3, <1>4, <1>5, Zenon DEF Placed
<1> QED
  BY <1>2, <1>6, Zenon DEF Joined

\* CallMethod with the connection of the call before: all of that is over.
LEMMA NextCall ==
    ASSUME NEW t, NEW f, NEW q, Frames(f, q), NEW r, NEW s, NEW u, NEW w, NEW buf,
           Joined(t, f, q, r, s, u, w, buf), r.at = "idle",
           NEW t2, NEW f2, NEW q2, Frames(f2, q2), NEW r2, r2.at = "write", r2.data = f2
    PROVE  Joined(t2, f2, q2, r2, s, u, w, buf)
<1>1. PICK a, b, d, e \in Nat : Placed(t, f, q, r, s, u, w, buf, a, b, d, e)
  BY DEF Joined
<1>2. /\ a <= Len(f) /\ e <= d /\ d <= Len(q) /\ w = Slice(q, e, d)
      /\ s.at # "closed" => u = Slice(f, b, a)
  BY <1>1 DEF Placed
<1>3. f \in Bytes /\ Len(f) \in Nat /\ q \in Bytes /\ Len(q) \in Nat /\ Len(q) > 3
  BY DEF Frames
<1>4. a = Len(f) /\ e = Len(q)
  BY <1>1 DEF Placed, CliAt
<1>5. d = Len(q)
  BY <1>2, <1>3, <1>4
<1>6. d # 0 /\ ~ (d < Len(q))
  BY <1>3, <1>5
<1>7. s.at = "closed" \/ (s.at = "head" /\ b = Len(f) /\ s.head = <<>>)
  BY <1>1, <1>6 DEF Placed, SrvAt
<1>8. w = <<>>
  BY <1>2, <1>3, <1>4, <1>5, SliceEnds
<1>9. s.at # "closed" => u = <<>>
  BY <1>2, <1>3, <1>4, <1>7, SliceEnds
<1>10. Joined(t2, f2, q2, r2, s, u, <<>>, buf)
  BY <1>7, <1>9, CallBegins
<1> QED
  BY <1>8, <1>10

\* ClientSends.
LEMMA RequestSent ==
    ASSUME NEW t, NEW f, NEW q, Frames(f, q), NEW r, NEW s, NEW u, NEW w, NEW buf,
           Joined(t, f, q, r, s, u, w, buf), r.at = "write",
           NEW n \in SendSizes(Len(r.data), r.n = 0),
           NEW u2, u2 = u \o First(r.data, n),
           NEW r2, r2.at = IF n = Len(r.data) THEN "head" ELSE "write", r2.data = Rest(r.data, n)
    PROVE  Joined(t, f, q, r2, s, u2, w, buf)
<1>1. PICK a, b, d, e \in Nat : Placed(t, f, q, r, s, u, w, buf, a, b, d, e)
  BY DEF Joined
<1>2. /\ a <= Len(f) /\ e <= d /\ d <= Len(q) /\ w = Slice(q, e, d)
      /\ s.at # "closed" => b <= a /\ u = Slice(f, b, a)
      /\ SrvAt(t, f, q, s, buf, b, d)
  BY <1>1 DEF Placed
<1>3. f \in Bytes /\ Len(f) \in Nat /\ q \in Bytes /\ Len(q) \in Nat /\ Len(q) > 3
  BY DEF Frames
<1>4. r.data = Slice(f, a, Len(f)) /\ e = 0
  BY <1>1 DEF Placed, CliAt
<1>0. Len(f) - a \in Nat /\ Len(f) <= Len(f)
  BY <1>2, <1>3
<1>5. Len(r.data) = Len(f) - a
  <2>1. a <= Len(f) /\ f \in Bytes /\ Len(f) \in Nat
    BY <1>2, <1>3
  <2>2. Len(Slice(f, a, Len(f))) = Len(f) - a
    BY <1>0, <2>1, SliceLength, Zenon
  <2> QED
    BY <1>4, <2>2
<1>6. n \in Nat /\ n <= Len(f) - a
  BY <1>0, <1>5, SendTakes
<1> DEFINE k == a + n
<1>7. k \in Nat /\ a <= k /\ k <= Len(f) /\ k - a = n
  BY <1>3, <1>6
<1>8. First(r.data, n) = Slice(f, a, k) /\ r2.data = Slice(f, k, Len(f))
  <2>1. f \in Bytes /\ Len(f) \in Nat /\ a <= Len(f) /\ Len(f) <= Len(f) /\ r.data = Slice(f, a, Len(f))
        /\ n \in Nat /\ n <= Len(f) - a
    BY <1>0, <1>2, <1>3, <1>4, <1>6
  <2> HIDE DEF k
  <2>2. First(r.data, n) = Slice(f, a, a + n) /\ Rest(r.data, n) = Slice(f, a + n, Len(f))
    <3>1. TakenWell(f, a, Len(f), r.data, n)
      BY <2>1, PieceTaken, Zenon
    <3> QED
      BY <3>1, Zenon DEF TakenWell
  <2> QED
    BY <2>2, Zenon DEF k
<1> HIDE DEF k
<1>9. ASSUME s.at # "closed" PROVE b <= k /\ u2 = Slice(f, b, k)
  <2>1. b <= a /\ b <= k
    BY <1>2, <1>7, <1>9
  <2>2. u2 = Slice(f, b, a) \o Slice(f, a, k)
    BY <1>2, <1>8, <1>9
  <2>3. CutWell(f, b, a, k)
    BY <1>3, <1>7, <2>1, SliceCutsWell, Zenon
  <2> QED
    BY <2>1, <2>2, <2>3, Zenon DEF CutWell
<1>10. CliAt(f, q, r2, k, e)
  <2>1. CASE n = Len(r.data)
    <3>1. k = Len(f)
      BY <1>3, <1>5, <1>7, <2>1
    <3>2. r2.data = <<>> /\ Slice(q, 0, 0) = <<>>
      BY <1>3, <1>7, <1>8, <3>1, SliceEnds
    <3>3. r2.at = "head" /\ e < 3
      BY <1>4, <2>1
    <3> QED
      BY <1>4, <3>1, <3>2, <3>3 DEF CliAt
  <2>2. CASE n # Len(r.data)
    <3>1. r2.at = "write"
      BY <2>2
    <3> QED
      BY <1>4, <1>8, <3>1 DEF CliAt
  <2> QED
    BY <2>1, <2>2
<1>11. Placed(t, f, q, r2, s, u2, w, buf, k, b, d, e)
  BY <1>2, <1>7, <1>9, <1>10 DEF Placed
<1> QED
  BY <1>7, <1>11 DEF Joined

\* ClientReceivesHead.
LEMMA AnswerHead ==
    ASSUME NEW t, NEW f, NEW q, Frames(f, q), NEW r, NEW s, NEW u, NEW w, NEW buf,
           Joined(t, f, q, r, s, u, w, buf), r.at = "head",
           NEW n, n = Least(3 - Len(r.data), Len(w)), n > 0,
           NEW head, head = r.data \o First(w, n), NEW w2, w2 = Rest(w, n)
    PROVE  /\ Len(head) < 3 => \A r2 : r2.at = "head" /\ r2.data = head
                => Joined(t, f, q, r2, s, u, w2, buf)
           /\ ~ (Len(head) < 3) => \A r2 :
                r2.at = "body" /\ r2.data = <<>> /\ r2.n = PackLen(head) /\ PackLen(head) # 0
                => Joined(t, f, q, r2, s, u, w2, buf)
<1>1. PICK a, b, d, e \in Nat : Placed(t, f, q, r, s, u, w, buf, a, b, d, e)
  BY DEF Joined
<1>2. /\ a <= Len(f) /\ e <= d /\ d <= Len(q) /\ w = Slice(q, e, d)
      /\ s.at # "closed" => b <= a /\ u = Slice(f, b, a)
      /\ SrvAt(t, f, q, s, buf, b, d)
  BY <1>1 DEF Placed
<1>3. q \in Bytes /\ Len(q) \in Nat /\ Len(q) > 3 /\ Len(q) >= 3 /\ PackLen(q) \in Nat
  BY DEF Frames
<1>4. a = Len(f) /\ e < 3 /\ r.data = Slice(q, 0, e)
  BY <1>1 DEF Placed, CliAt
<1>5. Len(r.data) = e
  <2>1. 0 \in Nat /\ 0 <= e /\ e <= Len(q) /\ e - 0 = e
    BY <1>2, <1>3
  <2> QED
    BY <1>3, <1>4, <2>1, SliceLength
<1> DEFINE m == 3 - e
           k == e + n
<1>6. m \in Nat /\ n = Least(m, Len(w))
  BY <1>4, <1>5
<1> HIDE DEF m
<1>7. /\ n \in Nat /\ n <= m /\ k \in Nat /\ k <= d /\ k <= Len(q)
      /\ First(w, n) = Slice(q, e, k) /\ w2 = Slice(q, k, d)
  BY <1>2, <1>3, <1>6, ReadPiece
<1>8. e <= k /\ k <= 3
  BY <1>7 DEF m
<1> HIDE DEF k
<1>9. head = Slice(q, 0, k) /\ Len(head) = k
  <2>1. 0 \in Nat /\ 0 <= k /\ k - 0 = k
    BY <1>7
  <2>2. Slice(q, 0, e) \o Slice(q, e, k) = Slice(q, 0, k)
    BY <1>3, <1>7, <1>8, SliceGrows
  <2>3. Len(Slice(q, 0, k)) = k - 0
    BY <1>3, <1>7, <2>1, SliceLength
  <2> QED
    BY <1>4, <1>7, <2>1, <2>2, <2>3
<1>10. ASSUME NEW r2, CliAt(f, q, r2, a, k) PROVE Joined(t, f, q, r2, s, u, w2, buf)
  <2>1. Placed(t, f, q, r2, s, u, w2, buf, a, b, d, k)
    BY <1>2, <1>7, <1>10 DEF Placed
  <2> QED
    BY <1>7, <2>1 DEF Joined
<1>11. ASSUME Len(head) < 3, NEW r2, r2.at = "head", r2.data = head
       PROVE  Joined(t, f, q, r2, s, u, w2, buf)
  <2>1. k < 3
    BY <1>9, <1>11, Zenon
  <2>2. CliAt(f, q, r2, a, k)
    BY <1>4, <1>9, <1>11, <2>1 DEF CliAt
  <2> QED
    BY <1>10, <2>2
<1>12. ASSUME ~ (Len(head) < 3), NEW r2, r2.at = "body", r2.data = <<>>,
              r2.n = PackLen(head), PackLen(head) # 0
       PROVE  Joined(t, f, q, r2, s, u, w2, buf)
  <2>0. ~ (k < 3)
    BY <1>9, <1>12, Zenon
  <2>1. k = 3
    BY <1>7, <1>8, <2>0
  <2>2. PackLen(head) = PackLen(q)
    BY <1>3, <1>9, <2>1, HeadIs
  <2>3. 3 <= k /\ k < 3 + r2.n /\ r2.n = PackLen(q)
    BY <1>3, <1>12, <2>1, <2>2
  <2>4. Slice(q, 3, k) = <<>>
    BY <1>3, <1>7, <2>1, SliceEnds
  <2>5. CliAt(f, q, r2, a, k)
    BY <1>4, <1>12, <2>3, <2>4 DEF CliAt
  <2> QED
    BY <1>10, <2>5
<1> QED
  BY <1>11, <1>12

\* ClientReceivesBody: an answer that is parsed is whole, and says t.
BodyRead(t, f, q, r, s, u, buf, bytes, w2) ==
    /\ Len(bytes) < r.n => \A r2 : r2.at = "body" /\ r2.data = bytes /\ r2.n = r.n
         => Joined(t, f, q, r2, s, u, w2, buf)
    /\ Len(bytes) = r.n /\ ParseRpcResponse(bytes).ok
         => /\ Field(ParseEchoResponse(Field(ParseRpcResponse(bytes).m, 1)).m, 1) = t
            /\ \A r2 : r2.at = "idle" => Joined(t, f, q, r2, s, u, w2, buf)
\* The answer grows by a read, or is parsed.
LEMMA AnswerBody ==
    ASSUME NEW t \in CallTexts, NEW f, NEW q, Frames(f, q), q = ResponseFrame(t),
           NEW r, NEW s, NEW u, NEW w, NEW buf,
           Joined(t, f, q, r, s, u, w, buf), r.at = "body",
           NEW n, n = Least(r.n - Len(r.data), Len(w)), n > 0,
           NEW bytes, bytes = r.data \o First(w, n), NEW w2, w2 = Rest(w, n)
    PROVE  BodyRead(t, f, q, r, s, u, buf, bytes, w2)
<1>1. PICK a, b, d, e \in Nat : Placed(t, f, q, r, s, u, w, buf, a, b, d, e)
  BY DEF Joined
<1>2. /\ a <= Len(f) /\ e <= d /\ d <= Len(q) /\ w = Slice(q, e, d)
      /\ s.at # "closed" => b <= a /\ u = Slice(f, b, a)
      /\ SrvAt(t, f, q, s, buf, b, d)
  BY <1>1 DEF Placed
<1>3. q \in Bytes /\ Len(q) \in Nat /\ PackLen(q) \in Nat
  BY DEF Frames
<1>4. a = Len(f) /\ 3 <= e /\ e < 3 + r.n /\ r.n = PackLen(q) /\ r.data = Slice(q, 3, e)
  BY <1>1 DEF Placed, CliAt
<1>5. Len(r.data) = e - 3
  <2>1. 3 \in Nat /\ e <= Len(q)
    BY <1>2, <1>3
  <2> QED
    BY <1>3, <1>4, <2>1, SliceLength
<1> DEFINE m == r.n - (e - 3)
           k == e + n
<1>6. m \in Nat /\ n = Least(m, Len(w))
  BY <1>3, <1>4, <1>5
<1> HIDE DEF m
<1>7. /\ n \in Nat /\ n <= m /\ k \in Nat /\ k <= d /\ k <= Len(q)
      /\ First(w, n) = Slice(q, e, k) /\ w2 = Slice(q, k, d)
  BY <1>2, <1>3, <1>6, ReadPiece
<1>8. e <= k /\ 3 <= k
  BY <1>4, <1>7
<1> HIDE DEF k
<1>9. bytes = Slice(q, 3, k) /\ Len(bytes) = k - 3
  <2>1. 3 \in Nat
    OBVIOUS
  <2>2. Slice(q, 3, e) \o Slice(q, e, k) = Slice(q, 3, k)
    <3>1. q \in Bytes /\ 3 <= e /\ e <= k /\ k <= Len(q) /\ k \in Nat
      BY <1>3, <1>4, <1>7, <1>8
    <3>2. CutWell(q, 3, e, k)
      BY <2>1, <3>1, SliceCutsWell, Zenon
    <3> QED
      BY <3>2, Zenon DEF CutWell
  <2>3. Len(Slice(q, 3, k)) = k - 3
    BY <1>3, <1>7, <1>8, <2>1, SliceLength
  <2> QED
    BY <1>4, <1>7, <2>2, <2>3
<1>10. ASSUME NEW r2, CliAt(f, q, r2, a, k) PROVE Joined(t, f, q, r2, s, u, w2, buf)
  <2>1. Placed(t, f, q, r2, s, u, w2, buf, a, b, d, k)
    BY <1>2, <1>7, <1>10 DEF Placed
  <2> QED
    BY <1>7, <2>1 DEF Joined
<1>11. ASSUME Len(bytes) < r.n, NEW r2, r2.at = "body", r2.data = bytes, r2.n = r.n
       PROVE  Joined(t, f, q, r2, s, u, w2, buf)
  <2>0. k - 3 < PackLen(q)
    BY <1>4, <1>9, <1>11, Zenon
  <2>1. k < 3 + r2.n /\ r2.n = PackLen(q)
    BY <1>3, <1>4, <1>7, <1>11, <2>0
  <2>2. CliAt(f, q, r2, a, k)
    BY <1>4, <1>8, <1>9, <1>11, <2>1 DEF CliAt
  <2> QED
    BY <1>10, <2>2
<1>12. ASSUME Len(bytes) = r.n, ParseRpcResponse(bytes).ok
       PROVE  /\ Field(ParseEchoResponse(Field(ParseRpcResponse(bytes).m, 1)).m, 1) = t
              /\ \A r2 : r2.at = "idle" => Joined(t, f, q, r2, s, u, w2, buf)
  <2>0. k - 3 = PackLen(q)
    BY <1>4, <1>9, <1>12, Zenon
  <2>1. k = 3 + PackLen(q)
    BY <1>3, <1>7, <2>0
  <2>2. bytes = Slice(q, 3, 3 + PackLen(q))
    BY <1>9, <2>1, Zenon
  <2>3. /\ 3 + PackLen(q) = Len(q)
        /\ Field(ParseEchoResponse(Field(ParseRpcResponse(bytes).m, 1)).m, 1) = t
    BY <1>12, <2>2, ResponseIsRead
  <2>4. ASSUME NEW r2, r2.at = "idle" PROVE Joined(t, f, q, r2, s, u, w2, buf)
    <3>1. CliAt(f, q, r2, a, k)
      BY <1>4, <2>1, <2>3, <2>4 DEF CliAt
    <3> QED
      BY <1>10, <3>1
  <2> QED
    BY <2>3, <2>4
<1> QED
  BY <1>11, <1>12 DEF BodyRead

-----------------------------------------------------------------------------
(* Who gets whose answer.                                                  *)

IsClient(r) == r = [x \in {"at", "conn", "data", "n", "calls", "result"} |-> r[x]]
IsConnection(s) == s = [x \in {"at", "head", "done", "n", "arg"} |-> s[x]]

StreamsAre == up = [k \in Conns |-> up[k]] /\ down = [k \in Conns |-> down[k]]

\* A connection has one client at most.
ClientIs(r) ==
    /\ IsClient(r) /\ r.conn \in Conns \cup {NoConn} /\ r.calls \in Nat /\ r.calls <= MaxCalls
    /\ r.conn = NoConn => r.at = "idle"
    /\ r.conn # NoConn => r.calls >= 1
ClientsAre ==
    /\ cli = [c \in RpcClients |-> cli[c]]
    /\ \A c \in RpcClients : ClientIs(cli[c])
    /\ \A c, d \in RpcClients : cli[c].conn = cli[d].conn /\ cli[c].conn # NoConn => c = d

\* A call waits once in the mailbox of InternalRpcService, and its
\* connection's service waits for it.
ServicesAre ==
    /\ srv = [k \in Conns |-> srv[k]] /\ \A k \in Conns : IsConnection(srv[k])
    /\ rpcQueue \in Seq(Conns)
    /\ \A i, j \in 1 .. Len(rpcQueue) : rpcQueue[i] = rpcQueue[j] => i = j
    /\ \A i \in 1 .. Len(rpcQueue) : srv[rpcQueue[i]].at = "called"

\* One service at a time uses buffer_.
InTurn == \A j, k \in Conns : UsesBuffer(j) /\ UsesBuffer(k) => j = k

\* A client's record r, and what there is of its connection.
Linked(c, r, s, u, w, buf) ==
    LET t == TextOf[c][r.calls] IN
    Joined(t, RequestFrame(t), ResponseFrame(t), r, s, u, w, buf)
AllLinked ==
    \A c \in RpcClients : cli[c].conn # NoConn =>
        LET k == cli[c].conn IN Linked(c, cli[c], srv[k], up[k], down[k], buffer)

\* The inductive invariant of AnswersAreOwn.
RpcInv ==
    /\ StreamsAre /\ ClientsAre /\ ServicesAre /\ overlapped \in BOOLEAN
    /\ overlapped \/ (InTurn /\ AllLinked /\ AnswerIsOwn)

\* What is known of the text and the frames of a call.
LEMMA CallFrames ==
    ASSUME NEW c \in RpcClients, NEW n \in Nat, 1 <= n, n <= MaxCalls
    PROVE  /\ TextOf[c][n] \in CallTexts
           /\ Frames(RequestFrame(TextOf[c][n]), ResponseFrame(TextOf[c][n]))
<1> DEFINE t == TextOf[c][n]
<1>1. n \in 1 .. MaxCalls
  BY RpcAssumption
<1>2. t \in CallTexts
  BY <1>1, TextAssumption DEF CallTexts, TextMax, Bytes
<1> HIDE DEF t
<1> DEFINE f == RequestFrame(t)
           q == ResponseFrame(t)
<1>3. f \in Bytes /\ Len(f) >= 3 /\ PackLen(f) \in Nat /\ PackLen(f) <= Len(f) - 3
  BY <1>2, RequestIsRead
<1>4. q \in Bytes /\ Len(q) > 3 /\ PackLen(q) \in Nat /\ PackLen(q) <= Len(q) - 3
  BY <1>2, ResponseIsRead
<1> HIDE DEF f, q
<1>5. Len(f) \in Nat /\ Len(q) \in Nat
  BY <1>3, <1>4, BytesAre
<1>6. Frames(f, q)
  BY <1>3, <1>4, <1>5 DEF Frames
<1> QED
  BY <1>2, <1>6 DEF t, f, q

\* A step of client c, to record r.
LEMMA ClientStep ==
    ASSUME RpcInv, NEW c \in RpcClients, NEW r, ClientIs(r), overlapped \/ r.result # "other",
           \A d \in RpcClients : d # c /\ r.conn # NoConn => cli[d].conn # r.conn,
           cli' = [cli EXCEPT ![c] = r], StreamsAre', ServicesAre',
           buffer' = buffer, overlapped' = overlapped,
           \A j \in Conns : UsesBuffer(j)' => UsesBuffer(j),
           \A d \in RpcClients : d # c /\ cli[d].conn # NoConn =>
               LET k == cli[d].conn IN srv'[k] = srv[k] /\ up'[k] = up[k] /\ down'[k] = down[k],
           ~ overlapped /\ r.conn # NoConn =>
               LET k == r.conn IN Linked(c, r, srv'[k], up'[k], down'[k], buffer)
    PROVE  RpcInv'
<1>1. /\ cli = [x \in RpcClients |-> cli[x]]
      /\ \A x \in RpcClients : ClientIs(cli[x])
      /\ \A x, y \in RpcClients : cli[x].conn = cli[y].conn /\ cli[x].conn # NoConn => x = y
  BY DEF RpcInv, ClientsAre
<1>2. cli' = [x \in RpcClients |-> cli'[x]] /\ cli'[c] = r /\ \A d \in RpcClients : d # c => cli'[d] = cli[d]
  BY <1>1
<1>3. \A x \in RpcClients : ClientIs(cli'[x])
  BY <1>1, <1>2
<1>4. \A x, y \in RpcClients : cli'[x].conn = cli'[y].conn /\ cli'[x].conn # NoConn => x = y
  <2> SUFFICES ASSUME NEW x \in RpcClients, NEW y \in RpcClients,
                      cli'[x].conn = cli'[y].conn, cli'[x].conn # NoConn
               PROVE  x = y
    OBVIOUS
  <2>1. CASE x = c
    BY <1>2, <2>1
  <2>2. CASE y = c
    BY <1>2, <2>2
  <2>3. CASE x # c /\ y # c
    BY <1>1, <1>2, <2>3
  <2> QED
    BY <2>1, <2>2, <2>3
<1>5. ClientsAre'
  BY <1>2, <1>3, <1>4, Zenon DEF ClientsAre, ClientIs
<1>6. ASSUME ~ overlapped PROVE InTurn' /\ AllLinked' /\ AnswerIsOwn'
  <2>1. InTurn /\ AllLinked /\ AnswerIsOwn
    BY <1>6 DEF RpcInv
  <2>2. InTurn'
    BY <2>1 DEF InTurn
  <2>3. AnswerIsOwn'
    BY <1>2, <1>6, <2>1 DEF AnswerIsOwn
  <2>4. ASSUME NEW d \in RpcClients, cli'[d].conn # NoConn
        PROVE  Linked(d, cli'[d], srv'[cli'[d].conn], up'[cli'[d].conn], down'[cli'[d].conn], buffer')
    <3>1. CASE d = c
      BY <1>2, <1>6, <2>4, <3>1, Zenon
    <3>2. CASE d # c
      <4>1. cli'[d] = cli[d] /\ cli[d].conn # NoConn
        BY <1>2, <2>4, <3>2
      <4>2. Linked(d, cli[d], srv[cli[d].conn], up[cli[d].conn], down[cli[d].conn], buffer)
        BY <2>1, <4>1, Zenon DEF AllLinked
      <4>3. srv'[cli[d].conn] = srv[cli[d].conn] /\ up'[cli[d].conn] = up[cli[d].conn]
            /\ down'[cli[d].conn] = down[cli[d].conn]
        BY <3>2, <4>1
      <4> QED
        BY <4>1, <4>2, <4>3, Zenon
    <3> QED
      BY <3>1, <3>2
  <2>5. AllLinked'
    BY <2>4, Zenon DEF AllLinked, Linked
  <2> QED
    BY <2>2, <2>3, <2>5
<1>7. overlapped' \in BOOLEAN
  BY DEF RpcInv
<1> QED
  BY <1>5, <1>6, <1>7, Zenon DEF RpcInv

UsesIt(s) == s.at \in {"body", "parse", "write"}
Alone(k) == \A j \in Conns : j # k => ~ UsesBuffer(j)

\* A step of the service of connection k, to record s.
LEMMA ServiceStep ==
    ASSUME RpcInv, NEW k \in Conns, NEW s, srv' = [srv EXCEPT ![k] = s], cli' = cli,
           ServicesAre', StreamsAre', overlapped' \in BOOLEAN, overlapped => overlapped',
           \A j \in Conns : j # k => up'[j] = up[j] /\ down'[j] = down[j],
           ~ overlapped' => Alone(k) \/ (buffer' = buffer /\ (UsesIt(s) => UsesBuffer(k))),
           ~ overlapped' => \A c \in RpcClients : cli[c].conn = k =>
               Linked(c, cli[c], s, up'[k], down'[k], buffer')
    PROVE  RpcInv'
<1>1. srv'[k] = s /\ \A j \in Conns : j # k => srv'[j] = srv[j]
  BY DEF RpcInv, ServicesAre
<1>2. ClientsAre'
  BY DEF RpcInv, ClientsAre
<1>3. ASSUME ~ overlapped' PROVE InTurn' /\ AllLinked' /\ AnswerIsOwn'
  <2>1. InTurn /\ AllLinked /\ AnswerIsOwn
    BY <1>3 DEF RpcInv
  <2>2. AnswerIsOwn'
    BY <2>1 DEF AnswerIsOwn
  <2>3. /\ UsesBuffer(k)' <=> UsesIt(s)
        /\ \A j \in Conns : j # k => (UsesBuffer(j)' <=> UsesBuffer(j))
    BY <1>1 DEF UsesBuffer, UsesIt
  <2>4. InTurn'
    <3> SUFFICES ASSUME NEW i \in Conns, NEW j \in Conns, UsesBuffer(i)', UsesBuffer(j)' PROVE i = j
      BY DEF InTurn
    <3>1. CASE Alone(k)
      BY <2>3, <3>1 DEF Alone
    <3>2. CASE UsesIt(s) => UsesBuffer(k)
      <4>1. UsesBuffer(i) /\ UsesBuffer(j)
        BY <2>3, <3>2
      <4> QED
        BY <2>1, <4>1 DEF InTurn
    <3> QED
      BY <1>3, <3>1, <3>2
  <2>5. ASSUME NEW c \in RpcClients, cli[c].conn # NoConn
        PROVE  Linked(c, cli[c], srv'[cli[c].conn], up'[cli[c].conn], down'[cli[c].conn], buffer')
    <3>0. cli[c].conn \in Conns
      BY <2>5 DEF RpcInv, ClientsAre, ClientIs
    <3>1. CASE cli[c].conn = k
      <4>1. Linked(c, cli[c], s, up'[k], down'[k], buffer')
        BY <1>3, <3>1
      <4> QED
        BY <1>1, <3>1, <4>1, Zenon
    <3>2. CASE cli[c].conn # k
      <4> DEFINE j == cli[c].conn
      <4>1. srv'[j] = srv[j] /\ up'[j] = up[j] /\ down'[j] = down[j]
        BY <1>1, <3>0, <3>2
      <4>2. Linked(c, cli[c], srv[j], up[j], down[j], buffer)
        BY <2>1, <2>5, Zenon DEF AllLinked
      <4>3. CASE buffer' = buffer
        BY <4>1, <4>2, <4>3, Zenon
      <4>4. CASE Alone(k)
        <5>1. srv[j].at \notin {"body", "parse", "write"}
          BY <3>0, <3>2, <4>4 DEF Alone, UsesBuffer
        <5> HIDE DEF j
        <5>2. Linked(c, cli[c], srv[j], up[j], down[j], buffer')
          BY <4>2, <5>1, OtherBuffer DEF Linked
        <5> QED
          BY <4>1, <5>2, Zenon DEF j
      <4> QED
        BY <1>3, <4>3, <4>4
    <3> QED
      BY <3>1, <3>2
  <2>6. AllLinked'
    BY <2>5, Zenon DEF AllLinked, Linked
  <2> QED
    BY <2>2, <2>4, <2>6
<1> QED
  BY <1>2, <1>3, Zenon DEF RpcInv

\* The fields of a record that a step makes.
LEMMA ClientFields ==
    ASSUME NEW at, NEW conn, NEW data, NEW n, NEW calls, NEW result, NEW r,
           r = Client(at, conn, data, n, calls, result)
    PROVE  /\ r.at = at /\ r.conn = conn /\ r.data = data /\ r.n = n /\ r.calls = calls
           /\ r.result = result /\ IsClient(r)
BY DEF Client, IsClient

\* The same of a service.
LEMMA ConnectionFields ==
    ASSUME NEW at, NEW head, NEW done, NEW n, NEW arg, NEW s,
           s = Connection(at, head, done, n, arg)
    PROVE  /\ s.at = at /\ s.head = head /\ s.done = done /\ s.n = n /\ s.arg = arg
           /\ IsConnection(s)
BY DEF Connection, IsConnection

\* The records that EXCEPT makes of one.
LEMMA ClientRead ==
    ASSUME NEW r, IsClient(r), NEW data, NEW r2, r2 = [r EXCEPT !.data = data]
    PROVE  /\ IsClient(r2) /\ r2.at = r.at /\ r2.data = data /\ r2.n = r.n /\ r2.conn = r.conn
           /\ r2.calls = r.calls /\ r2.result = r.result
BY DEF IsClient

\* The next record of a service: more of the head,
LEMMA ServiceHead ==
    ASSUME NEW s, IsConnection(s), NEW head, NEW s2, s2 = [s EXCEPT !.head = head]
    PROVE  IsConnection(s2) /\ s2.at = s.at /\ s2.head = head
BY DEF IsConnection

\* more of the message,
LEMMA ServiceDone ==
    ASSUME NEW s, IsConnection(s), NEW done, NEW s2, s2 = [s EXCEPT !.done = done]
    PROVE  IsConnection(s2) /\ s2.at = s.at /\ s2.done = done /\ s2.n = s.n
BY DEF IsConnection

\* the next step.
LEMMA ServiceAt ==
    ASSUME NEW s, IsConnection(s), NEW at, NEW s2, s2 = [s EXCEPT !.at = at]
    PROVE  IsConnection(s2) /\ s2.at = at /\ s2.arg = s.arg
BY DEF IsConnection

\* A failed call: the client keeps nothing.
LEMMA CallFails ==
    ASSUME RpcInv, NEW c \in RpcClients, NEW n \in Nat, n <= MaxCalls,
           cli' = [cli EXCEPT ![c] = Client("idle", NoConn, <<>>, 0, n, "failed")],
           srv' = srv, buffer' = buffer, rpcQueue' = rpcQueue, overlapped' = overlapped,
           up' = up, StreamsAre',
           \A k \in Conns : k # cli[c].conn => down'[k] = down[k]
    PROVE  RpcInv'
<1> DEFINE r == Client("idle", NoConn, <<>>, 0, n, "failed")
<1>1. r.at = "idle" /\ r.conn = NoConn /\ r.calls = n /\ r.result = "failed" /\ IsClient(r)
  BY ClientFields
<1>2. cli' = [cli EXCEPT ![c] = r]
  OBVIOUS
<1> HIDE DEF r
<1>3. ClientIs(r) /\ (overlapped \/ r.result # "other")
  BY <1>1 DEF ClientIs
<1>4. ServicesAre'
  BY DEF RpcInv, ServicesAre
<1>5. \A j \in Conns : UsesBuffer(j)' => UsesBuffer(j)
  BY DEF UsesBuffer
<1>6. ASSUME NEW d \in RpcClients, d # c, cli[d].conn # NoConn
      PROVE  LET k == cli[d].conn IN srv'[k] = srv[k] /\ up'[k] = up[k] /\ down'[k] = down[k]
  <2>1. cli[d].conn \in Conns /\ cli[d].conn # cli[c].conn
    BY <1>6 DEF RpcInv, ClientsAre, ClientIs
  <2> QED
    BY <2>1
<1> QED
  BY <1>1, <1>2, <1>3, <1>4, <1>5, <1>6, ClientStep

\* A step of a call that goes on, or has its answer: record r of client c
\* keeps the connection.
LEMMA CallGoesOn ==
    ASSUME RpcInv, NEW c \in RpcClients, cli[c].conn # NoConn,
           NEW r, IsClient(r), r.conn = cli[c].conn, r.calls \in Nat, r.calls <= MaxCalls,
           r.calls >= 1, overlapped \/ r.result # "other", cli' = [cli EXCEPT ![c] = r],
           srv' = srv, buffer' = buffer, rpcQueue' = rpcQueue, overlapped' = overlapped,
           NEW u, NEW w, up' = [up EXCEPT ![cli[c].conn] = u],
           down' = [down EXCEPT ![cli[c].conn] = w],
           ~ overlapped => Linked(c, r, srv[cli[c].conn], u, w, buffer)
    PROVE  RpcInv'
<1> DEFINE k == cli[c].conn
<1>1. k \in Conns /\ \A d \in RpcClients : d # c => cli[d].conn # k
  BY DEF RpcInv, ClientsAre, ClientIs
<1>2. ClientIs(r)
  BY <1>1 DEF ClientIs
<1>3. ServicesAre'
  BY DEF RpcInv, ServicesAre
<1>4. /\ StreamsAre' /\ up'[k] = u /\ down'[k] = w
      /\ \A j \in Conns : j # k => up'[j] = up[j] /\ down'[j] = down[j]
  BY <1>1 DEF RpcInv, StreamsAre
<1>5. \A j \in Conns : UsesBuffer(j)' => UsesBuffer(j)
  BY DEF UsesBuffer
<1>6. ASSUME NEW d \in RpcClients, d # c, cli[d].conn # NoConn
      PROVE  LET j == cli[d].conn IN srv'[j] = srv[j] /\ up'[j] = up[j] /\ down'[j] = down[j]
  <2>1. cli[d].conn \in Conns /\ cli[d].conn # k
    BY <1>1, <1>6 DEF RpcInv, ClientsAre, ClientIs
  <2> QED
    BY <1>4, <2>1
<1>7. ~ overlapped => LET j == r.conn IN Linked(c, r, srv'[j], up'[j], down'[j], buffer)
  BY <1>4, Zenon
<1>8. \A d \in RpcClients : d # c /\ r.conn # NoConn => cli[d].conn # r.conn
  BY <1>1
<1> QED
  BY <1>2, <1>3, <1>4, <1>5, <1>6, <1>7, <1>8, ClientStep

\* What is known of a client that is not idle, or kept its connection.
LEMMA InCall ==
    ASSUME RpcInv, NEW c \in RpcClients, cli[c].at # "idle" \/ cli[c].conn # NoConn
    PROVE  /\ cli[c].conn # NoConn /\ cli[c].conn \in Conns /\ IsClient(cli[c])
           /\ cli[c].calls \in Nat /\ 1 <= cli[c].calls /\ cli[c].calls >= 1 /\ cli[c].calls <= MaxCalls
           /\ ~ overlapped => /\ cli[c].result # "other"
                              /\ Linked(c, cli[c], srv[cli[c].conn], up[cli[c].conn], down[cli[c].conn], buffer)
           /\ TextOf[c][cli[c].calls] \in CallTexts
           /\ Frames(RequestFrame(TextOf[c][cli[c].calls]), ResponseFrame(TextOf[c][cli[c].calls]))
<1>1. /\ cli[c].conn # NoConn /\ cli[c].conn \in Conns /\ IsClient(cli[c])
      /\ cli[c].calls \in Nat /\ 1 <= cli[c].calls /\ cli[c].calls >= 1 /\ cli[c].calls <= MaxCalls
  BY DEF RpcInv, ClientsAre, ClientIs
<1>2. ASSUME ~ overlapped
      PROVE  /\ cli[c].result # "other"
             /\ Linked(c, cli[c], srv[cli[c].conn], up[cli[c].conn], down[cli[c].conn], buffer)
  BY <1>1, <1>2 DEF RpcInv, AnswerIsOwn, AllLinked
<1>3. /\ TextOf[c][cli[c].calls] \in CallTexts
      /\ Frames(RequestFrame(TextOf[c][cli[c].calls]), ResponseFrame(TextOf[c][cli[c].calls]))
  BY <1>1, CallFrames
<1> QED
  BY <1>1, <1>2, <1>3

\* CallMethod on the connection of the call before.
LEMMA CallMethodKeeps ==
    ASSUME RpcInv, NEW c \in RpcClients, CallMethod(c)
    PROVE  RpcInv'
<1> DEFINE k == cli[c].conn
           n == cli[c].calls + 1
           f == RequestOf(c)
           r == Client("write", k, f, 0, n, "none")
           t == TextOf[c][cli[c].calls]
           t2 == TextOf[c][n]
<1>1. /\ cli[c].at = "idle" /\ k # NoConn /\ cli[c].calls < MaxCalls /\ cli' = [cli EXCEPT ![c] = r]
      /\ up' = up /\ down' = down /\ srv' = srv
      /\ buffer' = buffer /\ rpcQueue' = rpcQueue /\ overlapped' = overlapped
  BY DEF CallMethod, ToClient, serverSide
<1>2. /\ k \in Conns /\ cli[c].calls \in Nat
      /\ ~ overlapped => Linked(c, cli[c], srv[k], up[k], down[k], buffer)
      /\ Frames(RequestFrame(t), ResponseFrame(t))
  BY <1>1, InCall
<1>3. n \in Nat /\ 1 <= n /\ n >= 1 /\ n <= MaxCalls
  BY <1>1, <1>2, RpcAssumption
<1>4. f = RequestFrame(t2)
  BY DEF RequestOf, RequestFrame
<1> HIDE DEF n, f
<1>5. Frames(f, ResponseFrame(t2))
  BY <1>3, <1>4, CallFrames
<1>6. r.at = "write" /\ r.conn = k /\ r.data = f /\ r.calls = n /\ r.result = "none" /\ IsClient(r)
  BY ClientFields
<1> HIDE DEF r
<1>7. ASSUME ~ overlapped PROVE Linked(c, r, srv[k], up[k], down[k], buffer)
  <2>1. Joined(t, RequestFrame(t), ResponseFrame(t), cli[c], srv[k], up[k], down[k], buffer)
    BY <1>2, <1>7 DEF Linked
  <2>2. Joined(t2, f, ResponseFrame(t2), r, srv[k], up[k], down[k], buffer)
    <3> HIDE DEF t, t2, k
    <3> QED
      BY <1>1, <1>2, <1>5, <1>6, <2>1, NextCall
  <2> QED
    BY <1>4, <1>6, <2>2, Zenon DEF Linked
<1>8. up' = [up EXCEPT ![k] = up[k]] /\ down' = [down EXCEPT ![k] = down[k]]
  BY <1>1, <1>2 DEF RpcInv, StreamsAre
<1>9. overlapped \/ r.result # "other"
  BY <1>6
<1> QED
  BY <1>1, <1>3, <1>6, <1>7, <1>8, <1>9, CallGoesOn

\* CallMethod on a new connection.
LEMMA CallMethodConnectsKeeps ==
    ASSUME RpcInv, NEW c \in RpcClients, NEW k \in Conns, CallMethodConnects(c, k)
    PROVE  RpcInv'
<1> DEFINE n == cli[c].calls + 1
           f == RequestOf(c)
           r == Client("write", k, f, 0, n, "none")
           s == IF serving THEN AwaitsRequest ELSE Closed
           t == TextOf[c][n]
<1>1. /\ cli[c].calls < MaxCalls /\ cli' = [cli EXCEPT ![c] = r]
      /\ FreeConn(k) /\ srv' = [srv EXCEPT ![k] = s]
      /\ up' = [up EXCEPT ![k] = <<>>] /\ down' = [down EXCEPT ![k] = <<>>]
      /\ buffer' = buffer /\ rpcQueue' = rpcQueue /\ overlapped' = overlapped
  BY DEF CallMethodConnects, ToClient, serverSide
<1>2. srv[k].at \in {"none", "closed"} /\ \A d \in RpcClients : cli[d].conn # k
  BY <1>1 DEF FreeConn, Abandoned
<1>3. n \in Nat /\ 1 <= n /\ n >= 1 /\ n <= MaxCalls
  BY <1>1, RpcAssumption DEF RpcInv, ClientsAre, ClientIs
<1>4. f = RequestFrame(t)
  BY DEF RequestOf, RequestFrame
<1> HIDE DEF n, f
<1>5. Frames(f, ResponseFrame(t))
  BY <1>3, <1>4, CallFrames
<1>6. r.at = "write" /\ r.conn = k /\ r.data = f /\ r.calls = n /\ r.result = "none" /\ IsClient(r)
  BY ClientFields
<1>7. s.at \in {"head", "closed"} /\ IsConnection(s) /\ s.head = <<>>
  BY DEF AwaitsRequest, Closed, Connection, IsConnection
<1> HIDE DEF r, s
<1>8. ClientIs(r)
  BY <1>3, <1>6, RpcAssumption DEF ClientIs
<1>9. /\ StreamsAre' /\ up'[k] = <<>> /\ down'[k] = <<>>
      /\ \A j \in Conns : j # k => up'[j] = up[j] /\ down'[j] = down[j]
  BY <1>1 DEF RpcInv, StreamsAre
<1>10. /\ srv' = [j \in Conns |-> srv'[j]] /\ srv'[k] = s
       /\ \A j \in Conns : j # k => srv'[j] = srv[j]
  BY <1>1 DEF RpcInv, ServicesAre
<1>11. ServicesAre'
  <2>1. /\ rpcQueue \in Seq(Conns)
        /\ \A i, j \in 1 .. Len(rpcQueue) : rpcQueue[i] = rpcQueue[j] => i = j
        /\ \A i \in 1 .. Len(rpcQueue) : srv[rpcQueue[i]].at = "called"
        /\ \A j \in Conns : IsConnection(srv[j])
    BY DEF RpcInv, ServicesAre
  <2>2. \A j \in Conns : IsConnection(srv'[j])
    BY <1>7, <1>10, <2>1
  <2>3. ASSUME NEW i \in 1 .. Len(rpcQueue) PROVE srv'[rpcQueue[i]].at = "called"
    <3>1. rpcQueue[i] \in Conns /\ srv[rpcQueue[i]].at = "called"
      BY <2>1
    <3>2. rpcQueue[i] # k
      BY <1>2, <3>1
    <3> QED
      BY <1>10, <3>1, <3>2
  <2> QED
    BY <1>1, <1>10, <2>1, <2>2, <2>3 DEF ServicesAre, IsConnection
<1>12. \A j \in Conns : UsesBuffer(j)' => UsesBuffer(j)
  BY <1>7, <1>10 DEF UsesBuffer
<1>13. ASSUME NEW d \in RpcClients, d # c, cli[d].conn # NoConn
       PROVE  LET j == cli[d].conn IN srv'[j] = srv[j] /\ up'[j] = up[j] /\ down'[j] = down[j]
  <2>1. cli[d].conn \in Conns /\ cli[d].conn # k
    BY <1>2, <1>13 DEF RpcInv, ClientsAre, ClientIs
  <2> QED
    BY <1>9, <1>10, <2>1
<1>14. Linked(c, r, s, <<>>, <<>>, buffer)
  <2>1. Joined(t, f, ResponseFrame(t), r, s, <<>>, <<>>, buffer)
    <3> HIDE DEF t
    <3> QED
      BY <1>5, <1>6, <1>7, CallBegins
  <2> QED
    BY <1>4, <1>6, <2>1, Zenon DEF Linked
<1>15. LET j == r.conn IN Linked(c, r, srv'[j], up'[j], down'[j], buffer)
  BY <1>6, <1>9, <1>10, <1>14, Zenon
<1>16. \A d \in RpcClients : d # c /\ r.conn # NoConn => cli[d].conn # r.conn
  BY <1>2, <1>6
<1>17. overlapped \/ r.result # "other"
  BY <1>6
<1> QED
  BY <1>1, <1>8, <1>9, <1>11, <1>12, <1>13, <1>15, <1>16, <1>17, ClientStep

\* CallMethod without one.
LEMMA CallMethodRefusedKeeps ==
    ASSUME RpcInv, NEW c \in RpcClients, CallMethodRefused(c)
    PROVE  RpcInv'
<1> DEFINE n == cli[c].calls + 1
<1>1. /\ cli' = [cli EXCEPT ![c] = Client("idle", NoConn, <<>>, 0, n, "failed")]
      /\ up' = up /\ down' = down /\ srv' = srv /\ cli[c].calls < MaxCalls
      /\ buffer' = buffer /\ rpcQueue' = rpcQueue /\ overlapped' = overlapped
  BY DEF CallMethodRefused, ToClient, serverSide
<1>2. n \in Nat /\ n <= MaxCalls
  BY <1>1, RpcAssumption DEF RpcInv, ClientsAre, ClientIs
<1> HIDE DEF n
<1>3. StreamsAre' /\ \A k \in Conns : k # cli[c].conn => down'[k] = down[k]
  BY <1>1 DEF RpcInv, StreamsAre
<1> QED
  BY <1>1, <1>2, <1>3, CallFails

\* The connection is closed, or the wait interrupted.
LEMMA CallIsLost ==
    ASSUME RpcInv, NEW c \in RpcClients, ClientFindsClosed(c) \/ ClientInterrupted(c)
    PROVE  RpcInv'
<1> DEFINE n == cli[c].calls
<1>1. /\ cli' = [cli EXCEPT ![c] = Client("idle", NoConn, <<>>, 0, n, "failed")]
      /\ up' = up /\ down' = down /\ srv' = srv
      /\ buffer' = buffer /\ rpcQueue' = rpcQueue /\ overlapped' = overlapped
  BY DEF ClientFindsClosed, ClientInterrupted, ToClient, FailedCall, ConnAfterFailure, serverSide
<1>2. n \in Nat /\ n <= MaxCalls
  BY DEF RpcInv, ClientsAre, ClientIs
<1> HIDE DEF n
<1>3. StreamsAre' /\ \A k \in Conns : k # cli[c].conn => down'[k] = down[k]
  BY <1>1 DEF RpcInv, StreamsAre
<1> QED
  BY <1>1, <1>2, <1>3, CallFails

\* A send of the client.
LEMMA ClientSendsKeeps ==
    ASSUME RpcInv, NEW c \in RpcClients, ClientSends(c)
    PROVE  RpcInv'
<1> DEFINE k == cli[c].conn
           t == TextOf[c][cli[c].calls]
<1>1. PICK n \in SendSizes(Len(cli[c].data), cli[c].n = 0) :
         /\ up' = [up EXCEPT ![k] = up[k] \o First(cli[c].data, n)]
         /\ cli' = [cli EXCEPT ![c] = [cli[c] EXCEPT
              !.at = IF n = Len(cli[c].data) THEN "head" ELSE "write",
              !.data = Rest(cli[c].data, n), !.n = 1]]
  BY DEF ClientSends, ToClient
<1>2. /\ cli[c].at = "write" /\ down' = down /\ srv' = srv
      /\ buffer' = buffer /\ rpcQueue' = rpcQueue /\ overlapped' = overlapped
  BY DEF ClientSends, serverSide
<1>3. /\ k # NoConn /\ k \in Conns /\ IsClient(cli[c])
      /\ cli[c].calls \in Nat /\ cli[c].calls >= 1 /\ cli[c].calls <= MaxCalls
      /\ ~ overlapped => cli[c].result # "other" /\ Linked(c, cli[c], srv[k], up[k], down[k], buffer)
      /\ Frames(RequestFrame(t), ResponseFrame(t))
  BY <1>2, InCall
<1> DEFINE at == IF n = Len(cli[c].data) THEN "head" ELSE "write"
           data == Rest(cli[c].data, n)
           r == [cli[c] EXCEPT !.at = at, !.data = data, !.n = 1]
           u == up[k] \o First(cli[c].data, n)
<1>4. /\ r.at = at /\ r.data = data /\ r.conn = k /\ r.calls = cli[c].calls
      /\ r.result = cli[c].result /\ IsClient(r)
  <2> HIDE DEF at, data
  <2>1. r = [cli[c] EXCEPT !.at = at, !.data = data, !.n = 1] /\ IsClient(cli[c])
    BY <1>3
  <2> HIDE DEF r
  <2> QED
    BY <2>1 DEF IsClient
<1>5. cli' = [cli EXCEPT ![c] = r] /\ up' = [up EXCEPT ![k] = u]
  BY <1>1
<1> HIDE DEF r
<1>6. ASSUME ~ overlapped PROVE Linked(c, r, srv[k], u, down[k], buffer)
  <2>1. Joined(t, RequestFrame(t), ResponseFrame(t), cli[c], srv[k], up[k], down[k], buffer)
    BY <1>3, <1>6 DEF Linked
  <2>2. Joined(t, RequestFrame(t), ResponseFrame(t), r, srv[k], u, down[k], buffer)
    <3> HIDE DEF t, k
    <3> QED
      BY <1>1, <1>2, <1>3, <1>4, <2>1, RequestSent
  <2> QED
    BY <1>4, <2>2, Zenon DEF Linked
<1>7. down' = [down EXCEPT ![k] = down[k]]
  BY <1>2, <1>3 DEF RpcInv, StreamsAre
<1>8. overlapped \/ r.result # "other"
  BY <1>3, <1>4
<1> HIDE DEF u
<1> QED
  BY <1>2, <1>3, <1>4, <1>5, <1>6, <1>7, <1>8, CallGoesOn

\* A recv of the answer's head.
LEMMA ClientReceivesHeadKeeps ==
    ASSUME RpcInv, NEW c \in RpcClients, ClientReceivesHead(c)
    PROVE  RpcInv'
<1> DEFINE k == cli[c].conn
           t == TextOf[c][cli[c].calls]
           n == Least(3 - Len(cli[c].data), Len(down[k]))
           head == cli[c].data \o First(down[k], n)
           w == Rest(down[k], n)
           r == IF Len(head) < 3 THEN [cli[c] EXCEPT !.data = head]
                ELSE [cli[c] EXCEPT !.at = "body", !.data = <<>>, !.n = PackLen(head)]
<1>1. /\ cli[c].at = "head" /\ n > 0 /\ down' = [down EXCEPT ![k] = w] /\ up' = up /\ srv' = srv
      /\ buffer' = buffer /\ rpcQueue' = rpcQueue /\ overlapped' = overlapped
  BY DEF ClientReceivesHead, serverSide
<1>2. \/ cli' = [cli EXCEPT ![c] = r] /\ (Len(head) < 3 \/ PackLen(head) # 0)
      \/ cli' = [cli EXCEPT ![c] = FailedCall(c)]
  <2>1. cli' = [cli EXCEPT ![c] =
             IF Len(head) < 3 THEN [cli[c] EXCEPT !.data = head]
             ELSE IF HeadIsGood(head, KResponse)
             THEN [cli[c] EXCEPT !.at = "body", !.data = <<>>, !.n = PackLen(head)]
             ELSE FailedCall(c)]
    BY DEF ClientReceivesHead, ToClient
  <2> HIDE DEF n, head
  <2> QED
    BY <2>1 DEF HeadIsGood
<1>3. /\ k # NoConn /\ k \in Conns /\ IsClient(cli[c])
      /\ cli[c].calls \in Nat /\ cli[c].calls >= 1 /\ cli[c].calls <= MaxCalls
      /\ ~ overlapped => cli[c].result # "other" /\ Linked(c, cli[c], srv[k], up[k], down[k], buffer)
      /\ Frames(RequestFrame(t), ResponseFrame(t))
  BY <1>1, InCall
<1>4. up' = [up EXCEPT ![k] = up[k]] /\ StreamsAre' /\ \A j \in Conns : j # k => down'[j] = down[j]
  <2> HIDE DEF w
  <2> QED
    BY <1>1, <1>3 DEF RpcInv, StreamsAre
<1>5. CASE cli' = [cli EXCEPT ![c] = FailedCall(c)]
  <2>1. cli' = [cli EXCEPT ![c] = Client("idle", NoConn, <<>>, 0, cli[c].calls, "failed")]
    BY <1>5 DEF FailedCall, ConnAfterFailure
  <2> HIDE DEF n, w
  <2> QED
    BY <1>1, <1>3, <1>4, <2>1, CallFails
<1>6. CASE cli' = [cli EXCEPT ![c] = r] /\ (Len(head) < 3 \/ PackLen(head) # 0)
  <2>1. /\ r.conn = k /\ r.calls = cli[c].calls /\ r.result = cli[c].result /\ IsClient(r)
        /\ Len(head) < 3 => r.at = "head" /\ r.data = head
        /\ ~ (Len(head) < 3) => r.at = "body" /\ r.data = <<>> /\ r.n = PackLen(head)
    <3> HIDE DEF n, head
    <3>1. ASSUME Len(head) < 3
          PROVE  /\ r.conn = k /\ r.calls = cli[c].calls /\ r.result = cli[c].result /\ IsClient(r)
                 /\ r.at = "head" /\ r.data = head
      <4>1. r = [cli[c] EXCEPT !.data = head] /\ IsClient(cli[c]) /\ cli[c].at = "head"
        BY <1>1, <1>3, <3>1
      <4> HIDE DEF r
      <4> QED
        BY <4>1, ClientRead
    <3>2. ASSUME ~ (Len(head) < 3)
          PROVE  /\ r.conn = k /\ r.calls = cli[c].calls /\ r.result = cli[c].result /\ IsClient(r)
                 /\ r.at = "body" /\ r.data = <<>> /\ r.n = PackLen(head)
      <4>1. r = [cli[c] EXCEPT !.at = "body", !.data = <<>>, !.n = PackLen(head)] /\ IsClient(cli[c])
        BY <1>3, <3>2
      <4> HIDE DEF r
      <4> QED
        BY <4>1 DEF IsClient
    <3> QED
      BY <3>1, <3>2
  <2> HIDE DEF r
  <2>2. ASSUME ~ overlapped PROVE Linked(c, r, srv[k], up[k], w, buffer)
    <3>1. Joined(t, RequestFrame(t), ResponseFrame(t), cli[c], srv[k], up[k], down[k], buffer)
      BY <1>3, <2>2 DEF Linked
    <3>2. /\ Len(head) < 3 => \A r2 : r2.at = "head" /\ r2.data = head
                => Joined(t, RequestFrame(t), ResponseFrame(t), r2, srv[k], up[k], w, buffer)
          /\ ~ (Len(head) < 3) => \A r2 :
                r2.at = "body" /\ r2.data = <<>> /\ r2.n = PackLen(head) /\ PackLen(head) # 0
                => Joined(t, RequestFrame(t), ResponseFrame(t), r2, srv[k], up[k], w, buffer)
      <4>1. n = Least(3 - Len(cli[c].data), Len(down[k])) /\ n > 0
            /\ head = cli[c].data \o First(down[k], n) /\ w = Rest(down[k], n)
        BY <1>1
      <4> HIDE DEF t, k, n, head, w
      <4> QED
        BY <1>1, <1>3, <3>1, <4>1, AnswerHead
    <3> HIDE DEF n, head, w, t, k
    <3>3. Joined(t, RequestFrame(t), ResponseFrame(t), r, srv[k], up[k], w, buffer)
      BY <1>6, <2>1, <3>2
    <3> QED
      BY <2>1, <3>3, Zenon DEF Linked, t
  <2>3. overlapped \/ r.result # "other"
    BY <1>3, <2>1
  <2> HIDE DEF n, head, w
  <2> QED
    BY <1>1, <1>3, <1>4, <1>6, <2>1, <2>2, <2>3, CallGoesOn
<1> HIDE DEF r, n, head, w
<1> QED
  BY <1>2, <1>5, <1>6

\* A recv of the rest: the call ends with its own text or goes on.
LEMMA ClientReceivesBodyKeeps ==
    ASSUME RpcInv, NEW c \in RpcClients, ClientReceivesBody(c)
    PROVE  RpcInv'
<1> DEFINE k == cli[c].conn
           t == TextOf[c][cli[c].calls]
           n == Least(cli[c].n - Len(cli[c].data), Len(down[k]))
           bytes == cli[c].data \o First(down[k], n)
           w == Rest(down[k], n)
           p == ParseRpcResponse(bytes)
           e == ParseEchoResponse(Field(p.m, 1))
<1>1. /\ cli[c].at = "body" /\ n > 0 /\ down' = [down EXCEPT ![k] = w] /\ up' = up /\ srv' = srv
      /\ buffer' = buffer /\ rpcQueue' = rpcQueue /\ overlapped' = overlapped
  BY DEF ClientReceivesBody, serverSide
<1>2. \/ /\ Len(bytes) < cli[c].n
         /\ cli' = [cli EXCEPT ![c] = [cli[c] EXCEPT !.data = bytes]]
      \/ /\ Len(bytes) = cli[c].n
         /\ cli' = [cli EXCEPT ![c] = ResultOf(c, p, e)]
  BY DEF ClientReceivesBody, ToClient
<1>3. /\ k # NoConn /\ k \in Conns /\ IsClient(cli[c])
      /\ cli[c].calls \in Nat /\ cli[c].calls >= 1 /\ cli[c].calls <= MaxCalls
      /\ ~ overlapped => cli[c].result # "other" /\ Linked(c, cli[c], srv[k], up[k], down[k], buffer)
      /\ t \in CallTexts /\ Frames(RequestFrame(t), ResponseFrame(t))
  BY <1>1, InCall
<1>4. up' = [up EXCEPT ![k] = up[k]] /\ StreamsAre' /\ \A j \in Conns : j # k => down'[j] = down[j]
  <2> HIDE DEF w
  <2> QED
    BY <1>1, <1>3 DEF RpcInv, StreamsAre
<1>50. ASSUME ~ overlapped
       PROVE  BodyRead(t, RequestFrame(t), ResponseFrame(t), cli[c], srv[k], up[k], buffer, bytes, w)
  <2>1. Joined(t, RequestFrame(t), ResponseFrame(t), cli[c], srv[k], up[k], down[k], buffer)
    BY <1>3, <1>50 DEF Linked
  <2>2. n = Least(cli[c].n - Len(cli[c].data), Len(down[k])) /\ n > 0
        /\ bytes = cli[c].data \o First(down[k], n) /\ w = Rest(down[k], n)
    BY <1>1
  <2> HIDE DEF t, k, n, bytes, w
  <2> DEFINE f == RequestFrame(t)
             q == ResponseFrame(t)
  <2>3. Frames(f, q) /\ q = ResponseFrame(t) /\ t \in CallTexts /\ cli[c].at = "body"
        /\ Joined(t, f, q, cli[c], srv[k], up[k], down[k], buffer)
    BY <1>1, <1>3, <2>1
  <2> HIDE DEF f, q
  <2>4. BodyRead(t, f, q, cli[c], srv[k], up[k], buffer, bytes, w)
    BY <2>2, <2>3, AnswerBody, Zenon
  <2> QED
    BY <2>4 DEF f, q
<1>5. ASSUME ~ overlapped
      PROVE  /\ Len(bytes) < cli[c].n => \A r2 : r2.at = "body" /\ r2.data = bytes /\ r2.n = cli[c].n
                => Joined(t, RequestFrame(t), ResponseFrame(t), r2, srv[k], up[k], w, buffer)
             /\ Len(bytes) = cli[c].n /\ p.ok
                => /\ Field(e.m, 1) = t
                   /\ \A r2 : r2.at = "idle"
                        => Joined(t, RequestFrame(t), ResponseFrame(t), r2, srv[k], up[k], w, buffer)
  BY <1>5, <1>50 DEF BodyRead
<1> HIDE DEF n, bytes, w
<1>6. CASE Len(bytes) < cli[c].n /\ cli' = [cli EXCEPT ![c] = [cli[c] EXCEPT !.data = bytes]]
  <2> DEFINE r == [cli[c] EXCEPT !.data = bytes]
  <2>1. r = [cli[c] EXCEPT !.data = bytes] /\ cli' = [cli EXCEPT ![c] = r]
    BY <1>6
  <2> HIDE DEF r
  <2>2. /\ r.conn = k /\ r.calls = cli[c].calls /\ r.result = cli[c].result /\ IsClient(r)
        /\ r.at = "body" /\ r.data = bytes /\ r.n = cli[c].n
    BY <1>1, <1>3, <2>1, ClientRead
  <2>3. ASSUME ~ overlapped PROVE Linked(c, r, srv[k], up[k], w, buffer)
    <3> HIDE DEF t, k
    <3>1. Joined(t, RequestFrame(t), ResponseFrame(t), r, srv[k], up[k], w, buffer)
      BY <1>5, <1>6, <2>2, <2>3
    <3> QED
      BY <2>2, <3>1, Zenon DEF Linked, t
  <2>4. overlapped \/ r.result # "other"
    BY <1>3, <2>2
  <2> QED
    BY <1>1, <1>3, <1>4, <2>1, <2>2, <2>3, <2>4, CallGoesOn
<1> HIDE DEF p, e
<1>7. CASE Len(bytes) = cli[c].n /\ cli' = [cli EXCEPT ![c] = ResultOf(c, p, e)]
  <2>1. CASE ~ p.ok \/ ~ e.ok
    <3>1. cli' = [cli EXCEPT ![c] = Client("idle", NoConn, <<>>, 0, cli[c].calls, "failed")]
      BY <1>7, <2>1 DEF ResultOf, FailedCall, ConnAfterFailure
    <3> QED
      BY <1>1, <1>3, <1>4, <3>1, CallFails
  <2>2. CASE p.ok /\ e.ok
    <3> DEFINE result == IF Field(e.m, 1) = t THEN "own" ELSE "other"
               r == Client("idle", k, <<>>, 0, cli[c].calls, result)
    <3>1. cli' = [cli EXCEPT ![c] = r]
      BY <1>7, <2>2 DEF ResultOf
    <3>2. r.at = "idle" /\ r.conn = k /\ r.calls = cli[c].calls /\ r.result = result /\ IsClient(r)
      <4> HIDE DEF result
      <4> QED
        BY ClientFields
    <3> HIDE DEF r
    <3>3. ASSUME ~ overlapped PROVE Linked(c, r, srv[k], up[k], w, buffer)
      <4> HIDE DEF t, k
      <4>1. Joined(t, RequestFrame(t), ResponseFrame(t), r, srv[k], up[k], w, buffer)
        BY <1>5, <1>7, <2>2, <3>2, <3>3
      <4> QED
        BY <3>2, <4>1, Zenon DEF Linked, t
    <3>4. overlapped \/ r.result # "other"
      <4> HIDE DEF t, k
      <4> QED
        BY <1>5, <1>7, <2>2, <3>2
    <3> HIDE DEF result
    <3> QED
      BY <1>1, <1>3, <1>4, <3>1, <3>2, <3>3, <3>4, CallGoesOn
  <2> QED
    BY <2>1, <2>2
<1> QED
  BY <1>2, <1>6, <1>7 DEF p, e

\* The records after a step of connection k's service that leaves the mailbox
\* alone.
LEMMA ServicesStay ==
    ASSUME RpcInv, NEW k \in Conns, NEW s, IsConnection(s), srv[k].at # "called",
           srv' = [srv EXCEPT ![k] = s], rpcQueue' = rpcQueue
    PROVE  ServicesAre'
<1>1. /\ srv = [j \in Conns |-> srv[j]] /\ \A j \in Conns : IsConnection(srv[j])
      /\ rpcQueue \in Seq(Conns)
      /\ \A i, j \in 1 .. Len(rpcQueue) : rpcQueue[i] = rpcQueue[j] => i = j
      /\ \A i \in 1 .. Len(rpcQueue) : srv[rpcQueue[i]].at = "called"
  BY DEF RpcInv, ServicesAre
<1>2. /\ srv' = [j \in Conns |-> srv'[j]] /\ srv'[k] = s
      /\ \A j \in Conns : j # k => srv'[j] = srv[j]
  BY <1>1
<1>3. \A j \in Conns : IsConnection(srv'[j])
  BY <1>1, <1>2
<1>4. ASSUME NEW i \in 1 .. Len(rpcQueue) PROVE srv'[rpcQueue[i]].at = "called"
  <2>1. rpcQueue[i] \in Conns /\ srv[rpcQueue[i]].at = "called" /\ rpcQueue[i] # k
    BY <1>1
  <2> QED
    BY <1>2, <2>1
<1> QED
  BY <1>1, <1>2, <1>3, <1>4 DEF ServicesAre, IsConnection

\* What is known of the client of connection k.
LEMMA ItsClient ==
    ASSUME RpcInv, NEW k \in Conns, ~ overlapped, NEW c \in RpcClients, cli[c].conn = k
    PROVE  /\ Linked(c, cli[c], srv[k], up[k], down[k], buffer)
           /\ TextOf[c][cli[c].calls] \in CallTexts
           /\ Frames(RequestFrame(TextOf[c][cli[c].calls]), ResponseFrame(TextOf[c][cli[c].calls]))
<1>1. cli[c].conn # NoConn
  BY RpcAssumption
<1> QED
  BY <1>1, InCall

\* Main returns: the connection is closed, whatever there was.
LEMMA ServiceCloses ==
    ASSUME RpcInv, NEW k \in Conns, srv[k].at # "called", srv' = [srv EXCEPT ![k] = Closed],
           cli' = cli, buffer' = buffer, rpcQueue' = rpcQueue, overlapped' = overlapped,
           StreamsAre', \A j \in Conns : j # k => up'[j] = up[j], down' = down
    PROVE  RpcInv'
<1>1. Closed.at = "closed" /\ IsConnection(Closed)
  BY DEF Closed, Connection, IsConnection
<1>2. ServicesAre'
  BY <1>1, ServicesStay
<1>3. \A j \in Conns : j # k => up'[j] = up[j] /\ down'[j] = down[j]
  OBVIOUS
<1>4. overlapped' \in BOOLEAN /\ (overlapped => overlapped')
  BY DEF RpcInv
<1>5. ~ UsesIt(Closed)
  BY <1>1 DEF UsesIt
<1>6. ASSUME ~ overlapped', NEW c \in RpcClients, cli[c].conn = k
      PROVE  Linked(c, cli[c], Closed, up'[k], down'[k], buffer')
  <2>1. Linked(c, cli[c], srv[k], up[k], down[k], buffer)
    BY <1>6, ItsClient
  <2> QED
    BY <1>1, <2>1, ClosedJoins DEF Linked
<1> QED
  BY <1>2, <1>3, <1>4, <1>5, <1>6, ServiceStep

\* The service finds its client gone, or is stopped.
LEMMA ServiceIsLost ==
    ASSUME RpcInv, NEW k \in Conns, ServerFindsClosed(k) \/ ServerInterrupted(k)
    PROVE  RpcInv'
<1>1. /\ srv[k].at # "called" /\ srv' = [srv EXCEPT ![k] = Closed]
      /\ up' = up /\ down' = down /\ cli' = cli
      /\ buffer' = buffer /\ rpcQueue' = rpcQueue /\ overlapped' = overlapped
  BY DEF ServerFindsClosed, ServerInterrupted, ToServer, serverSide
<1>2. StreamsAre'
  BY <1>1 DEF RpcInv, StreamsAre
<1> QED
  BY <1>1, <1>2, ServiceCloses

\* A recv of a request's head, and buffer_.resize.
LEMMA ReceiveHeadKeeps ==
    ASSUME RpcInv, NEW k \in Conns, ReceiveHead(k)
    PROVE  RpcInv'
<1> DEFINE n == Least(3 - Len(srv[k].head), Len(up[k]))
           head == srv[k].head \o First(up[k], n)
           u == Rest(up[k], n)
           good == Len(head) = 3 /\ HeadIsGood(head, kRequest)
           body == Connection("body", <<>>, 0, PackLen(head), <<>>)
           more == [srv[k] EXCEPT !.head = head]
<1>1. /\ srv[k].at = "head" /\ n > 0 /\ up' = [up EXCEPT ![k] = u] /\ down' = down /\ cli' = cli
      /\ rpcQueue' = rpcQueue
  BY DEF ReceiveHead
<1>2. \/ /\ good /\ srv' = [srv EXCEPT ![k] = body]
         /\ buffer' = Resized(PackLen(head)) /\ Overlaps(k)
      \/ /\ Len(head) = 3 /\ srv' = [srv EXCEPT ![k] = Closed]
         /\ buffer' = buffer /\ overlapped' = overlapped
      \/ /\ Len(head) # 3 /\ srv' = [srv EXCEPT ![k] = more]
         /\ buffer' = buffer /\ overlapped' = overlapped
  BY DEF ReceiveHead, ToServer
<1>3. StreamsAre' /\ up'[k] = u /\ \A j \in Conns : j # k => up'[j] = up[j]
  <2> HIDE DEF u
  <2> QED
    BY <1>1 DEF RpcInv, StreamsAre
<1>30. IsConnection(srv[k]) /\ overlapped \in BOOLEAN
  BY DEF RpcInv, ServicesAre
<1>4. ASSUME ~ overlapped, NEW c \in RpcClients, cli[c].conn = k
      PROVE  LET t == TextOf[c][cli[c].calls] IN
             HeadRead(t, RequestFrame(t), ResponseFrame(t), cli[c], u, down[k], buffer, head)
  <2> DEFINE t == TextOf[c][cli[c].calls]
             f == RequestFrame(t)
             q == ResponseFrame(t)
  <2>1. Frames(f, q) /\ Joined(t, f, q, cli[c], srv[k], up[k], down[k], buffer)
    BY <1>4, ItsClient DEF Linked
  <2>2. n = Least(3 - Len(srv[k].head), Len(up[k])) /\ n > 0 /\ srv[k].at = "head"
        /\ head = srv[k].head \o First(up[k], n) /\ u = Rest(up[k], n)
    BY <1>1
  <2> HIDE DEF t, f, q, n, head, u
  <2>3. HeadRead(t, f, q, cli[c], u, down[k], buffer, head)
    BY <2>1, <2>2, HeadReceived, Zenon
  <2> QED
    BY <2>3 DEF t, f, q
<1>40. \A j \in Conns : j # k => up'[j] = up[j] /\ down'[j] = down[j]
  BY <1>1, <1>3
<1> HIDE DEF n, head, u
<1>5. CASE /\ good /\ srv' = [srv EXCEPT ![k] = body]
           /\ buffer' = Resized(PackLen(head)) /\ Overlaps(k)
  <2>1. body.at = "body" /\ body.done = 0 /\ body.n = PackLen(head) /\ IsConnection(body)
    BY ConnectionFields
  <2>2. PackLen(head) # 0 /\ Len(head) = 3
    BY <1>5 DEF HeadIsGood
  <2> HIDE DEF body
  <2>3. ServicesAre'
    BY <1>1, <1>5, <2>1, ServicesStay
  <2>4. overlapped' \in BOOLEAN /\ (overlapped => overlapped') /\ (~ overlapped' => Alone(k))
    BY <1>5, <1>30 DEF Overlaps, Alone
  <2>5. buffer' = [i \in 1 .. PackLen(head) |-> buffer'[i]]
    BY <1>5 DEF Resized
  <2>6. ASSUME ~ overlapped', NEW c \in RpcClients, cli[c].conn = k
        PROVE  Linked(c, cli[c], body, up'[k], down'[k], buffer')
    <3>1. Linked(c, cli[c], body, u, down[k], buffer')
      <4>1. ~ overlapped
        BY <2>4, <2>6
      <4> QED
        BY <1>4, <2>1, <2>2, <2>5, <2>6, <4>1 DEF HeadRead, Linked
    <3> QED
      BY <1>1, <1>3, <3>1, Zenon
  <2> QED
    BY <1>1, <1>3, <1>5, <1>40, <2>3, <2>4, <2>6, ServiceStep
<1>6. CASE /\ Len(head) = 3 /\ srv' = [srv EXCEPT ![k] = Closed]
           /\ buffer' = buffer /\ overlapped' = overlapped
  BY <1>1, <1>3, <1>6, ServiceCloses
<1>7. CASE /\ Len(head) # 3 /\ srv' = [srv EXCEPT ![k] = more]
           /\ buffer' = buffer /\ overlapped' = overlapped
  <2>1. more.at = "head" /\ more.head = head /\ IsConnection(more)
    BY <1>1, <1>30, ServiceHead
  <2> HIDE DEF more
  <2>2. ServicesAre'
    BY <1>1, <1>7, <2>1, ServicesStay
  <2>3. ~ UsesIt(more)
    BY <2>1 DEF UsesIt
  <2>4. ASSUME ~ overlapped', NEW c \in RpcClients, cli[c].conn = k
        PROVE  Linked(c, cli[c], more, up'[k], down'[k], buffer')
    <3>1. Linked(c, cli[c], more, u, down[k], buffer)
      BY <1>4, <1>7, <2>1, <2>4 DEF HeadRead, Linked
    <3> QED
      BY <1>1, <1>3, <1>7, <3>1, Zenon
  <2> QED
    BY <1>1, <1>3, <1>7, <1>30, <1>40, <2>2, <2>3, <2>4, ServiceStep
<1> QED
  BY <1>2, <1>5, <1>6, <1>7

\* A recv into buffer_.
LEMMA ReceiveBodyKeeps ==
    ASSUME RpcInv, NEW k \in Conns, ReceiveBody(k)
    PROVE  RpcInv'
<1> DEFINE n == Least(srv[k].n - srv[k].done, Len(up[k]))
           done == srv[k].done
           u == Rest(up[k], n)
           at == IF done + n = srv[k].n THEN "parse" ELSE "body"
           s == [srv[k] EXCEPT !.done = done + n, !.at = at]
           buf == [i \in DOMAIN buffer |->
                     IF i \in done + 1 .. done + n THEN up[k][i - done] ELSE buffer[i]]
<1>1. /\ srv[k].at = "body" /\ n > 0 /\ up' = [up EXCEPT ![k] = u] /\ down' = down /\ cli' = cli
      /\ rpcQueue' = rpcQueue /\ buffer' = buf /\ srv' = [srv EXCEPT ![k] = s]
      /\ overlapped' = overlapped
  BY DEF ReceiveBody, ToServer
<1>2. StreamsAre' /\ up'[k] = u /\ \A j \in Conns : j # k => up'[j] = up[j] /\ down'[j] = down[j]
  <2> HIDE DEF u
  <2> QED
    BY <1>1 DEF RpcInv, StreamsAre
<1>3. s.at = at /\ s.done = done + n /\ s.n = srv[k].n /\ IsConnection(s)
  <2>1. IsConnection(srv[k])
    BY DEF RpcInv, ServicesAre
  <2>2. s = [srv[k] EXCEPT !.done = done + n, !.at = at]
    OBVIOUS
  <2> HIDE DEF s, at, n
  <2> QED
    BY <2>1, <2>2 DEF IsConnection
<1> HIDE DEF s
<1>4. ServicesAre'
  BY <1>1, <1>3, ServicesStay
<1>5. ~ overlapped' => Alone(k)
  BY <1>1 DEF RpcInv, InTurn, Alone, UsesBuffer
<1>6. overlapped' \in BOOLEAN /\ (overlapped => overlapped')
  BY <1>1 DEF RpcInv
<1>7. ASSUME ~ overlapped', NEW c \in RpcClients, cli[c].conn = k
      PROVE  Linked(c, cli[c], s, up'[k], down'[k], buffer')
  <2> DEFINE t == TextOf[c][cli[c].calls]
             f == RequestFrame(t)
             q == ResponseFrame(t)
  <2>1. Frames(f, q) /\ Joined(t, f, q, cli[c], srv[k], up[k], down[k], buffer)
    BY <1>1, <1>7, ItsClient DEF Linked
  <2>2. /\ n = Least(srv[k].n - srv[k].done, Len(up[k])) /\ n > 0 /\ u = Rest(up[k], n)
        /\ buf = [i \in DOMAIN buffer |-> IF i \in srv[k].done + 1 .. srv[k].done + n
                                          THEN up[k][i - srv[k].done] ELSE buffer[i]]
        /\ s.at = IF srv[k].done + n = srv[k].n THEN "parse" ELSE "body"
        /\ s.done = srv[k].done + n
    BY <1>1, <1>3
  <2> HIDE DEF t, f, q, n, u, buf
  <2>3. Joined(t, f, q, cli[c], s, u, down[k], buf)
    BY <1>1, <1>3, <2>1, <2>2, BodyReceived
  <2> QED
    BY <1>1, <1>2, <2>3, Zenon DEF Linked, t, f, q
<1> HIDE DEF n, u, buf
<1> QED
  BY <1>1, <1>2, <1>4, <1>5, <1>6, <1>7, ServiceStep

\* The request is parsed from buffer_.
LEMMA ParseRequestKeeps ==
    ASSUME RpcInv, NEW k \in Conns, ParseRequest(k)
    PROVE  RpcInv'
<1> DEFINE req == ParseRpcRequest(buffer)
           arg == ParseEchoRequest(Field(req.m, 3))
           s == Connection("call", <<>>, 0, 0, Field(arg.m, 1))
<1>1. /\ srv[k].at = "parse" /\ up' = up /\ down' = down /\ cli' = cli
      /\ buffer' = buffer /\ rpcQueue' = rpcQueue /\ overlapped' = overlapped
  BY DEF ParseRequest, serverSide
<1>2. srv' = [srv EXCEPT ![k] = Closed] \/ (req.ok /\ srv' = [srv EXCEPT ![k] = s])
  BY DEF ParseRequest, ToServer, AfterFailedCall
<1>3. StreamsAre' /\ \A j \in Conns : j # k => up'[j] = up[j] /\ down'[j] = down[j]
  BY <1>1 DEF RpcInv, StreamsAre
<1>4. CASE srv' = [srv EXCEPT ![k] = Closed]
  BY <1>1, <1>3, <1>4, ServiceCloses
<1>5. CASE req.ok /\ srv' = [srv EXCEPT ![k] = s]
  <2>1. s.at = "call" /\ s.arg = Field(arg.m, 1) /\ IsConnection(s)
    <3> HIDE DEF arg
    <3> QED
      BY ConnectionFields
  <2> HIDE DEF s
  <2>2. ServicesAre' /\ ~ UsesIt(s)
    BY <1>1, <1>5, <2>1, ServicesStay DEF UsesIt
  <2>3. overlapped' \in BOOLEAN /\ (overlapped => overlapped')
    BY <1>1 DEF RpcInv
  <2>4. ASSUME ~ overlapped', NEW c \in RpcClients, cli[c].conn = k
        PROVE  Linked(c, cli[c], s, up'[k], down'[k], buffer')
    <3> DEFINE t == TextOf[c][cli[c].calls]
               f == RequestFrame(t)
               q == ResponseFrame(t)
    <3>1. t \in CallTexts /\ Joined(t, f, q, cli[c], srv[k], up[k], down[k], buffer)
      BY <1>1, <2>4, ItsClient DEF Linked
    <3>2. /\ f = RequestFrame(t) /\ req = ParseRpcRequest(buffer) /\ req.ok /\ srv[k].at = "parse"
          /\ s.at = "call" /\ s.arg = Field(ParseEchoRequest(Field(req.m, 3)).m, 1)
      BY <1>1, <1>5, <2>1
    <3> HIDE DEF t, f, q, req, arg
    <3>3. Joined(t, f, q, cli[c], s, up[k], down[k], buffer)
      BY <3>1, <3>2, RequestParsed, Zenon
    <3> QED
      BY <1>1, <3>3, Zenon DEF Linked, t, f, q
  <2> HIDE DEF req, arg
  <2> QED
    BY <1>1, <1>3, <1>5, <2>2, <2>3, <2>4, ServiceStep
<1> QED
  BY <1>2, <1>4, <1>5

\* A call that is sent to InternalRpcService is there once.
LEMMA CallIsQueued ==
    ASSUME RpcInv, NEW k \in Conns, NEW s, IsConnection(s), s.at = "called", srv[k].at # "called",
           srv' = [srv EXCEPT ![k] = s], rpcQueue' = Append(rpcQueue, k)
    PROVE  ServicesAre'
<1> DEFINE l == Len(rpcQueue)
<1>1. /\ srv = [j \in Conns |-> srv[j]] /\ \A j \in Conns : IsConnection(srv[j])
      /\ rpcQueue \in Seq(Conns)
      /\ \A i, j \in 1 .. Len(rpcQueue) : rpcQueue[i] = rpcQueue[j] => i = j
      /\ \A i \in 1 .. Len(rpcQueue) : srv[rpcQueue[i]].at = "called"
  BY DEF RpcInv, ServicesAre
<1>2. /\ srv' = [j \in Conns |-> srv'[j]] /\ srv'[k] = s
      /\ \A j \in Conns : j # k => srv'[j] = srv[j]
  BY <1>1
<1>3. \A j \in Conns : IsConnection(srv'[j])
  BY <1>1, <1>2
<1>4. /\ rpcQueue' \in Seq(Conns) /\ Len(rpcQueue') = l + 1 /\ l \in Nat
      /\ rpcQueue'[l + 1] = k /\ \A i \in 1 .. l : rpcQueue'[i] = rpcQueue[i]
  BY <1>1
<1>5. \A i \in 1 .. l : rpcQueue[i] \in Conns /\ rpcQueue[i] # k
  BY <1>1
<1> HIDE DEF l
<1>6. \A i \in 1 .. l + 1 : i \in 1 .. l \/ i = l + 1
  BY <1>4
<1>7. ASSUME NEW i \in 1 .. l + 1 PROVE srv'[rpcQueue'[i]].at = "called"
  <2>1. CASE i \in 1 .. l
    BY <1>1, <1>2, <1>4, <1>5, <2>1 DEF l
  <2>2. CASE i = l + 1
    BY <1>2, <1>4, <2>2
  <2> QED
    BY <1>6, <2>1, <2>2
<1>8. ASSUME NEW i \in 1 .. l + 1, NEW j \in 1 .. l + 1, rpcQueue'[i] = rpcQueue'[j] PROVE i = j
  BY <1>1, <1>4, <1>5, <1>6, <1>8 DEF l
<1> QED
  BY <1>2, <1>3, <1>4, <1>7, <1>8 DEF ServicesAre, IsConnection

\* The call is sent to InternalRpcService, or refused.
LEMMA CallServiceMethodKeeps ==
    ASSUME RpcInv, NEW k \in Conns, NEW sent \in BOOLEAN, CallServiceMethod(k, sent)
    PROVE  RpcInv'
<1> DEFINE s == [srv[k] EXCEPT !.at = "called"]
<1>1. /\ srv[k].at = "call" /\ up' = up /\ down' = down /\ cli' = cli
      /\ buffer' = buffer /\ overlapped' = overlapped
  BY DEF CallServiceMethod
<1>2. \/ srv' = [srv EXCEPT ![k] = Closed] /\ rpcQueue' = rpcQueue
      \/ srv' = [srv EXCEPT ![k] = s] /\ rpcQueue' = Append(rpcQueue, k)
  BY DEF CallServiceMethod, ToServer, AfterFailedCall
<1>3. StreamsAre' /\ \A j \in Conns : j # k => up'[j] = up[j] /\ down'[j] = down[j]
  BY <1>1 DEF RpcInv, StreamsAre
<1>4. CASE srv' = [srv EXCEPT ![k] = Closed] /\ rpcQueue' = rpcQueue
  BY <1>1, <1>3, <1>4, ServiceCloses
<1>5. CASE srv' = [srv EXCEPT ![k] = s] /\ rpcQueue' = Append(rpcQueue, k)
  <2>0. IsConnection(srv[k])
    BY DEF RpcInv, ServicesAre
  <2>1. s.at = "called" /\ s.arg = srv[k].arg /\ IsConnection(s)
    BY <2>0, ServiceAt
  <2> HIDE DEF s
  <2>2. ServicesAre' /\ ~ UsesIt(s)
    BY <1>1, <1>5, <2>1, CallIsQueued DEF UsesIt
  <2>3. overlapped' \in BOOLEAN /\ (overlapped => overlapped')
    BY <1>1 DEF RpcInv
  <2>4. ASSUME ~ overlapped', NEW c \in RpcClients, cli[c].conn = k
        PROVE  Linked(c, cli[c], s, up'[k], down'[k], buffer')
    <3>1. Linked(c, cli[c], srv[k], up[k], down[k], buffer)
      BY <1>1, <2>4, ItsClient
    <3>2. Linked(c, cli[c], s, up[k], down[k], buffer)
      BY <1>1, <2>1, <3>1, MethodCalled DEF Linked
    <3> QED
      BY <1>1, <3>2, Zenon
  <2> QED
    BY <1>1, <1>3, <1>5, <2>2, <2>3, <2>4, ServiceStep
<1> QED
  BY <1>2, <1>4, <1>5

\* The answer is put into buffer_.
LEMMA HandleCallKeeps ==
    ASSUME RpcInv, HandleCall
    PROVE  RpcInv'
<1> DEFINE k == Head(rpcQueue)
           frame == ResponseFrame(srv[k].arg)
           s == Connection("write", <<>>, 0, Len(frame), <<>>)
<1>1. /\ rpcQueue # <<>> /\ rpcQueue' = Tail(rpcQueue) /\ buffer' = frame
      /\ srv' = [srv EXCEPT ![k] = s] /\ Overlaps(k) /\ up' = up /\ down' = down /\ cli' = cli
  BY DEF HandleCall, ToServer, ResponseFrame
<1>2. /\ srv = [j \in Conns |-> srv[j]] /\ \A j \in Conns : IsConnection(srv[j])
      /\ rpcQueue \in Seq(Conns)
      /\ \A i, j \in 1 .. Len(rpcQueue) : rpcQueue[i] = rpcQueue[j] => i = j
      /\ \A i \in 1 .. Len(rpcQueue) : srv[rpcQueue[i]].at = "called"
  BY DEF RpcInv, ServicesAre
<1> DEFINE l == Len(rpcQueue) - 1
<1>3. /\ l \in Nat /\ Len(rpcQueue) = l + 1 /\ k = rpcQueue[1] /\ k \in Conns
      /\ rpcQueue' \in Seq(Conns) /\ Len(rpcQueue') = l
      /\ \A i \in 1 .. l : rpcQueue'[i] = rpcQueue[i + 1]
  BY <1>1, <1>2
<1> HIDE DEF l
<1>4. srv[k].at = "called"
  <2>1. 1 \in 1 .. Len(rpcQueue)
    BY <1>3
  <2>2. srv[rpcQueue[1]].at = "called"
    BY <1>2, <2>1, Zenon
  <2> QED
    BY <1>3, <2>2, Zenon
<1>5. s.at = "write" /\ s.done = 0 /\ s.n = Len(frame) /\ IsConnection(s)
  <2> HIDE DEF frame
  <2> QED
    BY ConnectionFields
<1> HIDE DEF s, k
<1>6. /\ srv' = [j \in Conns |-> srv'[j]] /\ srv'[k] = s
      /\ \A j \in Conns : j # k => srv'[j] = srv[j]
  BY <1>1, <1>2, <1>3
<1>7. ServicesAre'
  <2>1. \A i \in 1 .. l : i + 1 \in 1 .. Len(rpcQueue) /\ 1 \in 1 .. Len(rpcQueue) /\ i + 1 # 1
    BY <1>3
  <2>2. ASSUME NEW i \in 1 .. l PROVE srv'[rpcQueue'[i]].at = "called"
    <3>1. rpcQueue'[i] = rpcQueue[i + 1] /\ rpcQueue[i + 1] \in Conns /\ rpcQueue[i + 1] # k
      BY <1>2, <1>3, <2>1
    <3> QED
      BY <1>2, <1>6, <2>1, <3>1
  <2>3. ASSUME NEW i \in 1 .. l, NEW j \in 1 .. l, rpcQueue'[i] = rpcQueue'[j] PROVE i = j
    <3>1. i + 1 = j + 1
      BY <1>2, <1>3, <2>1, <2>3
    <3> QED
      BY <1>3, <3>1
  <2>4. \A j \in Conns : IsConnection(srv'[j])
    BY <1>2, <1>5, <1>6
  <2> QED
    BY <1>3, <1>6, <2>2, <2>3, <2>4 DEF ServicesAre, IsConnection
<1>8. overlapped' \in BOOLEAN /\ (overlapped => overlapped') /\ (~ overlapped' => Alone(k))
  BY <1>1 DEF Overlaps, Alone, RpcInv
<1>9. StreamsAre' /\ \A j \in Conns : j # k => up'[j] = up[j] /\ down'[j] = down[j]
  BY <1>1 DEF RpcInv, StreamsAre
<1>10. ASSUME ~ overlapped', NEW c \in RpcClients, cli[c].conn = k
       PROVE  Linked(c, cli[c], s, up'[k], down'[k], buffer')
  <2> DEFINE t == TextOf[c][cli[c].calls]
             f == RequestFrame(t)
             q == ResponseFrame(t)
  <2>1. Frames(f, q) /\ Joined(t, f, q, cli[c], srv[k], up[k], down[k], buffer)
    BY <1>3, <1>8, <1>10, ItsClient DEF Linked
  <2>2. srv[k].arg = t
    <3> HIDE DEF f, q, t
    <3>1. PICK a, b, d, e \in Nat : Placed(t, f, q, cli[c], srv[k], up[k], down[k], buffer, a, b, d, e)
      BY <2>1 DEF Joined
    <3> QED
      BY <1>4, <3>1 DEF Placed, SrvAt
  <2>3. frame = q /\ s.n = Len(q)
    BY <1>5, <2>2, Zenon
  <2> HIDE DEF t, f, q, frame
  <2>4. Joined(t, f, q, cli[c], s, up[k], down[k], q)
    BY <1>4, <1>5, <2>1, <2>3, CallHandled
  <2> QED
    BY <1>1, <2>3, <2>4, Zenon DEF Linked, t, f, q
<1> HIDE DEF frame
<1> QED
  BY <1>1, <1>3, <1>7, <1>8, <1>9, <1>10, ServiceStep

\* A send from buffer_.
LEMMA ServerSendsKeeps ==
    ASSUME RpcInv, NEW k \in Conns, ServerSends(k)
    PROVE  RpcInv'
<1> DEFINE done == srv[k].done
           piece(n) == [i \in 1 .. n |-> IF done + i \in DOMAIN buffer THEN buffer[done + i] ELSE 0]
           next(n) == [srv[k] EXCEPT !.done = done + n]
<1>1. /\ srv[k].at = "write" /\ up' = up /\ cli' = cli
      /\ buffer' = buffer /\ rpcQueue' = rpcQueue /\ overlapped' = overlapped
  BY DEF ServerSends, serverSide
<1>2. PICK n \in SendSizes(srv[k].n - done, done = 0) :
         /\ down' = [down EXCEPT ![k] = IF Abandoned(k) THEN down[k] ELSE down[k] \o piece(n)]
         /\ srv' = [srv EXCEPT ![k] = IF done + n = srv[k].n THEN AwaitsRequest ELSE next(n)]
  BY DEF ServerSends, ToServer
<1> DEFINE w == IF Abandoned(k) THEN down[k] ELSE down[k] \o piece(n)
           s == IF done + n = srv[k].n THEN AwaitsRequest ELSE next(n)
<1>3. IsConnection(srv[k])
  BY DEF RpcInv, ServicesAre
<1>4. /\ IF done + n = srv[k].n THEN s = AwaitsRequest
         ELSE s.at = "write" /\ s.done = done + n /\ s.n = srv[k].n
      /\ IsConnection(s)
  <2>1. IsConnection(AwaitsRequest)
    BY DEF AwaitsRequest, Connection, IsConnection
  <2>2. next(n).at = "write" /\ next(n).done = done + n /\ next(n).n = srv[k].n /\ IsConnection(next(n))
    BY <1>1, <1>3, ServiceDone
  <2> HIDE DEF next
  <2> QED
    BY <2>1, <2>2
<1>5. down' = [down EXCEPT ![k] = w] /\ srv' = [srv EXCEPT ![k] = s]
  BY <1>2
<1> HIDE DEF s
<1>6. ServicesAre'
  BY <1>1, <1>4, <1>5, ServicesStay
<1>7. /\ StreamsAre' /\ up'[k] = up[k] /\ down'[k] = w
      /\ \A j \in Conns : j # k => up'[j] = up[j] /\ down'[j] = down[j]
  <2> HIDE DEF w
  <2> QED
    BY <1>1, <1>5 DEF RpcInv, StreamsAre
<1>8. UsesBuffer(k)
  BY <1>1 DEF UsesBuffer
<1>9. overlapped' \in BOOLEAN /\ (overlapped => overlapped')
  BY <1>1 DEF RpcInv
<1>10. ASSUME ~ overlapped', NEW c \in RpcClients, cli[c].conn = k
       PROVE  Linked(c, cli[c], s, up'[k], down'[k], buffer')
  <2> DEFINE t == TextOf[c][cli[c].calls]
             f == RequestFrame(t)
             q == ResponseFrame(t)
  <2>1. Frames(f, q) /\ Joined(t, f, q, cli[c], srv[k], up[k], down[k], buffer)
    BY <1>1, <1>10, ItsClient DEF Linked
  <2>2. w = down[k] \o [i \in 1 .. n |->
              IF srv[k].done + i \in DOMAIN buffer THEN buffer[srv[k].done + i] ELSE 0]
    BY <1>10, Zenon DEF Abandoned
  <2> HIDE DEF t, f, q, w
  <2>3. Joined(t, f, q, cli[c], s, up[k], w, buffer)
    BY <1>1, <1>2, <1>4, <2>1, <2>2, AnswerSent
  <2> QED
    BY <1>1, <1>7, <2>3, Zenon DEF Linked, t, f, q
<1> HIDE DEF w
<1> QED
  BY <1>1, <1>5, <1>6, <1>7, <1>8, <1>9, <1>10, ServiceStep

\* The invariant holds at first,
LEMMA RpcInitInv == RpcInit => RpcInv
<1> SUFFICES ASSUME RpcInit PROVE RpcInv
  OBVIOUS
<1>1. /\ up = [k \in Conns |-> <<>>] /\ down = [k \in Conns |-> <<>>]
      /\ cli = [c \in RpcClients |-> Client("idle", NoConn, <<>>, 0, 0, "none")]
      /\ srv = [k \in Conns |-> NoConnection] /\ rpcQueue = <<>> /\ overlapped = FALSE
  BY DEF RpcInit
<1>2. StreamsAre
  BY <1>1 DEF StreamsAre
<1>3. NoConnection.at = "none" /\ IsConnection(NoConnection)
  BY DEF NoConnection, Connection, IsConnection
<1>4. ServicesAre
  BY <1>1, <1>3 DEF ServicesAre
<1> DEFINE r == Client("idle", NoConn, <<>>, 0, 0, "none")
<1>5. r.at = "idle" /\ r.conn = NoConn /\ r.calls = 0 /\ r.result = "none" /\ IsClient(r)
  BY ClientFields
<1>6. \A c \in RpcClients : cli[c] = r
  BY <1>1
<1>60. cli = [c \in RpcClients |-> cli[c]]
  BY <1>1
<1> HIDE DEF r
<1>7. ClientIs(r)
  BY <1>5, RpcAssumption DEF ClientIs
<1>8. ClientsAre
  BY <1>5, <1>6, <1>60, <1>7 DEF ClientsAre
<1>9. AnswerIsOwn /\ AllLinked
  BY <1>5, <1>6 DEF AnswerIsOwn, AllLinked
<1>10. InTurn
  BY <1>1, <1>3 DEF InTurn, UsesBuffer
<1> QED
  BY <1>1, <1>2, <1>4, <1>8, <1>9, <1>10 DEF RpcInv

\* and after every step.
LEMMA RpcNextInv == RpcInv /\ [RpcNext]_rpcVars => RpcInv'
<1> SUFFICES ASSUME RpcInv, [RpcNext]_rpcVars PROVE RpcInv'
  OBVIOUS
<1>1. ASSUME NEW c \in RpcClients,
             \/ CallMethod(c) \/ CallMethodRefused(c)
             \/ \E k \in Conns : CallMethodConnects(c, k)
             \/ ClientRuns(c) \/ ClientInterrupted(c)
      PROVE  RpcInv'
  BY <1>1, CallMethodKeeps, CallMethodRefusedKeeps, CallMethodConnectsKeeps, ClientSendsKeeps,
     ClientReceivesHeadKeeps, ClientReceivesBodyKeeps, CallIsLost DEF ClientRuns
<1>2. ASSUME NEW k \in Conns, ServerRuns(k) \/ ServerInterrupted(k) PROVE RpcInv'
  BY <1>2, ReceiveHeadKeeps, ReceiveBodyKeeps, ParseRequestKeeps, CallServiceMethodKeeps,
     ServerSendsKeeps, ServiceIsLost DEF ServerRuns
<1>3. CASE HandleCall
  BY <1>3, HandleCallKeeps
<1>4. CASE AddRpcService \/ StopRpcServer \/ UNCHANGED rpcVars
  <2>1. /\ up' = up /\ down' = down /\ cli' = cli /\ srv' = srv /\ buffer' = buffer
        /\ rpcQueue' = rpcQueue /\ overlapped' = overlapped
    BY <1>4 DEF AddRpcService, StopRpcServer, rpcVars
  <2>2. StreamsAre' /\ ClientsAre' /\ ServicesAre' /\ overlapped' \in BOOLEAN
    BY <2>1 DEF RpcInv, StreamsAre, ClientsAre, ServicesAre
  <2>3. (InTurn /\ AllLinked /\ AnswerIsOwn) => (InTurn' /\ AllLinked' /\ AnswerIsOwn')
    BY <2>1, Zenon DEF InTurn, AllLinked, AnswerIsOwn, UsesBuffer, Linked
  <2> QED
    BY <2>1, <2>2, <2>3, Zenon DEF RpcInv
<1> QED
  BY <1>1, <1>2, <1>3, <1>4 DEF RpcNext

\* A call that does not fail brings back the text that it sent, as long as
\* the connections take turns with the buffer_ of the server's codec: for
\* any number of clients, connections and calls, however reads and writes
\* are cut, whatever fails (RpcChannel::CallMethod, RpcServer's services).
THEOREM AnswersAreOwn == RpcSpec => []AnswerIsOwnInTurn
<1>1. RpcInv => AnswerIsOwnInTurn
  BY DEF RpcInv, AnswerIsOwnInTurn
<1> QED
  BY <1>1, RpcInitInv, RpcNextInv, PTL DEF RpcSpec

=============================================================================

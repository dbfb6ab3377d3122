--------------------------- MODULE ReadingProofs ----------------------------
(***************************************************************************)
(* What read_pack() makes of registers, for rows of any length: the folds   *)
(* that filter and join them, by induction over the row.  The induction is  *)
(* the least-number principle applied to the set of the exceptions.         *)
(***************************************************************************)
EXTENDS PackReading, TLAPS, WellFoundedInduction, SequenceTheorems

LEMMA WordIsNat == Word \subseteq Nat
BY DEF Word

LEMMA LeastNumber ==
  ASSUME NEW T \in SUBSET Nat, T # {}
  PROVE  \E x \in T : \A y \in T : x <= y
<1> DEFINE R == {ss \in Nat \X Nat : ss[1] < ss[2]}
<1>1. IsWellFoundedOn(R, Nat)
  BY NatLessThanWellFounded DEF OpToRel
<1> HIDE DEF R
<1>2. PICK x \in T : \A y \in T : ~(<<y, x>> \in R)
  BY <1>1, WFMin
<1>3. \A y \in T : ~(y < x)
  BY <1>2 DEF R
<1>4. QED
  BY <1>3

\* A set that has 0, and with each number up to n the next one, has them all.
LEMMA InductionUpTo ==
  ASSUME NEW n \in Nat, NEW T, 0 \in T, \A k \in 0 .. n - 1 : k \in T => k + 1 \in T
  PROVE  \A k \in 0 .. n : k \in T
<1> SUFFICES ASSUME (0 .. n) \ T # {} PROVE FALSE
  OBVIOUS
<1>1. PICK x \in (0 .. n) \ T : \A y \in (0 .. n) \ T : x <= y
  <2>1. (0 .. n) \ T \in SUBSET Nat
    OBVIOUS
  <2>2. QED
    BY <2>1, LeastNumber
<1>2. x # 0 /\ x - 1 \in 0 .. n - 1
  BY <1>1
<1>3. x - 1 \in T
  BY <1>1, <1>2
<1>4. QED
  BY <1>1, <1>2, <1>3

----------------------------------------------------------------------------
(* FlattenSeq, part by part.                                               *)

\* f joins the first k rows for each k.
Joins(f, ss, S) ==
  /\ f \in [0 .. Len(ss) -> Seq(S)]
  /\ f[0] = <<>> /\ f[Len(ss)] = FlattenSeq(ss)
  /\ \A k \in 0 .. Len(ss) - 1 : f[k + 1] = f[k] \o ss[k + 1]

\* What the definition of FlattenSeq makes of row i.
JoinedUpTo(ss, g, i) == IF i = 1 THEN ss[i] ELSE g[i - 1] \o ss[i]

\* Its values up to row k.
Rows(ss, S, k) ==
  {g \in [1 .. k -> Seq(S)] : \A i \in 1 .. k : g[i] = JoinedUpTo(ss, g, i)}

LEMMA MoreRows ==
  ASSUME NEW S, NEW ss \in Seq(Seq(S)), NEW k \in 0 .. Len(ss) - 1,
         NEW g \in Rows(ss, S, k)
  PROVE  Rows(ss, S, k + 1) # {}
<1> DEFINE r == JoinedUpTo(ss, g, k + 1)
           h == [i \in 1 .. k + 1 |-> IF i = k + 1 THEN r ELSE g[i]]
<1>1. /\ k \in Nat /\ ss[k + 1] \in Seq(S) /\ (k + 1) - 1 = k
      /\ k # 0 => k \in 1 .. k /\ k + 1 # 1
  OBVIOUS
<1>2. g \in [1 .. k -> Seq(S)] /\ \A i \in 1 .. k : g[i] = JoinedUpTo(ss, g, i)
  BY DEF Rows
<1>3. r \in Seq(S)
  BY <1>1, <1>2 DEF JoinedUpTo
<1>4. h \in [1 .. k + 1 -> Seq(S)]
  BY <1>1, <1>2, <1>3
<1>5. ASSUME NEW i \in 1 .. k + 1
      PROVE  h[i] = JoinedUpTo(ss, h, i)
  <2>1. i # 1 => i - 1 \in 1 .. k /\ h[i - 1] = g[i - 1]
    BY <1>1
  <2>2. JoinedUpTo(ss, h, i) = JoinedUpTo(ss, g, i)
    BY <2>1 DEF JoinedUpTo
  <2>3. h[i] = IF i = k + 1 THEN r ELSE g[i]
    OBVIOUS
  <2>4. i # k + 1 => i \in 1 .. k
    BY <1>1
  <2>5. QED
    BY <1>2, <2>2, <2>3, <2>4
<1> HIDE DEF h
<1>6. h \in Rows(ss, S, k + 1)
  BY <1>4, <1>5 DEF Rows
<1>7. QED
  BY <1>6

LEMMA AllRows ==
  ASSUME NEW S, NEW ss \in Seq(Seq(S))
  PROVE  Rows(ss, S, Len(ss)) # {}
<1> DEFINE n == Len(ss)
           T == {k \in 0 .. n : Rows(ss, S, k) # {}}
<1>1. n \in Nat /\ 0 \in 0 .. n /\ n \in 0 .. n
  OBVIOUS
<1>2. 0 \in T
  <2> DEFINE g == [i \in 1 .. 0 |-> <<>>]
  <2>1. g \in [1 .. 0 -> Seq(S)] /\ \A i \in 1 .. 0 : g[i] = JoinedUpTo(ss, g, i)
    OBVIOUS
  <2> HIDE DEF g
  <2>2. g \in Rows(ss, S, 0)
    BY <2>1 DEF Rows
  <2>3. QED
    BY <1>1, <2>2
<1>3. ASSUME NEW k \in 0 .. n - 1, k \in T
      PROVE  k + 1 \in T
  <2>1. Rows(ss, S, k + 1) # {}
    BY <1>3, MoreRows
  <2>2. QED
    BY <1>1, <2>1
<1> HIDE DEF T
<1>4. \A k \in 0 .. n : k \in T
  BY <1>1, <1>2, <1>3, InductionUpTo
<1>5. QED
  BY <1>1, <1>4 DEF T

\* The row that stands for all is the definition of FlattenSeq.
LEMMA FlattenIsRow ==
  ASSUME NEW S, NEW ss \in Seq(Seq(S)), ss # <<>>
  PROVE  \E g : /\ g \in Rows(ss, S, Len(ss))
                /\ FlattenSeq(ss) = g[Len(ss)]
<1> DEFINE n == Len(ss)
           fl == CHOOSE f : f = [i \in 1 .. n |-> JoinedUpTo(ss, f, i)]
           U == {k \in 0 .. n : k = 0 \/ fl[k] \in Seq(S)}
<1>1. n \in Nat \ {0} /\ \A i \in 1 .. n : ss[i] \in Seq(S)
  OBVIOUS
<1>2. PICK g : g \in Rows(ss, S, n)
  BY AllRows
<1>3. g = [i \in 1 .. n |-> JoinedUpTo(ss, g, i)]
  BY <1>2 DEF Rows
<1>4. fl = [i \in 1 .. n |-> JoinedUpTo(ss, fl, i)]
  BY <1>3
<1>5. FlattenSeq(ss) = fl[n]
  BY <1>1 DEF FlattenSeq, JoinedUpTo
<1> HIDE DEF fl
<1>6. \A i \in 1 .. n : fl[i] = JoinedUpTo(ss, fl, i)
  BY <1>4
<1>7. ASSUME NEW k \in 0 .. n - 1, k \in U
      PROVE  k + 1 \in U
  <2>1. k + 1 \in 1 .. n /\ (k + 1) - 1 = k /\ (k # 0 => k + 1 # 1)
    BY <1>1
  <2>2. fl[k + 1] = JoinedUpTo(ss, fl, k + 1) /\ ss[k + 1] \in Seq(S)
    BY <1>1, <1>6, <2>1
  <2>3. k # 0 => fl[k] \in Seq(S)
    BY <1>7
  <2>4. fl[k + 1] \in Seq(S)
    BY <2>1, <2>2, <2>3 DEF JoinedUpTo
  <2>5. QED
    BY <1>1, <2>1, <2>4
<1>8. 0 \in U
  BY <1>1
<1> HIDE DEF U
<1>9. \A k \in 0 .. n : k \in U
  BY <1>1, <1>7, <1>8, InductionUpTo
<1>10. \A k \in 1 .. n : fl[k] \in Seq(S)
  BY <1>9 DEF U
<1>11. fl \in [1 .. n -> Seq(S)]
  BY <1>4, <1>6, <1>10
<1>12. fl \in Rows(ss, S, n)
  BY <1>6, <1>11 DEF Rows
<1>13. QED
  BY <1>5, <1>12

\* The joined rows grow by one row at a time.
LEMMA FlattenParts ==
  ASSUME NEW S, NEW ss \in Seq(Seq(S))
  PROVE  \E f : Joins(f, ss, S)
<1> DEFINE n == Len(ss)
<1>0. n \in Nat /\ \A i \in 1 .. n : ss[i] \in Seq(S)
  OBVIOUS
<1>1. CASE ss = <<>>
  <2> DEFINE f == [i \in 0 .. 0 |-> <<>>]
  <2>1. FlattenSeq(ss) = <<>> /\ f \in [0 .. 0 -> Seq(S)] /\ Len(ss) = 0
    BY <1>1 DEF FlattenSeq
  <2>2. Joins(f, ss, S)
    BY <2>1 DEF Joins
  <2>3. QED
    BY <2>2
<1>2. CASE ss # <<>>
  <2>1. PICK g : g \in Rows(ss, S, n) /\ FlattenSeq(ss) = g[n]
    BY <1>2, FlattenIsRow
  <2>2. g \in [1 .. n -> Seq(S)] /\ \A i \in 1 .. n : g[i] = JoinedUpTo(ss, g, i)
    BY <2>1 DEF Rows
  <2> DEFINE f == [k \in 0 .. n |-> IF k = 0 THEN <<>> ELSE g[k]]
  <2>3. n # 0
    BY <1>2
  <2>4. f \in [0 .. n -> Seq(S)] /\ f[0] = <<>> /\ f[n] = FlattenSeq(ss)
    BY <1>0, <2>1, <2>2, <2>3
  <2>5. ASSUME NEW k \in 0 .. n - 1
        PROVE  f[k + 1] = f[k] \o ss[k + 1]
    <3>1. /\ k + 1 \in 1 .. n /\ (k + 1) - 1 = k /\ k \in 0 .. n /\ k + 1 \in 0 .. n
          /\ (k = 0 <=> k + 1 = 1) /\ k + 1 # 0
      BY <1>0
    <3>2. f[k + 1] = JoinedUpTo(ss, g, k + 1) /\ ss[k + 1] \in Seq(S)
      BY <1>0, <2>2, <3>1
    <3>3. CASE k = 0
      <4>1. f[k] = <<>> /\ f[k + 1] = ss[k + 1]
        BY <3>1, <3>2, <3>3 DEF JoinedUpTo
      <4>2. <<>> \o ss[k + 1] = ss[k + 1]
        BY <3>2, ConcatEmptySeq
      <4>3. QED
        BY <4>1, <4>2
    <3>4. CASE k # 0
      BY <3>1, <3>2, <3>4 DEF JoinedUpTo
    <3>5. QED
      BY <3>3, <3>4
  <2> HIDE DEF f
  <2>6. QED
    BY <2>4, <2>5 DEF Joins
<1>3. QED
  BY <1>1, <1>2

----------------------------------------------------------------------------
(* The registers that are populated.                                       *)

Kept(ws) == [n \in DOMAIN ws |-> IF ws[n] = Sentinel THEN <<>> ELSE <<ws[n]>>]

LEMMA PopulatedParts ==
  ASSUME NEW ws \in Seq(Word)
  PROVE  /\ Len(Kept(ws)) = Len(ws)
         /\ \E f : /\ Joins(f, Kept(ws), Word)
                  /\ f[Len(ws)] = Populated(ws)
<1>1. Len(ws) \in Nat /\ DOMAIN ws = 1 .. Len(ws)
  OBVIOUS
<1>2. \A n \in 1 .. Len(ws) : (IF ws[n] = Sentinel THEN <<>> ELSE <<ws[n]>>) \in Seq(Word)
  OBVIOUS
<1>3. Kept(ws) \in [1 .. Len(ws) -> Seq(Word)]
  BY <1>1, <1>2 DEF Kept
<1>4. Kept(ws) \in Seq(Seq(Word)) /\ Len(Kept(ws)) = Len(ws)
  BY <1>1, <1>3, SeqDef
<1>5. Populated(ws) = FlattenSeq(Kept(ws))
  BY DEF Populated, Kept
<1>6. PICK f : Joins(f, Kept(ws), Word)
  BY <1>4, FlattenParts
<1>7. QED
  BY <1>4, <1>5, <1>6 DEF Joins

\* One more register: it is appended unless it is the sentinel.
LEMMA KeptStep ==
  ASSUME NEW ws \in Seq(Word), NEW f, Joins(f, Kept(ws), Word),
         NEW k \in 0 .. Len(ws) - 1
  PROVE  /\ k + 1 \in 1 .. Len(ws) /\ ws[k + 1] \in Word
         /\ f[k] \in Seq(Word)
         /\ f[k + 1] = IF ws[k + 1] = Sentinel THEN f[k] ELSE Append(f[k], ws[k + 1])
<1>1. k + 1 \in 1 .. Len(ws) /\ k \in 0 .. Len(ws) /\ ws[k + 1] \in Word
  OBVIOUS
<1>2. Len(Kept(ws)) = Len(ws)
  BY PopulatedParts
<1>3. f[k] \in Seq(Word) /\ f[k + 1] = f[k] \o Kept(ws)[k + 1]
  BY <1>1, <1>2 DEF Joins
<1>4. Kept(ws)[k + 1] = IF ws[k + 1] = Sentinel THEN <<>> ELSE <<ws[k + 1]>>
  BY <1>1 DEF Kept
<1>5. f[k] \o <<>> = f[k] /\ f[k] \o <<ws[k + 1]>> = Append(f[k], ws[k + 1])
  BY <1>1, <1>3, ConcatEmptySeq, AppendIsConcat
<1>6. QED
  BY <1>1, <1>3, <1>4, <1>5

\* The values of the first k registers, but for the sentinel.
ValuesUpTo(ws, f, k) ==
  f[k] \in Seq(Word) /\ Range(f[k]) = {ws[i] : i \in 1 .. k} \ {Sentinel}

LEMMA RangeOfAppend ==
  ASSUME NEW S, NEW s \in Seq(S), NEW e \in S
  PROVE  Range(Append(s, e)) = Range(s) \cup {e}
<1> DEFINE n == Len(s)
           t == Append(s, e)
<1>1. /\ n \in Nat /\ DOMAIN s = 1 .. n /\ DOMAIN t = 1 .. n + 1
      /\ t[n + 1] = e /\ \A i \in 1 .. n : t[i] = s[i]
  OBVIOUS
<1> HIDE DEF n, t
<1>2. \A i \in 1 .. n + 1 : i \in 1 .. n \/ i = n + 1
  BY <1>1
<1>3. n + 1 \in 1 .. n + 1 /\ \A i \in 1 .. n : i \in 1 .. n + 1
  BY <1>1
<1>4. Range(t) = Range(s) \cup {e}
  BY <1>1, <1>2, <1>3 DEF Range
<1>5. QED
  BY <1>4 DEF t

\* The populated registers are the values that occur, but for the sentinel.
LEMMA PopulatedValues ==
  ASSUME NEW ws \in Seq(Word)
  PROVE  /\ Populated(ws) \in Seq(Word)
         /\ Range(Populated(ws)) = Range(ws) \ {Sentinel}
<1> DEFINE n == Len(ws)
<1>1. PICK f : Joins(f, Kept(ws), Word) /\ f[n] = Populated(ws)
  BY PopulatedParts
<1> DEFINE T == {k \in 0 .. n : ValuesUpTo(ws, f, k)}
<1>2. n \in Nat /\ DOMAIN ws = 1 .. n
  OBVIOUS
<1>3. ValuesUpTo(ws, f, 0)
  <2>1. f[0] = <<>>
    BY <1>1 DEF Joins
  <2>2. Range(<<>>) = {} /\ {ws[i] : i \in 1 .. 0} = {} /\ <<>> \in Seq(Word)
    BY DEF Range
  <2>3. QED
    BY <2>1, <2>2 DEF ValuesUpTo
<1>4. ASSUME NEW k \in 0 .. n - 1, ValuesUpTo(ws, f, k)
      PROVE  ValuesUpTo(ws, f, k + 1)
  <2>1. /\ k + 1 \in 1 .. n /\ ws[k + 1] \in Word /\ f[k] \in Seq(Word)
        /\ f[k + 1] = IF ws[k + 1] = Sentinel THEN f[k] ELSE Append(f[k], ws[k + 1])
    BY <1>1, KeptStep
  <2>2. {ws[i] : i \in 1 .. k + 1} = {ws[i] : i \in 1 .. k} \cup {ws[k + 1]}
    <3>1. \A i \in 1 .. k + 1 : i \in 1 .. k \/ i = k + 1
      BY <2>1
    <3>2. k + 1 \in 1 .. k + 1 /\ \A i \in 1 .. k : i \in 1 .. k + 1
      BY <2>1
    <3>3. QED
      BY <3>1, <3>2
  <2>3. Range(Append(f[k], ws[k + 1])) = Range(f[k]) \cup {ws[k + 1]}
    BY <2>1, RangeOfAppend
  <2>4. Append(f[k], ws[k + 1]) \in Seq(Word)
    BY <2>1
  <2>5. CASE ws[k + 1] = Sentinel
    BY <1>4, <2>1, <2>2, <2>5 DEF ValuesUpTo
  <2>6. CASE ws[k + 1] # Sentinel
    BY <1>4, <2>1, <2>2, <2>3, <2>4, <2>6 DEF ValuesUpTo
  <2>7. QED
    BY <2>5, <2>6
<1>5. \A k \in 0 .. n : ValuesUpTo(ws, f, k)
  <2>1. 0 \in T /\ \A k \in 0 .. n - 1 : k \in T => k + 1 \in T
    BY <1>2, <1>3, <1>4
  <2> HIDE DEF T
  <2>2. \A k \in 0 .. n : k \in T
    BY <1>2, <2>1, InductionUpTo
  <2>3. QED
    BY <2>2 DEF T
<1>6. n \in 0 .. n /\ {ws[i] : i \in 1 .. n} = Range(ws)
  BY <1>2 DEF Range
<1>7. QED
  BY <1>1, <1>5, <1>6 DEF ValuesUpTo

\* Up to k each has kept its place, and only sentinels were left out.
PlacesUpTo(ws, f, k) ==
  /\ f[k] \in Seq(Word) /\ Len(f[k]) <= k
  /\ \A i \in 1 .. Len(f[k]) : f[k][i] = ws[i]
  /\ Len(f[k]) = k \/ \E i \in 1 .. k : ws[i] = Sentinel

\* If sentinels come last, each populated register keeps its place.
LEMMA PopulatedPlaces ==
  ASSUME NEW ws \in Seq(Word), Contiguous(ws), NEW m \in DOMAIN Populated(ws)
  PROVE  m \in DOMAIN ws /\ Populated(ws)[m] = ws[m]
<1> DEFINE n == Len(ws)
<1>1. PICK f : Joins(f, Kept(ws), Word) /\ f[n] = Populated(ws)
  BY PopulatedParts
<1> DEFINE T == {k \in 0 .. n : PlacesUpTo(ws, f, k)}
<1>2. n \in Nat /\ DOMAIN ws = 1 .. n
  OBVIOUS
<1>3. PlacesUpTo(ws, f, 0)
  <2>1. f[0] = <<>> /\ <<>> \in Seq(Word) /\ Len(<<>>) = 0
    BY <1>1 DEF Joins
  <2>2. QED
    BY <2>1 DEF PlacesUpTo
<1>4. ASSUME NEW k \in 0 .. n - 1, PlacesUpTo(ws, f, k)
      PROVE  PlacesUpTo(ws, f, k + 1)
  <2>1. /\ k + 1 \in 1 .. n /\ ws[k + 1] \in Word /\ f[k] \in Seq(Word)
        /\ f[k + 1] = IF ws[k + 1] = Sentinel THEN f[k] ELSE Append(f[k], ws[k + 1])
    BY <1>1, KeptStep
  <2>2. CASE ws[k + 1] = Sentinel
    BY <1>4, <2>1, <2>2 DEF PlacesUpTo
  <2>3. CASE ws[k + 1] # Sentinel
    <3>1. \A i \in 1 .. k : ws[i] # Sentinel
      BY <1>2, <2>1, <2>3 DEF Contiguous
    <3>2. Len(f[k]) = k
      BY <1>4, <3>1 DEF PlacesUpTo
    <3>3. f[k + 1] = Append(f[k], ws[k + 1])
      BY <2>1, <2>3
    <3>4. QED
      BY <1>4, <2>1, <3>2, <3>3 DEF PlacesUpTo
  <2>4. QED
    BY <2>2, <2>3
<1>5. \A k \in 0 .. n : PlacesUpTo(ws, f, k)
  <2>1. 0 \in T /\ \A k \in 0 .. n - 1 : k \in T => k + 1 \in T
    BY <1>2, <1>3, <1>4
  <2> HIDE DEF T
  <2>2. \A k \in 0 .. n : k \in T
    BY <1>2, <2>1, InductionUpTo
  <2>3. QED
    BY <2>2 DEF T
<1>6. QED
  BY <1>1, <1>2, <1>5 DEF PlacesUpTo

----------------------------------------------------------------------------
(* Decimal digits.                                                         *)

DigitSeq == Seq(0 .. 9) \ {<<>>}

\* What the definition of Digits makes of a number, and its values up to n.
DigitsBy(f, w) == IF w < 10 THEN <<w>> ELSE Append(f[w \div 10], w % 10)

DigitTables(n) ==
  {f \in [0 .. n -> DigitSeq] : \A w \in 0 .. n : f[w] = DigitsBy(f, w)}

LEMMA Division ==
  ASSUME NEW w \in Nat
  PROVE  /\ w \div 10 \in Nat /\ w % 10 \in 0 .. 9
         /\ w = (10 * (w \div 10)) + (w % 10)
         /\ w >= 10 => w \div 10 < w
OBVIOUS

LEMMA DigitsByTyped ==
  ASSUME NEW w \in Nat, NEW f, w >= 10 => f[w \div 10] \in DigitSeq
  PROVE  DigitsBy(f, w) \in DigitSeq
<1>1. CASE w < 10
  BY <1>1 DEF DigitsBy, DigitSeq
<1>2. CASE w >= 10
  <2>1. w % 10 \in 0 .. 9
    BY Division
  <2>2. f[w \div 10] \in Seq(0 .. 9)
    BY <1>2 DEF DigitSeq
  <2>3. Append(f[w \div 10], w % 10) \in DigitSeq
    <3> DEFINE s == f[w \div 10]
               e == w % 10
    <3>1. s \in Seq(0 .. 9) /\ e \in 0 .. 9
      BY <2>1, <2>2
    <3> HIDE DEF s, e
    <3>2. Append(s, e) \in Seq(0 .. 9) /\ Append(s, e) # <<>>
      BY <3>1, AppendProperties
    <3>3. QED
      BY <3>2 DEF DigitSeq, s, e
  <2>4. QED
    BY <1>2, <2>3 DEF DigitsBy
<1>3. QED
  BY <1>1, <1>2

LEMMA LongerTable ==
  ASSUME NEW n \in Nat, NEW f \in DigitTables(n)
  PROVE  DigitTables(n + 1) # {}
<1> DEFINE d == DigitsBy(f, n + 1)
           h == [w \in 0 .. n + 1 |-> IF w = n + 1 THEN d ELSE f[w]]
<1>1. f \in [0 .. n -> DigitSeq] /\ \A w \in 0 .. n : f[w] = DigitsBy(f, w)
  BY DEF DigitTables
<1>2. \A w \in 0 .. n + 1 : w >= 10 => w \div 10 \in 0 .. n
  BY Division
<1>3. d \in DigitSeq
  BY <1>1, <1>2, DigitsByTyped
<1>4. h \in [0 .. n + 1 -> DigitSeq]
  BY <1>1, <1>3
<1>5. ASSUME NEW w \in 0 .. n + 1
      PROVE  h[w] = DigitsBy(h, w)
  <2>1. w >= 10 => h[w \div 10] = f[w \div 10]
    BY <1>2
  <2>2. DigitsBy(h, w) = DigitsBy(f, w)
    BY <2>1 DEF DigitsBy
  <2>3. w # n + 1 => w \in 0 .. n
    OBVIOUS
  <2>4. h[w] = IF w = n + 1 THEN d ELSE f[w]
    OBVIOUS
  <2>5. QED
    BY <1>1, <2>2, <2>3, <2>4
<1> HIDE DEF h
<1>6. h \in DigitTables(n + 1)
  BY <1>4, <1>5 DEF DigitTables
<1>7. QED
  BY <1>6

LEMMA TablesExist ==
  ASSUME NEW n \in Nat
  PROVE  DigitTables(n) # {}
<1> DEFINE T == {k \in 0 .. n : DigitTables(k) # {}}
<1>1. 0 \in T
  <2> DEFINE f == [w \in 0 .. 0 |-> <<0>>]
  <2>1. f \in [0 .. 0 -> DigitSeq] /\ \A w \in 0 .. 0 : f[w] = DigitsBy(f, w)
    BY DEF DigitsBy, DigitSeq
  <2> HIDE DEF f
  <2>2. f \in DigitTables(0)
    BY <2>1 DEF DigitTables
  <2>3. QED
    BY <2>2
<1>2. ASSUME NEW k \in 0 .. n - 1, k \in T
      PROVE  k + 1 \in T
  <2>1. DigitTables(k + 1) # {}
    BY <1>2, LongerTable
  <2>2. QED
    BY <2>1
<1> HIDE DEF T
<1>3. n \in T
  BY <1>1, <1>2, InductionUpTo
<1>4. QED
  BY <1>3 DEF T

\* Two tables agree where both are defined.
LEMMA TablesAgree ==
  ASSUME NEW m \in Nat, NEW n \in Nat, NEW f \in DigitTables(m), NEW g \in DigitTables(n),
         NEW w \in 0 .. m, w \in 0 .. n
  PROVE  f[w] = g[w]
<1> DEFINE T == {v \in 0 .. m : v \in 0 .. n /\ f[v] # g[v]}
<1>1. SUFFICES ASSUME T # {} PROVE FALSE
  OBVIOUS
<1>2. PICK v \in T : \A u \in T : v <= u
  <2>1. T \in SUBSET Nat
    OBVIOUS
  <2>2. QED
    BY <1>1, <2>1, LeastNumber
<1>3. v \in Nat /\ v <= m /\ v <= n /\ f[v] # g[v]
  BY <1>2
<1>4. f[v] = DigitsBy(f, v) /\ g[v] = DigitsBy(g, v)
  BY <1>3 DEF DigitTables
<1>5. v >= 10 => v \div 10 \in 0 .. m /\ v \div 10 \in 0 .. n /\ ~(v <= v \div 10)
  BY <1>3, Division
<1>6. v >= 10 => f[v \div 10] = g[v \div 10]
  BY <1>2, <1>5
<1>7. QED
  BY <1>3, <1>4, <1>6 DEF DigitsBy

\* Digits is what its recursive definition says, for every number.
LEMMA DigitsDefined ==
  /\ Digits \in [Nat -> DigitSeq]
  /\ \A w \in Nat : Digits[w] = DigitsBy(Digits, w)
<1> DEFINE table(n) == CHOOSE f : f \in DigitTables(n)
           d == [w \in Nat |-> table(w)[w]]
<1>1. \A n \in Nat : table(n) \in DigitTables(n)
  BY TablesExist
<1> HIDE DEF table
<1>2. ASSUME NEW w \in Nat
      PROVE  d[w] \in DigitSeq /\ d[w] = DigitsBy(d, w)
  <2> DEFINE v == w \div 10
  <2>1. w \in 0 .. w /\ table(w) \in DigitTables(w)
    BY <1>1
  <2>2. table(w)[w] \in DigitSeq /\ table(w)[w] = DigitsBy(table(w), w)
    BY <2>1 DEF DigitTables
  <2>3. v \in Nat /\ (w >= 10 => v < w)
    BY Division
  <2>4. w >= 10 => table(v)[v] = table(w)[v]
    <3>1. w >= 10 => v \in 0 .. v /\ v \in 0 .. w
      BY <2>3
    <3>2. table(v) \in DigitTables(v)
      BY <1>1, <2>3
    <3> HIDE DEF v
    <3>3. QED
      BY <2>1, <2>3, <3>1, <3>2, TablesAgree
  <2>5. d[w] = table(w)[w] /\ d[v] = table(v)[v]
    BY <2>3
  <2> HIDE DEF d
  <2>6. DigitsBy(d, w) = DigitsBy(table(w), w)
    BY <2>4, <2>5 DEF DigitsBy
  <2>7. QED
    BY <2>2, <2>5, <2>6
<1>3. d = [w \in Nat |-> DigitsBy(d, w)]
  <2>1. DOMAIN d = Nat /\ d = [w \in Nat |-> d[w]]
    OBVIOUS
  <2> HIDE DEF d
  <2>2. QED
    BY <1>2, <2>1
<1> HIDE DEF d
<1>4. Digits = CHOOSE f : f = [w \in Nat |-> DigitsBy(f, w)]
  BY DEF Digits, DigitsBy
<1>5. Digits = [w \in Nat |-> DigitsBy(Digits, w)]
  BY <1>3, <1>4
<1>6. \A w \in Nat : Digits[w] = DigitsBy(Digits, w)
  BY <1>5
<1>7. \A w \in Nat : Digits[w] \in DigitSeq
  <2> DEFINE T == {w \in Nat : Digits[w] \notin DigitSeq}
  <2>1. SUFFICES ASSUME T # {} PROVE FALSE
    OBVIOUS
  <2>2. PICK w \in T : \A v \in T : w <= v
    <3>1. T \in SUBSET Nat
      OBVIOUS
    <3>2. QED
      BY <2>1, <3>1, LeastNumber
  <2>3. w \in Nat /\ Digits[w] \notin DigitSeq
    BY <2>2
  <2>4. w >= 10 => w \div 10 \in Nat /\ ~(w <= w \div 10)
    BY <2>3, Division
  <2>5. w >= 10 => Digits[w \div 10] \in DigitSeq
    BY <2>2, <2>4
  <2>6. DigitsBy(Digits, w) \in DigitSeq
    BY <2>3, <2>5, DigitsByTyped
  <2>7. QED
    BY <1>6, <2>3, <2>6
<1>8. QED
  BY <1>5, <1>6, <1>7

\* The last digit and the digits before it.
LEMMA AppendIsInjective ==
  ASSUME NEW S, NEW s \in Seq(S), NEW t \in Seq(S), NEW d \in S, NEW e \in S,
         Append(s, d) = Append(t, e)
  PROVE  s = t /\ d = e
<1> DEFINE m == Len(s)
           n == Len(t)
<1>1. m \in Nat /\ n \in Nat /\ Len(Append(s, d)) = m + 1 /\ Len(Append(t, e)) = n + 1
  OBVIOUS
<1>2. m = n
  BY <1>1
<1>3. Append(s, d)[m + 1] = d /\ Append(t, e)[n + 1] = e
  OBVIOUS
<1>4. \A i \in 1 .. m : Append(s, d)[i] = s[i]
  OBVIOUS
<1>5. \A i \in 1 .. n : Append(t, e)[i] = t[i]
  OBVIOUS
<1>6. \A i \in 1 .. m : s[i] = t[i]
  BY <1>2, <1>4, <1>5
<1>7. QED
  BY <1>2, <1>3, <1>6, SeqEqual

\* A number of several digits.
LEMMA SeveralDigits ==
  ASSUME NEW w \in Nat, w >= 10
  PROVE  /\ Digits[w] = Append(Digits[w \div 10], w % 10)
         /\ Digits[w \div 10] \in Seq(0 .. 9) /\ w % 10 \in 0 .. 9
         /\ Len(Digits[w]) = Len(Digits[w \div 10]) + 1
         /\ Len(Digits[w \div 10]) \in Nat \ {0}
<1> DEFINE s == Digits[w \div 10]
           e == w % 10
<1>1. w \div 10 \in Nat /\ e \in 0 .. 9
  BY Division
<1>2. s \in Seq(0 .. 9) /\ s # <<>>
  BY <1>1, DigitsDefined DEF DigitSeq
<1>3. Digits[w] = Append(s, e)
  <2>1. Digits[w] = DigitsBy(Digits, w)
    BY DigitsDefined
  <2>2. ~(w < 10)
    OBVIOUS
  <2>3. DigitsBy(Digits, w) = Append(s, e)
    BY <2>2, Zenon DEF DigitsBy
  <2>4. QED
    BY <2>1, <2>3, Zenon
<1> HIDE DEF s, e
<1>4. Len(s) \in Nat \ {0} /\ Len(Append(s, e)) = Len(s) + 1
  BY <1>1, <1>2, EmptySeq, AppendProperties
<1>5. QED
  BY <1>1, <1>2, <1>3, <1>4 DEF s, e

\* Different numbers have different digits.
LEMMA DigitsInjective ==
  ASSUME NEW a \in Nat, NEW b \in Nat, Digits[a] = Digits[b]
  PROVE  a = b
<1> DEFINE T == {v \in Nat : \E u \in Nat : Digits[v] = Digits[u] /\ v # u}
<1>1. SUFFICES ASSUME T # {} PROVE FALSE
  OBVIOUS
<1>2. PICK v \in T : \A u \in T : v <= u
  <2>1. T \in SUBSET Nat
    OBVIOUS
  <2>2. QED
    BY <1>1, <2>1, LeastNumber
<1>3. PICK u \in Nat : Digits[v] = Digits[u] /\ v # u
  BY <1>2
<1>4. v \in Nat /\ v < u
  <2>1. u \in T /\ v \in Nat
    BY <1>2, <1>3
  <2>2. QED
    BY <1>2, <1>3, <2>1
<1>5. \A w \in Nat : w < 10 => Digits[w] = <<w>>
  BY DigitsDefined DEF DigitsBy
<1>6. CASE u < 10
  BY <1>3, <1>4, <1>5, <1>6
<1>7. CASE u >= 10 /\ v < 10
  <2>1. Digits[v] = <<v>> /\ Len(<<v>>) = 1
    BY <1>4, <1>5, <1>7
  <2>2. Len(Digits[u]) = Len(Digits[u \div 10]) + 1 /\ Len(Digits[u \div 10]) \in Nat \ {0}
    BY <1>7, SeveralDigits
  <2>3. QED
    BY <1>3, <2>1, <2>2
<1>8. CASE u >= 10 /\ v >= 10
  <2>1. Digits[v \div 10] = Digits[u \div 10] /\ v % 10 = u % 10
    <3> DEFINE s == Digits[v \div 10]
               t == Digits[u \div 10]
               d == v % 10
               e == u % 10
    <3>1. s \in Seq(0 .. 9) /\ t \in Seq(0 .. 9) /\ d \in 0 .. 9 /\ e \in 0 .. 9
      BY <1>4, <1>8, SeveralDigits
    <3>2. Append(s, d) = Append(t, e)
      BY <1>3, <1>4, <1>8, SeveralDigits
    <3> HIDE DEF s, t, d, e
    <3>3. s = t /\ d = e
      BY <3>1, <3>2, AppendIsInjective
    <3>4. QED
      BY <3>3 DEF s, t, d, e
  <2>2. v \div 10 \in Nat /\ u \div 10 \in Nat /\ v \div 10 < v
    BY <1>4, <1>8, Division
  <2>3. v \div 10 \notin T
    BY <1>2, <2>2
  <2>4. v \div 10 = u \div 10
    BY <2>1, <2>2, <2>3
  <2>5. v = (10 * (v \div 10)) + (v % 10) /\ u = (10 * (u \div 10)) + (u % 10)
    BY <1>4, Division
  <2>6. QED
    BY <1>3, <2>1, <2>4, <2>5
<1>9. QED
  BY <1>4, <1>6, <1>7, <1>8

----------------------------------------------------------------------------
(* The serial.                                                             *)

DigitRows(ws) == [n \in DOMAIN ws |-> Digits[ws[n]]]

LEMMA JoinedParts ==
  ASSUME NEW ws \in Seq(Word)
  PROVE  /\ Len(DigitRows(ws)) = Len(ws)
         /\ \A n \in 1 .. Len(ws) : DigitRows(ws)[n] = Digits[ws[n]]
         /\ \E f : /\ Joins(f, DigitRows(ws), 0 .. 9)
                  /\ f[Len(ws)] = Joined(ws)
<1>1. Len(ws) \in Nat /\ DOMAIN ws = 1 .. Len(ws)
  OBVIOUS
<1>2. ASSUME NEW n \in 1 .. Len(ws)
      PROVE  Digits[ws[n]] \in Seq(0 .. 9)
  <2>1. ws[n] \in Word
    OBVIOUS
  <2>2. ws[n] \in Nat
    BY <2>1, WordIsNat
  <2>3. QED
    BY <2>2, DigitsDefined DEF DigitSeq
<1>3. DigitRows(ws) \in [1 .. Len(ws) -> Seq(0 .. 9)]
  BY <1>1, <1>2 DEF DigitRows
<1>4. DigitRows(ws) \in Seq(Seq(0 .. 9)) /\ Len(DigitRows(ws)) = Len(ws)
  BY <1>1, <1>3, SeqDef
<1>5. Joined(ws) = FlattenSeq(DigitRows(ws))
  BY DEF Joined, DigitRows
<1>6. PICK f : Joins(f, DigitRows(ws), 0 .. 9)
  BY <1>4, FlattenParts
<1>7. \A n \in 1 .. Len(ws) : DigitRows(ws)[n] = Digits[ws[n]]
  BY <1>1 DEF DigitRows
<1>8. QED
  BY <1>4, <1>5, <1>6, <1>7 DEF Joins

\* One more register.
LEMMA JoinedStep ==
  ASSUME NEW ws \in Seq(Word), NEW f, Joins(f, DigitRows(ws), 0 .. 9),
         NEW i \in 1 .. Len(ws)
  PROVE  /\ ws[i] \in Nat /\ Digits[ws[i]] \in Seq(0 .. 9)
         /\ f[i - 1] \in Seq(0 .. 9) /\ f[i] = f[i - 1] \o Digits[ws[i]]
<1>1. ws[i] \in Word
  OBVIOUS
<1>2. ws[i] \in Nat
  BY <1>1, WordIsNat
<1>3. Digits[ws[i]] \in Seq(0 .. 9)
  BY <1>2, DigitsDefined DEF DigitSeq
<1>4. i - 1 \in 0 .. Len(ws) - 1 /\ i - 1 \in 0 .. Len(ws) /\ (i - 1) + 1 = i
  OBVIOUS
<1>5. Len(DigitRows(ws)) = Len(ws) /\ DigitRows(ws)[i] = Digits[ws[i]]
  BY JoinedParts
<1>6. f[i - 1] \in Seq(0 .. 9) /\ f[(i - 1) + 1] = f[i - 1] \o DigitRows(ws)[(i - 1) + 1]
  BY <1>4, <1>5 DEF Joins
<1>7. QED
  BY <1>2, <1>3, <1>4, <1>5, <1>6

LEMMA JoinedTyped ==
  ASSUME NEW ws \in Seq(Word)
  PROVE  Joined(ws) \in Seq(0 .. 9)
<1>1. PICK f : Joins(f, DigitRows(ws), 0 .. 9) /\ f[Len(ws)] = Joined(ws)
  BY JoinedParts
<1>2. Len(DigitRows(ws)) = Len(ws) /\ Len(ws) \in 0 .. Len(ws)
  BY JoinedParts
<1>3. QED
  BY <1>1, <1>2 DEF Joins

LEMMA ConcatFacts ==
  ASSUME NEW S, NEW s \in Seq(S), NEW u \in Seq(S)
  PROVE  /\ Len(s) \in Nat /\ Len(u) \in Nat /\ Len(s \o u) = Len(s) + Len(u)
         /\ \A i \in 1 .. Len(s) : (s \o u)[i] = s[i]
         /\ \A i \in 1 .. Len(u) : (s \o u)[Len(s) + i] = u[i]
OBVIOUS

\* Equal rows whose last parts are as long have the same parts.
LEMMA SplitAtTheEnd ==
  ASSUME NEW S, NEW s \in Seq(S), NEW t \in Seq(S), NEW u \in Seq(S), NEW v \in Seq(S),
         NEW r, s \o u = r, t \o v = r, Len(u) = Len(v)
  PROVE  s = t /\ u = v
<1>1. /\ Len(s) \in Nat /\ Len(u) \in Nat /\ Len(r) = Len(s) + Len(u)
      /\ \A i \in 1 .. Len(s) : r[i] = s[i]
      /\ \A i \in 1 .. Len(u) : r[Len(s) + i] = u[i]
  <2>1. /\ Len(s) \in Nat /\ Len(u) \in Nat /\ Len(s \o u) = Len(s) + Len(u)
        /\ \A i \in 1 .. Len(s) : (s \o u)[i] = s[i]
        /\ \A i \in 1 .. Len(u) : (s \o u)[Len(s) + i] = u[i]
    BY ConcatFacts
  <2>2. QED
    BY <2>1
<1>2. /\ Len(t) \in Nat /\ Len(v) \in Nat /\ Len(r) = Len(t) + Len(v)
      /\ \A i \in 1 .. Len(t) : r[i] = t[i]
      /\ \A i \in 1 .. Len(v) : r[Len(t) + i] = v[i]
  <2>1. /\ Len(t) \in Nat /\ Len(v) \in Nat /\ Len(t \o v) = Len(t) + Len(v)
        /\ \A i \in 1 .. Len(t) : (t \o v)[i] = t[i]
        /\ \A i \in 1 .. Len(v) : (t \o v)[Len(t) + i] = v[i]
    BY ConcatFacts
  <2>2. QED
    BY <2>1
<1>3. Len(s) = Len(t)
  BY <1>1, <1>2
<1>4. s = t
  <2>1. \A i \in 1 .. Len(s) : s[i] = t[i]
    BY <1>1, <1>2, <1>3
  <2>2. QED
    BY <1>3, <2>1, SeqEqual
<1>5. u = v
  <2>1. \A i \in 1 .. Len(u) : u[i] = v[i]
    BY <1>1, <1>2, <1>3
  <2>2. QED
    BY <2>1, SeqEqual
<1>6. QED
  BY <1>4, <1>5

\* Serials that are equal, of registers with numbers of the same length one
\* by one, come from the same registers.
LEMMA JoinedInjective ==
  ASSUME NEW ws \in Seq(Word), NEW vs \in Seq(Word), Len(ws) = Len(vs),
         \A n \in DOMAIN ws : Len(Digits[ws[n]]) = Len(Digits[vs[n]]),
         Joined(ws) = Joined(vs)
  PROVE  ws = vs
<1> DEFINE n == Len(ws)
<1>1. PICK f : Joins(f, DigitRows(ws), 0 .. 9) /\ f[n] = Joined(ws)
  BY JoinedParts
<1>2. PICK g : Joins(g, DigitRows(vs), 0 .. 9) /\ g[n] = Joined(vs)
  BY JoinedParts
<1> DEFINE Same(k) == f[n - k] = g[n - k]
           T == {k \in 0 .. n : Same(k)}
<1>3. n \in Nat /\ DOMAIN ws = 1 .. n /\ DOMAIN vs = 1 .. n
  OBVIOUS
<1>5. ASSUME NEW i \in 1 .. n, f[i] = g[i]
      PROVE  f[i - 1] = g[i - 1] /\ ws[i] = vs[i]
  <2>1. /\ ws[i] \in Nat /\ Digits[ws[i]] \in Seq(0 .. 9)
        /\ f[i - 1] \in Seq(0 .. 9) /\ f[i] = f[i - 1] \o Digits[ws[i]]
    BY <1>1, JoinedStep
  <2>2. /\ vs[i] \in Nat /\ Digits[vs[i]] \in Seq(0 .. 9)
        /\ g[i - 1] \in Seq(0 .. 9) /\ g[i] = g[i - 1] \o Digits[vs[i]]
    BY <1>2, JoinedStep
  <2>3. Len(Digits[ws[i]]) = Len(Digits[vs[i]])
    BY <1>3
  <2>4. f[i - 1] = g[i - 1] /\ Digits[ws[i]] = Digits[vs[i]]
    <3> DEFINE s == f[i - 1]
               u == Digits[ws[i]]
               t == g[i - 1]
               v == Digits[vs[i]]
               D == 0 .. 9
    <3>1. /\ s \in Seq(D) /\ t \in Seq(D) /\ u \in Seq(D) /\ v \in Seq(D)
          /\ s \o u = t \o v /\ Len(u) = Len(v)
      BY <1>5, <2>1, <2>2, <2>3
    <3> HIDE DEF s, t, u, v, D
    <3>2. s = t /\ u = v
      BY ONLY <3>1, SplitAtTheEnd, Zenon
    <3>3. QED
      BY <3>2 DEF s, t, u, v
  <2>5. QED
    BY <2>1, <2>2, <2>4, DigitsInjective
<1>6. \A k \in 0 .. n : k \in T
  <2>1. 0 \in T
    BY <1>1, <1>2, <1>3
  <2>2. ASSUME NEW k \in 0 .. n - 1, k \in T
        PROVE  k + 1 \in T
    <3>1. n - k \in 1 .. n /\ n - (k + 1) = (n - k) - 1 /\ k + 1 \in 0 .. n
      BY <1>3
    <3>2. f[n - k] = g[n - k]
      BY <2>2
    <3>3. Same(k + 1)
      BY <1>5, <3>1, <3>2
    <3>4. QED
      BY <3>1, <3>3
  <2> HIDE DEF T
  <2>3. QED
    BY <1>3, <2>1, <2>2, InductionUpTo
<1>7. \A i \in 1 .. n : f[i] = g[i]
  <2>1. ASSUME NEW i \in 1 .. n PROVE f[i] = g[i]
    <3>1. n - i \in 0 .. n /\ n - (n - i) = i
      BY <1>3
    <3>2. Same(n - i)
      BY <1>6, <3>1
    <3>3. QED
      BY <3>1, <3>2
  <2>2. QED
    BY <2>1
<1>8. \A i \in 1 .. n : ws[i] = vs[i]
  BY <1>5, <1>7
<1>9. QED
  BY <1>3, <1>8, SeqEqual

----------------------------------------------------------------------------
(* A reading.                                                              *)

LEMMA SignedTyped ==
  ASSUME NEW w \in Word
  PROVE  Signed(w) \in Int /\ (w # Sentinel <=> Signed(w) # Sentinel)
BY DEF Signed, Word, Sentinel

LEMMA SensorsTyped ==
  ASSUME NEW ws \in Seq(Word)
  PROVE  /\ SensorValues(ws) \in Seq(Int)
         /\ DOMAIN SensorValues(ws) = DOMAIN Populated(ws)
         /\ \A n \in DOMAIN Populated(ws) : SensorValues(ws)[n] = Signed(Populated(ws)[n])
<1> DEFINE t == Populated(ws)
<1>1. t \in Seq(Word)
  BY PopulatedValues
<1>2. SensorValues(ws) = [n \in DOMAIN t |-> Signed(t[n])]
  BY DEF SensorValues
<1> HIDE DEF t
<1>3. Len(t) \in Nat /\ DOMAIN t = 1 .. Len(t) /\ \A n \in 1 .. Len(t) : t[n] \in Word
  BY <1>1
<1>4. SensorValues(ws) \in [1 .. Len(t) -> Int]
  BY <1>2, <1>3, SignedTyped
<1>5. SensorValues(ws) \in Seq(Int)
  BY <1>3, <1>4, SeqDef
<1>6. QED
  BY <1>2, <1>3, <1>5 DEF t

\* read_pack() always returns well-formed data with at least one cell, of
\* whatever registers: a word is never published as a number out of its range
\* nor the sentinel as a cell.
THEOREM ReadableIsReading ==
  \A b \in Block : Readable(b) => /\ Decode(b) \in Reading /\ Decode(b).cells # <<>>
                                  /\ Sentinel \notin Range(Decode(b).cells)
<1> SUFFICES ASSUME NEW b \in Block, Readable(b)
             PROVE  /\ Decode(b) \in Reading /\ Decode(b).cells # <<>>
                    /\ Sentinel \notin Range(Decode(b).cells)
  OBVIOUS
<1>1. /\ b.cells \in Seq(Word) /\ b.temps \in Seq(Word) /\ b.serial \in Seq(Word)
      /\ b.voltage \in Word /\ b.current \in Word /\ b.soc \in Word
      /\ b.temp_bms \in Word /\ b.max_v \in Word /\ b.min_v \in Word
      /\ b.max_charge \in Word /\ b.max_discharge \in Word
  BY DEF Block
<1>2. Populated(b.cells) \in Seq(Nat)
  <2>1. Populated(b.cells) \in Seq(Word)
    BY <1>1, PopulatedValues
  <2>2. QED
    BY <2>1, WordIsNat, SeqMonotonic
<1>3. SensorValues(b.temps) \in Seq(Int)
  BY <1>1, SensorsTyped
<1>4. Joined(b.serial) \in Seq(0 .. 9)
  BY <1>1, JoinedTyped
<1>5. b.voltage \in Nat /\ b.soc \in Nat
  BY <1>1, WordIsNat
<1>6. -Signed(b.current) \in Int /\ Signed(b.temp_bms) \in Int
  BY <1>1, SignedTyped
<1>7. \A w \in Word : Limit(w) \in Nat \cup {None}
  BY WordIsNat DEF Limit
<1>8. \A w, n : Fet(w, n) \in BOOLEAN \cup {None}
  BY DEF Fet, Bit
<1>9. FaultFlags(b.fault) \in SUBSET Faults
  BY DEF FaultFlags
<1>10. /\ Limit(b.max_v) \in Nat \cup {None} /\ Limit(b.min_v) \in Nat \cup {None}
       /\ Limit(b.max_charge) \in Nat \cup {None}
       /\ Limit(b.max_discharge) \in Nat \cup {None}
  BY <1>1, <1>7
<1>11. Decode(b) \in Reading
  BY <1>2, <1>3, <1>4, <1>5, <1>6, <1>8, <1>9, <1>10 DEF Decode, Reading
<1>12. Decode(b).cells = Populated(b.cells)
  BY DEF Decode
<1>13. Sentinel \notin Range(Populated(b.cells))
  BY <1>1, PopulatedValues
<1>14. QED
  BY <1>11, <1>12, <1>13 DEF Readable

=============================================================================

---------------------------- MODULE ReplyProofs ----------------------------
(***************************************************************************)
(* What ReplyDecoding promises, proved of the declarations of RciReplies   *)
(* for every width of the integers and every number and text a reply may   *)
(* hold, with any number of members varied.                                *)
(*                                                                         *)
(* First the arithmetic of RciValues: the checked products and sums are    *)
(* exact or refused, no two cells share an identifier, and one mistyped    *)
(* digit of an IMEI is noticed.  Then the kinds: each is Plain, that is,   *)
(* whatever form it is given it does not panic and keeps what the form     *)
(* means.  Then every member of every declaration is Sound: its kind is    *)
(* Plain, in the unit that goes with its name, or keeps every text as it   *)
(* was reported.  The invariant says that a reply has a form for each      *)
(* member of its declaration, the usual one where none was varied, and     *)
(* that what is kept is what Judge made of it; the properties follow.      *)
(***************************************************************************)
EXTENDS RciReplies, ReplyDecoding, FiniteSetTheorems, TLAPS

-----------------------------------------------------------------------------
(* The arithmetic *)

LEMMA OverflowIsNoAmount == Overflow \notin Nat
  BY DEF Overflow

LEMMA MulIsExact ==
  ASSUME NEW a \in Nat, NEW b \in {24, 60, 1000}
  PROVE  CheckedMul(a, b) = IF a * b <= U64Max THEN a * b ELSE Overflow
<1>1. a <= U64Max \div b <=> a * b <= U64Max
  <2>1. CASE b = 24
    BY <2>1, WidthAssumption
  <2>2. CASE b = 60
    BY <2>2, WidthAssumption
  <2>3. CASE b = 1000
    BY <2>3, WidthAssumption
  <2> QED
    BY <2>1, <2>2, <2>3
<1> QED
  BY <1>1, OverflowIsNoAmount DEF CheckedMul

LEMMA AddIsExact ==
  ASSUME NEW a \in Nat, NEW b \in Nat
  PROVE  CheckedAdd(a, b) = IF a + b <= U64Max THEN a + b ELSE Overflow
<1>1. a <= U64Max - b <=> a + b <= U64Max
  BY WidthAssumption
<1> QED
  BY <1>1, OverflowIsNoAmount DEF CheckedAdd

LEMMA OverflowStays ==
  \A b : CheckedMul(Overflow, b) = Overflow /\ CheckedAdd(Overflow, b) = Overflow
  BY DEF CheckedMul, CheckedAdd

Seconds(d, h, m, s) == 86400 * d + 3600 * h + 60 * m + s

(* An uptime of days is the number of seconds it says; it is refused only   *)
(* when an hour, minute or second is out of its range or the seconds do not *)
(* fit a u64, though the product is built up in six checked steps.          *)
THEOREM UptimeIsExact ==
  ASSUME NEW d \in Nat, NEW h \in Nat, NEW m \in Nat, NEW s \in Nat
  PROVE  HumanSeconds(Human(<<d, h, m, s>>)) =
           IF h < 24 /\ m < 60 /\ s < 60 /\ Seconds(d, h, m, s) <= U64Max
           THEN Seconds(d, h, m, s) ELSE Overflow
<1> DEFINE v == Human(<<d, h, m, s>>)
<1>1. v.days = d /\ v.hours = h /\ v.minutes = m /\ v.seconds = s
  BY DEF Human
<1> HIDE DEF v
<1>2. CASE h >= 24 \/ m >= 60 \/ s >= 60
  <2>1. HumanSeconds(v) = Overflow
    BY <1>1, <1>2 DEF HumanSeconds
  <2> QED
    BY <1>2, <2>1 DEF v
<1>3. CASE h < 24 /\ m < 60 /\ s < 60
  <2> DEFINE Fitting(n) == IF n <= U64Max THEN n ELSE Overflow
             c1 == CheckedMul(d, 24)
             c2 == CheckedAdd(c1, h)
             c3 == CheckedMul(c2, 60)
             c4 == CheckedAdd(c3, m)
             c5 == CheckedMul(c4, 60)
             c6 == CheckedAdd(c5, s)
  <2>1. c1 = Fitting(d * 24)
    BY MulIsExact
  <2>2. c2 = Fitting(d * 24 + h)
    <3> HIDE DEF c1
    <3> QED
      BY <2>1, AddIsExact, OverflowStays, WidthAssumption
  <2>3. c3 = Fitting((d * 24 + h) * 60)
    <3> HIDE DEF c2
    <3> QED
      BY <2>2, MulIsExact, OverflowStays, WidthAssumption
  <2>4. c4 = Fitting((d * 24 + h) * 60 + m)
    <3> HIDE DEF c3
    <3> QED
      BY <2>3, AddIsExact, OverflowStays, WidthAssumption
  <2>5. c5 = Fitting(((d * 24 + h) * 60 + m) * 60)
    <3> HIDE DEF c4
    <3> QED
      BY <2>4, MulIsExact, OverflowStays, WidthAssumption
  <2>6. c6 = Fitting(((d * 24 + h) * 60 + m) * 60 + s)
    <3> HIDE DEF c5
    <3> QED
      BY <2>5, AddIsExact, OverflowStays, WidthAssumption
  <2>7. ((d * 24 + h) * 60 + m) * 60 + s = Seconds(d, h, m, s)
    BY DEF Seconds
  <2>8. HumanSeconds(v) = c6
    BY <1>1, <1>3 DEF HumanSeconds
  <2> HIDE DEF c6
  <2> QED
    BY <1>3, <2>6, <2>7, <2>8 DEF v
<1> QED
  BY <1>2, <1>3 DEF v

(* A cell's identifier tells its station and its sector apart: cells with    *)
(* one identifier are one cell, and it fits the 28 bits of an ECI.           *)
THEOREM CellsAreTold ==
  ASSUME NEW e1 \in Nat, NEW s1 \in Nat, NEW e2 \in Nat, NEW s2 \in Nat,
         Eci(Number(e1), Number(s1)) # None
  PROVE  /\ 0 <= Eci(Number(e1), Number(s1)).n /\ Eci(Number(e1), Number(s1)).n < 268435456
         /\ Eci(Number(e1), Number(s1)) = Eci(Number(e2), Number(s2)) => e1 = e2 /\ s1 = s2
<1>1. \A e, s \in Nat :
        Eci(Number(e), Number(s)) =
          IF e <= 1048575 /\ s <= 255 THEN Number(e * 256 + s) ELSE None
  BY DEF Eci, Number, None
<1>2. \A n : Number(n) # None /\ Number(n).n = n
  BY DEF Number, None
<1>3. e1 <= 1048575 /\ s1 <= 255 /\ Eci(Number(e1), Number(s1)) = Number(e1 * 256 + s1)
  BY <1>1
<1>4. ASSUME Eci(Number(e1), Number(s1)) = Eci(Number(e2), Number(s2))
      PROVE  e1 = e2 /\ s1 = s2
  <2>1. Eci(Number(e2), Number(s2)) =
          IF e2 <= 1048575 /\ s2 <= 255 THEN Number(e2 * 256 + s2) ELSE None
    BY <1>1
  <2>2. e2 <= 1048575 /\ s2 <= 255
    BY <1>3, <1>4, <2>1
  <2>3. Number(e1 * 256 + s1) = Number(e2 * 256 + s2)
    BY <1>3, <1>4, <2>1, <2>2
  <2>4. e1 * 256 + s1 = e2 * 256 + s2
    <3>1. \A p, q : Number(p) = Number(q) => p = q
      BY <1>2
    <3> QED
      BY <2>3, <3>1
  <2> QED
    BY <1>3, <2>2, <2>4
<1>5. Eci(Number(e1), Number(s1)).n = e1 * 256 + s1
  BY <1>2, <1>3
<1>6. 0 <= e1 * 256 + s1 /\ e1 * 256 + s1 < 268435456
  BY <1>3
<1> QED
  BY <1>4, <1>5, <1>6

(* The terms of the checksum of an IMEI *)
LEMMA DoubledTellsDigits ==
  ASSUME NEW a \in 0..9, NEW b \in 0..9
  PROVE  Doubled(a) \in 0..9 /\ (a # b => Doubled(a) # Doubled(b))
  BY DEF Doubled

LEMMA OneTermDiffers ==
  ASSUME NEW m \in [1..8 -> Nat], NEW n \in [1..8 -> Nat], NEW k \in 1..8,
         \A j \in 1..8 \ {k} : m[j] = n[j]
  PROVE  (n[1] + n[2] + n[3] + n[4] + n[5] + n[6] + n[7] + n[8]) + m[k]
           = (m[1] + m[2] + m[3] + m[4] + m[5] + m[6] + m[7] + m[8]) + n[k]
  OBVIOUS

LEMMA TermsAreSummed ==
  ASSUME NEW m \in [1..8 -> Nat]
  PROVE  m[1] + m[2] + m[3] + m[4] + m[5] + m[6] + m[7] + m[8] \in Nat
  OBVIOUS

LEMMA DecimalsDiffer ==
  ASSUME NEW m \in Nat, NEW n \in Nat, NEW a \in Nat, NEW b \in Nat, m + a = n + b,
         a - b \in -9..9, m % 10 = 0, n % 10 = 0
  PROVE  a = b
  OBVIOUS

(* Of a number with a right checksum, no misreading of one digit has one:    *)
(* a mistyped IMEI is never taken for another device's.                      *)
THEOREM MistypedImeiIsRefused ==
  ASSUME NEW d \in [1..15 -> 0..9], NEW i \in 1..15, NEW x \in 0..9 \ {d[i]},
         Checksum(d) % 10 = 0
  PROVE  Checksum([d EXCEPT ![i] = x]) % 10 # 0
<1> DEFINE e == [d EXCEPT ![i] = x]
           Term(f, k) == IF k = 8 THEN f[15] ELSE f[2 * k - 1] + Doubled(f[2 * k])
           Terms(f) == [k \in 1..8 |-> Term(f, k)]
<1>1. e \in [1..15 -> 0..9] /\ e[i] = x /\ \A j \in 1..15 \ {i} : e[j] = d[j]
  OBVIOUS
<1> HIDE DEF e
<1>2. \A f \in [1..15 -> 0..9] : Terms(f) \in [1..8 -> Nat]
  <2>1. \A f \in [1..15 -> 0..9] : \A j \in 1..15 : f[j] \in 0..9 /\ Doubled(f[j]) \in 0..9
    BY DEF Doubled
  <2> QED
    BY <2>1
<1>3. \A f \in [1..15 -> 0..9] :
        Checksum(f) = Terms(f)[1] + Terms(f)[2] + Terms(f)[3] + Terms(f)[4] + Terms(f)[5]
                      + Terms(f)[6] + Terms(f)[7] + Terms(f)[8]
  BY DEF Checksum
<1>4. PICK k \in 1..8 : i = 2 * k - 1 \/ i = 2 * k
  OBVIOUS
<1>5. \A j \in 1..8 \ {k} : Terms(d)[j] = Terms(e)[j]
  BY <1>1, <1>4
<1>6. Terms(d)[k] - Terms(e)[k] \in -9..9 /\ Terms(d)[k] # Terms(e)[k]
  <2>1. \A j \in 1..15 : d[j] \in 0..9 /\ e[j] \in 0..9
    BY <1>1
  <2>2. CASE i = 15
    <3>1. k = 8 /\ d[i] \in 0..9
      BY <1>4, <2>2
    <3>2. Terms(d)[k] = d[i] /\ Terms(e)[k] = x
      BY <1>1, <2>2, <3>1
    <3> HIDE DEF Terms
    <3> QED
      BY <3>1, <3>2
  <2>3. CASE i # 15 /\ i = 2 * k - 1
    <3>1. Terms(d)[k] = d[i] + Doubled(d[i + 1]) /\ Terms(e)[k] = x + Doubled(d[i + 1])
      BY <1>1, <1>4, <2>3
    <3>2. Doubled(d[i + 1]) \in 0..9 /\ d[i] \in 0..9
      BY <1>4, <2>1, <2>3 DEF Doubled
    <3> HIDE DEF Terms
    <3> QED
      BY <2>1, <3>1, <3>2
  <2>4. CASE i # 15 /\ i = 2 * k
    <3>1. Terms(d)[k] = d[i - 1] + Doubled(d[i]) /\ Terms(e)[k] = d[i - 1] + Doubled(x)
      BY <1>1, <1>4, <2>4
    <3>2. /\ Doubled(d[i]) \in 0..9 /\ Doubled(x) \in 0..9 /\ Doubled(d[i]) # Doubled(x)
          /\ d[i - 1] \in 0..9
      BY <1>4, <2>1, <2>4, DoubledTellsDigits
    <3> HIDE DEF Terms
    <3> QED
      BY <3>1, <3>2
  <2> HIDE DEF Terms
  <2> QED
    BY <1>4, <2>2, <2>3, <2>4
<1> HIDE DEF Terms
<1>7. Checksum(e) + Terms(d)[k] = Checksum(d) + Terms(e)[k]
  BY <1>1, <1>2, <1>3, <1>5, OneTermDiffers
<1>8. Checksum(e) \in Nat /\ Checksum(d) \in Nat
  BY <1>1, <1>2, <1>3, TermsAreSummed
<1>9. Terms(d)[k] \in Nat /\ Terms(e)[k] \in Nat
  BY <1>1, <1>2
<1>10. Checksum(e) % 10 # 0
  BY <1>6, <1>7, <1>8, <1>9, DecimalsDiffer
<1> QED
  BY <1>10 DEF e

-----------------------------------------------------------------------------
(* What is rightly made of a form *)

(* What is kept of an amount, in each class of members: a number, a number *)
(* as it was written, a real number, a duration, or a rate in a unit.      *)
As(class, m) ==
  CASE class = "number" -> Number(m.whole)
    [] class = "digits" -> Digits(m.whole)
    [] class = "real" -> Real(m.whole)
    [] class = "duration" -> Duration(m.whole, Number(m.part))
    [] class = "bps" -> Rate(m.whole)
    [] class = "kbps" -> Rate(1000 * m.whole)
    [] class = "Mbps" -> Rate(1000000 * m.whole)

(* The form in which what is no amount is kept: the meaning, save that a  *)
(* moment and a hardware address have no form but one of their spellings. *)
Canon(m) ==
  IF m = Moment("local") THEN Moment("router")
  ELSE IF m = Mac("any") THEN Mac("lower") ELSE m

Sizes == {"number", "digits", "real", "rate", "duration", "amount", "reported"}
(* Nothing that is no amount is kept as an amount or stands for another form. *)
Named(m) == m.is \notin Sizes /\ m # Moment("router") /\ m # Mac("lower")

(* What is kept tells what was meant, in the unit of the class. *)
Tells(class, v, k) ==
  IF Meaning(v).is = "amount"
  THEN /\ k = As(class, Meaning(v))
       /\ Meaning(v).whole \in Int /\ Meaning(v).part \in Int
       /\ class = "duration" \/ Meaning(v).part = 0
  ELSE k = Canon(Meaning(v)) /\ Named(Meaning(v))

(* The least of an i64, and what it or a u64 holds *)
Least == -(U64Max \div 2) - 1
Fits(n) == Least <= n /\ n <= U64Max
Wide(k) ==
  /\ k.is = "number" => k.n \in Int /\ Fits(k.n)
  /\ k.is = "rate" => k.bits \in Nat /\ k.bits <= U64Max

(* A form is treated right: it does not panic, it fits its width, and when a *)
(* value is kept the value tells what the form meant.                        *)
Right(class, v, k) == k # Panics /\ Wide(k) /\ (IsValue(k) => Tells(class, v, k))

(* To refuse a form, or to take it for nothing, is right in every class. *)
LEMMA NothingIsRight == \A c, v : Right(c, v, Refused) /\ Right(c, v, None)
  BY DEF Right, Refused, None, Panics, IsValue, Wide

(* A form that means itself *)
Literal(v) == Meaning(v) = v /\ v.is \notin Sizes /\ v.is \notin {"panics", "moment", "mac"}

(* Such a form is rightly kept as it is. *)
LEMMA LiteralsAreRight == \A c, v : Literal(v) => Right(c, v, v)
  BY DEF Literal, Right, Tells, Canon, Named, Wide, Sizes, Moment, Mac, Panics

(* The forms that mean themselves *)
LEMMA Literals ==
  /\ Literal(Absent) /\ Literal(Null) /\ Literal(Object) /\ Literal(EmptyObject)
  /\ Literal(List) /\ Literal(Flag)
  /\ \A w : w # "1.5" => Literal(Text(w))
  /\ \A s : Literal(Float(s))
  /\ \A f, s : s # "variant" => Literal(Address(f, s))
  /\ \A n, k : Literal(Chars(n, k))
  /\ \A d : Literal(ImeiNumber(d))
  /\ \A b : Literal(Bytes(b))
  /\ \A t : Literal(Traits(t))
  /\ \A m, n : Literal(Pair(m, n))
<1>1. /\ Literal(Absent) /\ Literal(Null) /\ Literal(Object) /\ Literal(EmptyObject)
      /\ Literal(List) /\ Literal(Flag)
  BY DEF Literal, Meaning, Sizes, Text, Absent, Null, Object, EmptyObject, List, Flag
<1>2. \A w : w # "1.5" => Literal(Text(w))
  BY DEF Literal, Meaning, Sizes, Text
<1>3. \A s : Literal(Float(s))
  BY DEF Literal, Meaning, Sizes, Text, Float
<1>4. \A f, s : s # "variant" => Literal(Address(f, s))
  BY DEF Literal, Meaning, Sizes, Text, Address
<1>5. /\ \A n, k : Literal(Chars(n, k))
      /\ \A d : Literal(ImeiNumber(d))
  BY DEF Literal, Meaning, Sizes, Text, Chars, ImeiNumber
<1>6. \A b : Literal(Bytes(b))
  BY DEF Literal, Meaning, Sizes, Text, Bytes
<1>7. /\ \A t : Literal(Traits(t))
      /\ \A m, n : Literal(Pair(m, n))
  BY DEF Literal, Meaning, Sizes, Text, Traits, Pair
<1> QED
  BY <1>1, <1>2, <1>3, <1>4, <1>5, <1>6, <1>7

(* A form is rightly kept as what it means, or as the one spelling of it. *)
LEMMA RetoldIsRight ==
  ASSUME NEW c, NEW v, NEW k,
         \/ Meaning(v) = k /\ k.is \notin Sizes /\ k.is \notin {"panics", "moment", "mac"}
         \/ Meaning(v) = Moment("local") /\ k = Moment("router")
         \/ Meaning(v) = Mac("any") /\ k = Mac("lower")
  PROVE  Right(c, v, k)
  BY DEF Right, Tells, Canon, Named, Wide, Sizes, Moment, Mac, Panics

(* The forms that are kept in another spelling *)
LEMMA OthersAreRight ==
  ASSUME NEW c
  PROVE  /\ \A w : Right(c, Recased(w), Text(w))
         /\ \A s : Right(c, Moment(s), Moment("router"))
         /\ \A l : Right(c, Mac(l), Mac("lower"))
         /\ \A f : Right(c, Address(f, "variant"), Address(f, "plain"))
         /\ \A n \in Int : \A l : n <= 65535 => Right(c, Nr(n, l), Nr(n, "n"))
         /\ \A p : Right(c, Modes(p), Modes(Trimmed(p)))
         /\ Right(c, Text("1.5"), Float("fraction"))
<1>1. \A w : Right(c, Recased(w), Text(w))
  <2>1. \A w : Meaning(Recased(w)) = Text(w)
    BY DEF Meaning, Recased, Text
  <2>2. \A w : Text(w).is = "text"
    BY DEF Text
  <2> QED
    BY <2>1, <2>2, RetoldIsRight DEF Sizes
<1>2. \A s : Right(c, Moment(s), Moment("router"))
  <2>1. \A s : Meaning(Moment(s)) = Moment("local")
    BY DEF Meaning, Moment, Text
  <2> QED
    BY <2>1, RetoldIsRight
<1>3. \A l : Right(c, Mac(l), Mac("lower"))
  <2>1. \A l : Meaning(Mac(l)) = Mac("any")
    BY DEF Meaning, Mac, Text
  <2> QED
    BY <2>1, RetoldIsRight
<1>4. \A f : Right(c, Address(f, "variant"), Address(f, "plain"))
  <2>1. \A f : Meaning(Address(f, "variant")) = Address(f, "plain")
    BY DEF Meaning, Address, Text
  <2>2. \A f : Address(f, "plain").is = "address"
    BY DEF Address
  <2> QED
    BY <2>1, <2>2, RetoldIsRight DEF Sizes
<1>5. \A n \in Int : \A l : n <= 65535 => Right(c, Nr(n, l), Nr(n, "n"))
  <2>1. \A n \in Int : \A l : n <= 65535 => Meaning(Nr(n, l)) = Nr(n, "n")
    BY DEF Meaning, Nr, Text
  <2>2. \A n : Nr(n, "n").is = "nr"
    BY DEF Nr
  <2> QED
    BY <2>1, <2>2, RetoldIsRight DEF Sizes
<1>6. \A p : Right(c, Modes(p), Modes(Trimmed(p)))
  <2>1. \A p : Meaning(Modes(p)) = Modes(Trimmed(p))
    BY DEF Meaning, Modes, Text
  <2>2. \A p : Modes(p).is = "modes"
    BY DEF Modes
  <2> QED
    BY <2>1, <2>2, RetoldIsRight DEF Sizes
<1>7. Right(c, Text("1.5"), Float("fraction"))
  <2>1. Meaning(Text("1.5")) = Float("fraction") /\ Float("fraction").is = "float"
    BY DEF Meaning, Text, Float
  <2> QED
    BY <2>1, RetoldIsRight DEF Sizes
<1> QED
  BY <1>1, <1>2, <1>3, <1>4, <1>5, <1>6, <1>7

(* The amounts of each class *)
LEMMA AmountsMean ==
  /\ \A n : Meaning(Number(n)) = Amount(n, 0) /\ Meaning(Digits(n)) = Amount(n, 0)
  /\ \A t : Meaning(Human(t)) = Amount(86400 * t[1] + 3600 * t[2] + 60 * t[3] + t[4], 0)
  /\ \A w, f, n : Meaning(Decimal(w, f, n)) = Amount(w, f * (1000000000 \div 10^n))
<1>1. \A n : Meaning(Number(n)) = Amount(n, 0) /\ Meaning(Digits(n)) = Amount(n, 0)
  BY DEF Meaning, Number, Digits, Text
<1>2. \A t : Meaning(Human(t)) = Amount(86400 * t[1] + 3600 * t[2] + 60 * t[3] + t[4], 0)
  BY DEF Meaning, Human, Text
<1>3. \A w, f, n : Meaning(Decimal(w, f, n)) = Amount(w, f * (1000000000 \div 10^n))
  BY DEF Meaning, Decimal, Text
<1> QED
  BY <1>1, <1>2, <1>3

(* An amount is rightly kept as its class keeps it. *)
LEMMA AmountIsRight ==
  ASSUME NEW c, NEW v, NEW k, NEW whole \in Int, NEW part \in Int,
         Meaning(v) = Amount(whole, part), c = "duration" \/ part = 0,
         k = As(c, Amount(whole, part)), k # Panics, Wide(k)
  PROVE  Right(c, v, k)
  BY DEF Right, Tells, Amount

(* The numbers of each class, as numbers and as texts *)
LEMMA NumbersAreRight ==
  ASSUME NEW n \in Int
  PROVE  /\ Fits(n) => /\ Right("number", Number(n), Number(n))
                       /\ Right("number", Digits(n), Number(n))
         /\ \A v : Meaning(v) = Amount(n, 0) /\ Fits(n) => Right("number", v, Number(n))
         /\ Right("digits", Digits(n), Digits(n))
         /\ Right("real", Number(n), Real(n)) /\ Right("real", Digits(n), Real(n))
         /\ n >= 0 /\ n <= U64Max => Right("bps", Number(n), Rate(n))
         /\ n >= 0 /\ n * 1000 <= U64Max => Right("kbps", Number(n), Rate(n * 1000))
         /\ n >= 0 /\ n * 1000000 <= U64Max => Right("Mbps", Number(n), Rate(n * 1000000))
         /\ Right("duration", Digits(n), Duration(n, Number(0)))
         /\ \A v : \A part \in Int : Meaning(v) = Amount(n, part) =>
              Right("duration", v, Duration(n, Number(part)))
<1>1. \A v : Meaning(v) = Amount(n, 0) /\ Fits(n) => Right("number", v, Number(n))
  <2>1. Number(n) # Panics /\ (Fits(n) => Wide(Number(n)))
    BY DEF Number, Panics, Wide
  <2>2. Number(n) = As("number", Amount(n, 0))
    BY DEF As, Amount
  <2> QED
    BY <2>1, <2>2, AmountIsRight
<1>2. Right("digits", Digits(n), Digits(n))
  <2>1. Digits(n) # Panics /\ Wide(Digits(n))
    BY DEF Digits, Panics, Wide
  <2>2. Digits(n) = As("digits", Amount(n, 0))
    BY DEF As, Amount
  <2> QED
    BY <2>1, <2>2, AmountIsRight, AmountsMean
<1>3. Right("real", Number(n), Real(n)) /\ Right("real", Digits(n), Real(n))
  <2>1. Real(n) # Panics /\ Wide(Real(n))
    BY DEF Real, Panics, Wide
  <2>2. Real(n) = As("real", Amount(n, 0))
    BY DEF As, Amount
  <2> QED
    BY <2>1, <2>2, AmountIsRight, AmountsMean
<1>4. \A u \in {1, 1000, 1000000} : n >= 0 /\ n * u <= U64Max =>
        Rate(u * n) # Panics /\ Wide(Rate(u * n))
  BY DEF Rate, Panics, Wide, Overflow, Refused
<1>5. n >= 0 /\ n <= U64Max => Right("bps", Number(n), Rate(n))
  <2>1. Rate(n) = As("bps", Amount(n, 0))
    BY DEF As, Amount
  <2>2. n * 1 = n /\ 1 * n = n
    OBVIOUS
  <2> QED
    BY <1>4, <2>1, <2>2, AmountIsRight, AmountsMean
<1>6. n >= 0 /\ n * 1000 <= U64Max => Right("kbps", Number(n), Rate(n * 1000))
  <2>1. Rate(1000 * n) = As("kbps", Amount(n, 0))
    BY DEF As, Amount
  <2>2. n * 1000 = 1000 * n
    OBVIOUS
  <2> QED
    BY <1>4, <2>1, <2>2, AmountIsRight, AmountsMean
<1>7. n >= 0 /\ n * 1000000 <= U64Max => Right("Mbps", Number(n), Rate(n * 1000000))
  <2>1. Rate(1000000 * n) = As("Mbps", Amount(n, 0))
    BY DEF As, Amount
  <2>2. n * 1000000 = 1000000 * n
    OBVIOUS
  <2> QED
    BY <1>4, <2>1, <2>2, AmountIsRight, AmountsMean
<1>8. \A v : \A part \in Int : Meaning(v) = Amount(n, part) =>
        Right("duration", v, Duration(n, Number(part)))
  <2>1. \A part : Duration(n, Number(part)) # Panics /\ Wide(Duration(n, Number(part)))
    BY DEF Duration, Panics, Wide
  <2>2. \A part : Duration(n, Number(part)) = As("duration", Amount(n, part))
    BY DEF As, Amount
  <2> QED
    BY <2>1, <2>2, AmountIsRight
<1> QED
  BY <1>1, <1>2, <1>3, <1>5, <1>6, <1>7, <1>8, AmountsMean

-----------------------------------------------------------------------------
(* Kinds of words and texts *)

(* A kind is plain in a class when it treats every form right. *)
Plain(kind, class) == \A v \in DOMAIN kind : Right(class, v, kind[v])

(* The tags of the forms, and what their fields are *)
LEMMA NamedForms ==
  /\ Absent.is = "absent" /\ Null.is = "null" /\ Object.is = "object" /\ EmptyObject.is = "empty"
  /\ List.is = "list" /\ Flag.is = "flag"
  BY DEF Absent, Null, Object, EmptyObject, List, Flag
LEMMA TextForm == \A w : Text(w).is = "text" /\ Text(w).word = w
  BY DEF Text
LEMMA NumberForm == \A n : Number(n).is = "number" /\ Number(n).n = n
  BY DEF Number
LEMMA DigitsForm == \A n : Digits(n).is = "digits" /\ Digits(n).n = n
  BY DEF Digits
LEMMA FloatForm == \A s : Float(s).is = "float" /\ Float(s).size = s
  BY DEF Float
LEMMA CharsForm == \A n, k : Chars(n, k).is = "chars"
  BY DEF Chars
LEMMA ImeiForm == \A d : ImeiNumber(d).is = "imei" /\ ImeiNumber(d).number = d
  BY DEF ImeiNumber
LEMMA BytesForm == \A b : Bytes(b).is = "bytes" /\ Bytes(b).bytes = b
  BY DEF Bytes
LEMMA AddressForm ==
  \A f, s : Address(f, s).is = "address" /\ Address(f, s).family = f /\ Address(f, s).spelling = s
  BY DEF Address
LEMMA RecasedForm == \A w : Recased(w).is = "recased" /\ Recased(w).recased = w
  BY DEF Recased

(* A word is a text that means itself, but for the one that is a fraction. *)
LEMMA WordsAreTexts ==
  ASSUME NEW w, w # "1.5"
  PROVE  Literal(Text(w)) /\ Text(w).is = "text" /\ IsText(Text(w))
<1>1. Text(w).is = "text"
  BY TextForm
<1> QED
  BY <1>1, Literals DEF IsText

(* What a member may always be is a text that means itself or no text. *)
LEMMA GenericForms ==
  ASSUME NEW v \in Generic
  PROVE  \/ v.is = "text" /\ IsText(v) /\ Literal(v)
         \/ /\ v \in {Absent, Null, Object, Flag, Number(1)}
            /\ v.is \in {"absent", "null", "object", "flag", "number"} /\ ~IsText(v)
<1>1. \/ v \in {Absent, Null, Object, Flag, Number(1)}
      \/ \E w \in {"", "other", "control"} : v = Text(w)
  BY DEF Generic
<1>2. CASE \E w \in {"", "other", "control"} : v = Text(w)
  <2>1. PICK w : w # "1.5" /\ v = Text(w)
    BY <1>2
  <2> QED
    BY <2>1, WordsAreTexts
<1>3. CASE v \in {Absent, Null, Object, Flag, Number(1)}
  <2>1. v.is \in {"absent", "null", "object", "flag", "number"}
    BY <1>3, NamedForms, NumberForm
  <2>2. ~IsText(v)
    BY <2>1 DEF IsText
  <2> QED
    BY <1>3, <2>1, <2>2
<1> QED
  BY <1>1, <1>2, <1>3

(* The kinds of serde, the closed and the open sets of words, identifiers *)
(* and inline texts keep a text as it is, but for the case of some.       *)
LEMMA StrPlain == \A c : Plain(Str, c)
  BY GenericForms, LiteralsAreRight, NothingIsRight DEF Plain, Str

LEMMA AcceptingPlain ==
  ASSUME NEW forms, NEW accepted, \A v \in accepted : Literal(v)
  PROVE  \A c : Plain(Accepting(forms, accepted), c)
  BY LiteralsAreRight, NothingIsRight DEF Plain, Accepting

LEMMA SerdePlain ==
  ASSUME NEW c
  PROVE  /\ Plain(Bool, c) /\ Plain(Struct, c) /\ Plain(LooseStruct, c)
         /\ Plain(MapOf, c) /\ Plain(ListOf, c)
  BY AcceptingPlain, Literals DEF Bool, Struct, LooseStruct, MapOf, ListOf

LEMMA OpenPlain ==
  ASSUME NEW words, "1.5" \notin words
  PROVE  \A c : Plain(Open(words), c)
<1>1. \A v \in DOMAIN Open(words) : v \in Generic \/ \E w : w # "1.5" /\ v = Text(w)
  BY DEF Open
<1>2. \A v \in DOMAIN Open(words) : IsText(v) => Literal(v)
  BY <1>1, GenericForms, WordsAreTexts
<1> QED
  BY <1>2, LiteralsAreRight, NothingIsRight DEF Plain, Open

LEMMA CaseBlindPlain ==
  ASSUME NEW words, "1.5" \notin words
  PROVE  \A c : Plain(CaseBlind(words), c)
<1>1. \A v \in DOMAIN CaseBlind(words) :
        \/ v \in Generic \/ (\E w : w # "1.5" /\ v = Text(w)) \/ \E w : v = Recased(w)
  BY DEF CaseBlind
<1>2. \A v \in DOMAIN CaseBlind(words) :
        \/ v.is # "recased" /\ (IsText(v) => Literal(v))
        \/ \E w : v = Recased(w)
  BY <1>1, GenericForms, WordsAreTexts
<1>3. ASSUME NEW c, NEW v \in DOMAIN CaseBlind(words)
      PROVE  Right(c, v, CaseBlind(words)[v])
  <2>1. CASE v.is # "recased" /\ (IsText(v) => Literal(v))
    BY <2>1, LiteralsAreRight, NothingIsRight DEF CaseBlind
  <2>2. ASSUME NEW w, v = Recased(w) PROVE Right(c, v, CaseBlind(words)[v])
    <3>1. CaseBlind(words)[v] = Text(w)
      BY <2>2, RecasedForm DEF CaseBlind
    <3> QED
      BY <2>2, <3>1, OthersAreRight
  <2> QED
    BY <1>2, <2>1, <2>2
<1> QED
  BY <1>3 DEF Plain

LEMMA IdentifierPlain == \A c : Plain(Identifier, c) /\ Plain(PresenceMarker, c)
<1>1. \A c : Plain(Identifier, c)
  BY GenericForms, LiteralsAreRight, NothingIsRight DEF Plain, Identifier
<1>2. Literal(Text(""))
  BY WordsAreTexts
<1>3. \A c : Plain(PresenceMarker, c)
  BY <1>2, LiteralsAreRight, NothingIsRight DEF Plain, PresenceMarker
<1> QED
  BY <1>1, <1>3

LEMMA InlineAsciiPlain ==
  ASSUME NEW class, NEW least, NEW capacity
  PROVE  \A c : Plain(InlineAscii(class, least, capacity), c)
<1>1. \A v \in DOMAIN InlineAscii(class, least, capacity) :
        v \in Generic \/ \E n, k : v = Chars(n, k)
  BY DEF InlineAscii
<1>2. \A v \in DOMAIN InlineAscii(class, least, capacity) : v.is = "chars" => Literal(v)
  BY <1>1, GenericForms, Literals
<1> QED
  BY <1>2, LiteralsAreRight, NothingIsRight DEF Plain, InlineAscii

-----------------------------------------------------------------------------
(* Integers *)

(* A numeral is a number, a text of one, or means itself. *)
LEMMA NumeralForms ==
  ASSUME NEW v \in Generic \cup Numerals
  PROVE  /\ v.is = "number" => v.n \in Int /\ v = Number(v.n)
         /\ v.is = "digits" => v.n \in Int /\ v = Digits(v.n)
         /\ v.is \notin {"number", "digits"} => Literal(v) \/ ~IsText(v)
         /\ IsText(v) => Literal(v) \/ v.is = "digits"
         /\ v.is \notin {"uptime", "decimal", "nr"}
<1>1. CASE v \in Generic
  <2>1. CASE v = Number(1)
    <3>1. v.is = "number" /\ v.n = 1 /\ ~IsText(v)
      BY <2>1, NumberForm DEF IsText
    <3> QED
      BY <2>1, <3>1
  <2>2. CASE v # Number(1)
    <3>1. v \in {Absent, Null, Object, Flag} =>
            v.is \notin {"number", "digits", "uptime", "decimal", "nr"}
      BY NamedForms
    <3> QED
      BY <1>1, <2>2, <3>1, GenericForms
  <2> QED
    BY <2>1, <2>2
<1>2. CASE v \in Numerals
  <2>1. \/ \E n \in Int : v = Number(n)
        \/ \E n \in Int : v = Digits(n)
        \/ \E s : v = Float(s)
    BY <1>2, BoundAssumption DEF Numerals
  <2>2. ASSUME NEW n \in Int, v = Number(n) PROVE v.is = "number" /\ v.n = n /\ ~IsText(v)
    BY <2>2, NumberForm DEF IsText
  <2>3. ASSUME NEW n \in Int, v = Digits(n) PROVE v.is = "digits" /\ v.n = n
    BY <2>3, DigitsForm
  <2>4. ASSUME NEW s, v = Float(s) PROVE v.is = "float" /\ ~IsText(v)
    BY <2>4, FloatForm DEF IsText
  <2> QED
    BY <2>1, <2>2, <2>3, <2>4
<1> QED
  BY <1>1, <1>2

(* Integers that are read from numbers, from texts or from either *)
LEMMA UIntPlain ==
  ASSUME NEW low \in Int, NEW high \in Int, Least <= low, high <= U64Max
  PROVE  Plain(UInt(low, high), "number")
<1> SUFFICES ASSUME NEW v \in Generic \cup Numerals PROVE Right("number", v, UInt(low, high)[v])
  BY DEF Plain, UInt
<1>1. CASE v.is = "number" /\ low <= v.n /\ v.n <= high
  <2>1. Fits(v.n) /\ UInt(low, high)[v] = v
    BY <1>1, NumeralForms, WidthAssumption DEF UInt, Fits, Least
  <2> QED
    BY <1>1, <2>1, NumeralForms, NumbersAreRight
<1>2. CASE ~(v.is = "number" /\ low <= v.n /\ v.n <= high)
  <2>1. UInt(low, high)[v] = Refused
    BY <1>2, NumeralForms DEF UInt
  <2> QED
    BY <2>1, NothingIsRight
<1> QED
  BY <1>1, <1>2

LEMMA EitherUIntPlain ==
  ASSUME NEW high \in Int, high <= U64Max
  PROVE  Plain(EitherUInt(high), "number")
<1> SUFFICES ASSUME NEW v \in Generic \cup Numerals
             PROVE  Right("number", v, EitherUInt(high)[v])
  BY DEF Plain, EitherUInt
<1>1. CASE v.is \in {"number", "digits"} /\ 0 <= v.n /\ v.n <= high
  <2>1. v.n \in Int
    BY <1>1, NumeralForms
  <2>2. Fits(v.n) /\ EitherUInt(high)[v] = Number(v.n)
    BY <1>1, <2>1, WidthAssumption DEF EitherUInt, Fits, Least
  <2> QED
    BY <1>1, <2>1, <2>2, NumeralForms, NumbersAreRight
<1>2. CASE ~(v.is \in {"number", "digits"} /\ 0 <= v.n /\ v.n <= high)
  <2>1. EitherUInt(high)[v] = Refused
    BY <1>2, NumeralForms DEF EitherUInt
  <2> QED
    BY <2>1, NothingIsRight
<1> QED
  BY <1>1, <1>2

LEMMA TextUIntPlain == \A high : Plain(TextUInt(high), "digits")
<1> SUFFICES ASSUME NEW high, NEW v \in Generic \cup Numerals
             PROVE  Right("digits", v, TextUInt(high)[v])
  BY DEF Plain, TextUInt
<1>1. CASE v.is = "digits"
  <2>1. Right("digits", v, v)
    BY <1>1, NumeralForms, NumbersAreRight
  <2> QED
    BY <2>1, NothingIsRight DEF TextUInt
<1>2. CASE v.is # "digits"
  BY <1>2, NothingIsRight DEF TextUInt
<1> QED
  BY <1>1, <1>2

(* The integers of the declarations *)
LEMMA AmountsPlain ==
  /\ Plain(UInt(0, U64Max), "number") /\ Plain(ByteCount, "number") /\ Plain(SecondsOf, "number")
  /\ Plain(McsIndex, "number") /\ Plain(ChannelWidth, "number") /\ Plain(GuardInterval, "number")
  /\ Plain(SpatialStreams, "number") /\ Plain(CpuLoad, "number") /\ Plain(Mtu, "number")
  /\ Plain(SignalLevel, "number") /\ Plain(UInt(0, U32Max), "number")
  /\ Plain(UInt(0, 255), "number") /\ Plain(UInt(1, 65535), "number")
  /\ Plain(EitherUInt(255), "number") /\ Plain(EitherUInt(U64Max), "number")
<1>1. \A low, high \in Int : Least <= low /\ high <= U64Max => Plain(UInt(low, high), "number")
  BY UIntPlain
<1>2. /\ U64Max \in Int /\ U32Max \in Int /\ U32Max <= U64Max /\ Least <= 0 /\ Least <= 1
      /\ Least <= 64 /\ 65535 <= U64Max /\ 255 <= U64Max /\ 100 <= U64Max /\ Least \in Int
      /\ U64Max \div 2 \in Int /\ U64Max \div 2 <= U64Max
  BY WidthAssumption DEF Least
<1>3. Plain(UInt(0, U64Max), "number") /\ Plain(UInt(0, U32Max), "number")
  BY <1>1, <1>2
<1>4. /\ Plain(UInt(0, 255), "number") /\ Plain(UInt(1, 255), "number")
      /\ Plain(UInt(0, 65535), "number")
  BY <1>1, <1>2
<1>5. /\ Plain(UInt(1, 65535), "number") /\ Plain(UInt(64, 65535), "number")
      /\ Plain(UInt(0, 100), "number")
  BY <1>1, <1>2
<1>6. Plain(SignalLevel, "number")
  BY <1>1, <1>2 DEF SignalLevel, Least
<1>7. Plain(EitherUInt(255), "number") /\ Plain(EitherUInt(U64Max), "number")
  BY <1>2, EitherUIntPlain
<1> QED
  BY <1>3, <1>4, <1>5, <1>6, <1>7
     DEF ByteCount, SecondsOf, McsIndex, ChannelWidth, GuardInterval, SpatialStreams, CpuLoad, Mtu

-----------------------------------------------------------------------------
(* What may be missing, rates and uptimes *)

(* A kind that restricts another takes some of its values for nothing, or   *)
(* refuses them, and otherwise agrees with it; what is right remains right. *)
Restricts(kind, of) ==
  /\ DOMAIN kind = DOMAIN of
  /\ \A v \in DOMAIN kind : kind[v] \in {None, Refused} \/ kind[v] = of[v]

LEMMA RestrictedPlain ==
  ASSUME NEW kind, NEW of, Restricts(kind, of), NEW c, Plain(of, c)
  PROVE  Plain(kind, c)
  BY NothingIsRight DEF Plain, Restricts

(* What may be missing or blank restricts what it is made of. *)
LEMMA OptionalsRestrict ==
  ASSUME NEW kind
  PROVE  /\ Restricts(Opt(kind), kind) /\ Restricts(Default(kind), kind)
         /\ Restricts(Nonempty(kind), kind) /\ Restricts(OptionalFromStr(kind), kind)
  BY DEF Restricts, Opt, Default, Nonempty, OptionalFromStr

LEMMA OptionalsPlain ==
  ASSUME NEW kind, NEW c, Plain(kind, c)
  PROVE  /\ Plain(Opt(kind), c) /\ Plain(Default(kind), c)
         /\ Plain(Nonempty(kind), c) /\ Plain(OptionalFromStr(kind), c)
  BY RestrictedPlain, OptionalsRestrict

LEMMA OptionalNonzeroPlain == Plain(OptionalNonzero, "number")
<1>1. Restricts(OptionalNonzero, UInt(0, 65535))
  BY DEF Restricts, OptionalNonzero
<1> QED
  BY <1>1, RestrictedPlain, AmountsPlain DEF ChannelWidth

(* A product that is not refused is the product. *)
LEMMA RateMulIsExact ==
  ASSUME NEW a \in Nat, NEW b \in {1, 1000, 1000000}
  PROVE  CheckedMul(a, b) = IF a * b <= U64Max THEN a * b ELSE Overflow
<1>1. a <= U64Max \div b <=> a * b <= U64Max
  <2>1. CASE b = 1
    BY <2>1, WidthAssumption
  <2>2. CASE b = 1000
    BY <2>2, WidthAssumption
  <2>3. CASE b = 1000000
    BY <2>3, WidthAssumption
  <2> QED
    BY <2>1, <2>2, <2>3
<1> QED
  BY <1>1, OverflowIsNoAmount DEF CheckedMul

(* A rate is kept in bits a second or refused. *)
LEMMA DataRatePlain ==
  /\ Plain(DataRate(1), "bps") /\ Plain(DataRate(1000), "kbps") /\ Plain(DataRate(1000000), "Mbps")
<1>1. ASSUME NEW u \in {1, 1000, 1000000}, NEW v \in Generic \cup Numerals
      PROVE  \/ DataRate(u)[v] = Refused
             \/ /\ v.is = "number" /\ v.n >= 0 /\ v.n * u <= U64Max
                /\ DataRate(u)[v] = Rate(v.n * u)
  <2>1. DataRate(u)[v] = IF ByteCount[v] = Refused THEN Refused ELSE Rate(CheckedMul(v.n, u))
    BY DEF DataRate, ByteCount, UInt
  <2>2. CASE v.is = "number" /\ v.n >= 0
    <3>1. v.n \in Nat
      BY <2>2, NumeralForms
    <3>2. CheckedMul(v.n, u) = IF v.n * u <= U64Max THEN v.n * u ELSE Overflow
      BY <3>1, RateMulIsExact
    <3>3. Rate(Overflow) = Refused
      BY DEF Rate
    <3> QED
      BY <2>1, <2>2, <3>2, <3>3
  <2>3. CASE ~(v.is = "number" /\ v.n >= 0)
    <3>1. ByteCount[v] = Refused
      BY <2>3, NumeralForms DEF ByteCount, UInt
    <3> QED
      BY <2>1, <3>1
  <2> QED
    BY <2>2, <2>3
<1>2. \A u : DOMAIN DataRate(u) = Generic \cup Numerals
  BY DEF DataRate, ByteCount, UInt
<1>3. \A v \in Generic \cup Numerals : v.is = "number" => v.n \in Int /\ v = Number(v.n)
  BY NumeralForms
<1>4. Plain(DataRate(1), "bps")
  <2>1. \A v \in Generic \cup Numerals : v.is = "number" => v.n * 1 = v.n
    BY <1>3
  <2> QED
    BY <1>1, <1>2, <1>3, <2>1, NothingIsRight, NumbersAreRight DEF Plain
<1>5. Plain(DataRate(1000), "kbps")
  BY <1>1, <1>2, <1>3, NothingIsRight, NumbersAreRight DEF Plain
<1>6. Plain(DataRate(1000000), "Mbps")
  BY <1>1, <1>2, <1>3, NothingIsRight, NumbersAreRight DEF Plain
<1> QED
  BY <1>4, <1>5, <1>6

(* An uptime is kept in seconds, in whichever form it is written. *)
LEMMA UptimePlain == Plain(Uptime, "number")
<1>1. ASSUME NEW v \in Generic \cup Numerals PROVE Uptime[v] = EitherUInt(U64Max)[v]
  <2>1. /\ v.is # "uptime"
        /\ Uptime[v] =
             IF v.is \in {"number", "digits"} THEN EitherUInt(U64Max)[v] ELSE Refused
    BY NumeralForms DEF Uptime
  <2> QED
    BY <2>1 DEF EitherUInt
<1>2. ASSUME NEW t \in HumanUptimes PROVE Right("number", Human(t), Uptime[Human(t)])
  <2>1. t \in Nat \X Nat \X Nat \X Nat
    BY BoundAssumption
  <2>2. /\ t[1] \in Nat /\ t[2] \in Nat /\ t[3] \in Nat /\ t[4] \in Nat
        /\ t = <<t[1], t[2], t[3], t[4]>>
    BY <2>1
  <2> DEFINE s == Seconds(t[1], t[2], t[3], t[4])
  <2>3. /\ HumanSeconds(Human(t)) \in {s, Overflow}
        /\ HumanSeconds(Human(t)) = s => s <= U64Max \/ s = Overflow
    BY <2>2, UptimeIsExact
  <2>4. s \in Nat /\ s = 86400 * t[1] + 3600 * t[2] + 60 * t[3] + t[4]
    BY <2>2 DEF Seconds
  <2>5. Human(t).is = "uptime"
    BY DEF Human
  <2>6. Uptime[Human(t)] = IF HumanSeconds(Human(t)) = Overflow THEN Refused
                           ELSE Number(HumanSeconds(Human(t)))
    BY <2>5 DEF Uptime
  <2>7. Meaning(Human(t)) = Amount(s, 0)
    BY <2>4, AmountsMean
  <2> HIDE DEF s
  <2>8. CASE HumanSeconds(Human(t)) = Overflow
    BY <2>6, <2>8, NothingIsRight
  <2>9. CASE HumanSeconds(Human(t)) # Overflow
    <3>1. HumanSeconds(Human(t)) = s /\ Fits(s)
      BY <2>3, <2>4, <2>9, WidthAssumption DEF Fits, Least
    <3> QED
      BY <2>4, <2>6, <2>7, <2>9, <3>1, NumbersAreRight
  <2> QED
    BY <2>8, <2>9
<1>3. \A v \in DOMAIN Uptime : v \in Generic \cup Numerals \/ \E t \in HumanUptimes : v = Human(t)
  BY DEF Uptime
<1>4. ASSUME NEW v \in Generic \cup Numerals PROVE Right("number", v, Uptime[v])
  <2>1. DOMAIN EitherUInt(U64Max) = Generic \cup Numerals
    BY DEF EitherUInt
  <2> QED
    BY <1>1, <2>1, AmountsPlain DEF Plain
<1>5. ASSUME NEW v \in DOMAIN Uptime PROVE Right("number", v, Uptime[v])
  BY <1>2, <1>3, <1>4
<1> QED
  BY <1>5 DEF Plain

-----------------------------------------------------------------------------
(* Expirations, durations, memory and bands *)

(* An expiration is a number of seconds or "infinity". *)
LEMMA LeaseExpirationPlain == Plain(LeaseExpiration, "number")
<1>1. Literal(Text("infinity"))
  BY WordsAreTexts
<1>2. ASSUME NEW v \in Generic \cup Numerals
      PROVE  v = Text("infinity") \/ LeaseExpiration[v] = UInt(0, U64Max)[v]
  BY DEF LeaseExpiration, UInt
<1>3. \A v \in Generic \cup Numerals : Right("number", v, UInt(0, U64Max)[v])
  <2>1. DOMAIN UInt(0, U64Max) = Generic \cup Numerals
    BY DEF UInt
  <2>2. Plain(UInt(0, U64Max), "number")
    BY AmountsPlain
  <2> QED
    BY <2>1, <2>2 DEF Plain
<1>4. \A v \in DOMAIN LeaseExpiration : v \in Generic \cup Numerals \/ v = Text("infinity")
  BY DEF LeaseExpiration
<1>5. LeaseExpiration[Text("infinity")] = Text("infinity")
  BY DEF LeaseExpiration
<1>6. ASSUME NEW v \in DOMAIN LeaseExpiration PROVE Right("number", v, LeaseExpiration[v])
  BY <1>1, <1>2, <1>3, <1>4, <1>5, LiteralsAreRight
<1> QED
  BY <1>6 DEF Plain

(* The billionths that a fraction of a second is *)
Billionths(fraction, length) == fraction * (1000000000 \div 10^length)

(* A fraction of up to nine digits is a whole number of nanoseconds. *)
LEMMA NanosAreExact ==
  ASSUME NEW f \in {0, 9}, NEW n \in {0, 1, 2, 9, 10}, n <= 9
  PROVE  Nanos(f, n) = Number(Billionths(f, n)) /\ Billionths(f, n) \in Int
<1> DEFINE Power(k) == 10^(9 - k) = 1000000000 \div 10^k /\ 1000000000 \div 10^k \in Int
<1>1. Power(0)
  BY SMT
<1>2. Power(1)
  <2>1. 10^1 = 10 /\ 10^(9 - 1) = 100000000
    BY SMT
  <2>2. 1000000000 \div 10 = 100000000
    BY SMT
  <2> QED
    BY <2>1, <2>2, SMT
<1>3. Power(2)
  BY SMT
<1>4. Power(9)
  BY SMT
<1> HIDE DEF Power
<1>5. n = 0 \/ n = 1 \/ n = 2 \/ n = 9
  OBVIOUS
<1>6. Power(n)
  BY <1>1, <1>2, <1>3, <1>4, <1>5
<1>7. Nanos(f, n) = Number(f * 10^(9 - n))
  BY DEF Nanos
<1>8. 10^(9 - n) = 1000000000 \div 10^n /\ 1000000000 \div 10^n \in Int
  BY <1>6, SMT DEF Power
<1> QED
  BY <1>7, <1>8, SMT DEF Billionths

(* A decimal duration keeps each nanosecond that is written and never has *)
(* a fraction too long for the exponent.                                  *)
LEMMA DecimalDurationPlain == Plain(DecimalDuration, "duration")
<1>1. \A w, f, n : Decimal(w, f, n).is = "decimal" /\ Decimal(w, f, n).whole = w
                   /\ Decimal(w, f, n).fraction = f /\ Decimal(w, f, n).length = n
  BY DEF Decimal
<1>2. ASSUME NEW v \in Generic \cup Numerals PROVE Right("duration", v, DecimalDuration[v])
  <2>1. \/ DecimalDuration[v] = Refused
        \/ v.is = "digits" /\ DecimalDuration[v] = Duration(v.n, Number(0))
    <3>1. v.is # "decimal"
      BY NumeralForms
    <3> QED
      BY <3>1 DEF DecimalDuration
  <2>2. v.is = "digits" => v.n \in Int /\ v = Digits(v.n)
    BY NumeralForms
  <2> QED
    BY <2>1, <2>2, NumbersAreRight, NothingIsRight
<1>3. ASSUME NEW w \in Numbers, NEW f \in {0, 9}, NEW n \in {0, 1, 2, 9, 10}, NEW v,
             v = Decimal(w, f, n), v \in DOMAIN DecimalDuration
      PROVE  Right("duration", v, DecimalDuration[v])
  <2>1. v.is = "decimal" /\ v.whole = w /\ v.fraction = f /\ v.length = n /\ w \in Int
    BY <1>1, <1>3, BoundAssumption
  <2>2. DecimalDuration[v] =
          IF w \notin 0..U64Max \/ n > 9 THEN Refused
          ELSE IF Nanos(f, n) = Panics THEN Panics ELSE Duration(w, Nanos(f, n))
    BY <1>3, <2>1 DEF DecimalDuration
  <2>3. CASE w \notin 0..U64Max \/ n > 9
    BY <2>2, <2>3, NothingIsRight
  <2>4. CASE w \in 0..U64Max /\ n <= 9
    <3> DEFINE part == Billionths(f, n)
    <3>1. Nanos(f, n) = Number(part) /\ part \in Int
      BY <2>4, NanosAreExact
    <3>2. Meaning(v) = Amount(w, part)
      BY <1>3, AmountsMean, SMT DEF Billionths
    <3> HIDE DEF part
    <3>3. Number(part) # Panics
      BY DEF Number, Panics
    <3>4. DecimalDuration[v] = Duration(w, Number(part))
      BY <2>2, <2>4, <3>1, <3>3
    <3> QED
      BY <2>1, <3>1, <3>2, <3>4, NumbersAreRight
  <2> QED
    BY <2>3, <2>4, SMT
<1>4. \A v \in DOMAIN DecimalDuration :
        \/ v \in Generic \cup Numerals
        \/ \E w \in Numbers, f \in {0, 9}, n \in {0, 1, 2, 9, 10} : v = Decimal(w, f, n)
  BY DEF DecimalDuration
<1>5. ASSUME NEW v \in DOMAIN DecimalDuration PROVE Right("duration", v, DecimalDuration[v])
  BY <1>2, <1>3, <1>4
<1> QED
  BY <1>5 DEF Plain

LEMMA MwsMemoryUsagePlain == \A c : Plain(MwsMemoryUsage, c)
<1>1. \A v \in DOMAIN MwsMemoryUsage : v \in Generic \/ \E m, n : v = Pair(m, n)
  BY DEF MwsMemoryUsage
<1>2. \A v \in DOMAIN MwsMemoryUsage : v.is = "pair" => Literal(v)
  BY <1>1, GenericForms, Literals
<1> QED
  BY <1>2, LiteralsAreRight, NothingIsRight DEF Plain, MwsMemoryUsage

(* A band is kept as it is written, but for the case of its letter. *)
LEMMA RadioBandPlain == Plain(RadioBand, "digits")
<1>1. \A n, l : Nr(n, l).is = "nr" /\ Nr(n, l).n = n
  BY DEF Nr
<1>2. ASSUME NEW v \in Generic \cup Numerals PROVE Right("digits", v, RadioBand[v])
  <2>1. RadioBand[v] = IF IsText(v) THEN v ELSE Refused
    <3>1. v.is # "nr"
      BY NumeralForms
    <3> QED
      BY <3>1 DEF RadioBand
  <2>2. v.is = "digits" => Right("digits", v, v)
    BY NumeralForms, NumbersAreRight
  <2> QED
    BY <2>1, <2>2, NumeralForms, LiteralsAreRight, NothingIsRight
<1>3. ASSUME NEW n \in Int, NEW l, NEW v, v = Nr(n, l), v \in DOMAIN RadioBand
      PROVE  Right("digits", v, RadioBand[v])
  <2>1. v.is = "nr" /\ v.n = n /\ IsText(v)
    <3>1. v.is = "nr" /\ v.n = n
      BY <1>1, <1>3
    <3> QED
      BY <3>1 DEF IsText
  <2>2. RadioBand[v] = IF n <= 65535 THEN Nr(n, "n") ELSE v
    BY <1>3, <2>1 DEF RadioBand
  <2>3. CASE n <= 65535
    BY <1>3, <2>2, <2>3, OthersAreRight
  <2>4. CASE ~(n <= 65535)
    <3>1. Meaning(v) = v
      BY <1>3, <2>1, <2>4 DEF Meaning, Text
    <3>2. Literal(v)
      BY <2>1, <3>1 DEF Literal, Sizes
    <3> QED
      BY <2>2, <2>4, <3>2, LiteralsAreRight
  <2> QED
    BY <2>3, <2>4
<1>4. \A v \in DOMAIN RadioBand : v \in Generic \cup Numerals \/ \E n \in Int : \E l : v = Nr(n, l)
  BY DEF RadioBand
<1>5. ASSUME NEW v \in DOMAIN RadioBand PROVE Right("digits", v, RadioBand[v])
  BY <1>2, <1>3, <1>4
<1> QED
  BY <1>5 DEF Plain

-----------------------------------------------------------------------------
(* Addresses, lists, measurements and identities *)

(* Addresses, hosts, moments and lists are kept in one spelling each. *)
LEMMA IpAddrPlain ==
  ASSUME NEW families
  PROVE  \A c : Plain(IpAddr(families), c)
<1>1. \A v \in DOMAIN IpAddr(families) :
        v \in Generic \/ \E f : \E s \in {"plain", "variant", "unspecified"} : v = Address(f, s)
  BY DEF IpAddr, Addresses
<1>2. ASSUME NEW c, NEW v \in Generic, v \in DOMAIN IpAddr(families)
      PROVE  Right(c, v, IpAddr(families)[v])
  <2>1. IpAddr(families)[v] = Refused
    BY <1>2, GenericForms DEF IpAddr
  <2> QED
    BY <2>1, NothingIsRight
<1>3. ASSUME NEW c, NEW f, NEW s \in {"plain", "variant", "unspecified"},
             NEW v, v = Address(f, s), v \in DOMAIN IpAddr(families)
      PROVE  Right(c, v, IpAddr(families)[v])
  <2>1. IpAddr(families)[v] = IF s = "variant" THEN Address(f, "plain") ELSE v
    BY <1>3, AddressForm DEF IpAddr
  <2>2. CASE s = "variant"
    BY <1>3, <2>1, <2>2, OthersAreRight
  <2>3. CASE s # "variant"
    BY <1>3, <2>1, <2>3, Literals, LiteralsAreRight
  <2> QED
    BY <2>2, <2>3
<1>4. ASSUME NEW c, NEW v \in DOMAIN IpAddr(families) PROVE Right(c, v, IpAddr(families)[v])
  BY <1>1, <1>2, <1>3
<1> QED
  BY <1>4 DEF Plain

LEMMA UnspecifiedIsNonePlain == \A family, c : Plain(UnspecifiedIsNone(family), c)
<1>1. \A family : Restricts(UnspecifiedIsNone(family), IpAddr({family}))
  BY DEF Restricts, UnspecifiedIsNone
<1>2. \A family, c : Plain(IpAddr({family}), c)
  BY IpAddrPlain
<1> QED
  BY <1>1, <1>2, RestrictedPlain

LEMMA NetworkHostPlain == \A c : Plain(NetworkHost, c)
<1>1. DOMAIN NetworkHost = DOMAIN IpAddr({4, 6})
  BY DEF NetworkHost, IpAddr
<1>2. ASSUME NEW c, NEW v \in DOMAIN NetworkHost, v.is = "address"
      PROVE  Right(c, v, NetworkHost[v])
  <2>1. NetworkHost[v] = IpAddr({4, 6})[v]
    BY <1>2 DEF NetworkHost
  <2> QED
    BY <1>1, <2>1, IpAddrPlain DEF Plain
<1>3. ASSUME NEW c, NEW v \in DOMAIN NetworkHost, v.is # "address"
      PROVE  Right(c, v, NetworkHost[v])
  <2>1. v \in Generic
    BY <1>3, AddressForm DEF NetworkHost, Addresses
  <2>2. NetworkHost[v] = Identifier[v] /\ v \in DOMAIN Identifier
    BY <1>3, <2>1 DEF NetworkHost, Identifier
  <2> QED
    BY <2>2, IdentifierPlain DEF Plain
<1> QED
  BY <1>2, <1>3 DEF Plain

LEMMA IpNetPlain == \A family, c : Plain(IpNet(family), c)
<1>1. \A family : Literal(Address(family, "prefix"))
  BY Literals
<1> QED
  BY <1>1, AcceptingPlain DEF IpNet

LEMMA MacAddressPlain == \A c : Plain(MacAddress, c)
  BY OthersAreRight, NothingIsRight DEF Plain, MacAddress

LEMMA RouterDatetimePlain == \A c : Plain(RouterDatetime, c)
  BY OthersAreRight, NothingIsRight DEF Plain, RouterDatetime

LEMMA TraitListPlain == \A c : Plain(TraitList, c)
<1> DEFINE lists == {Traits({t}) : t \in InterfaceTrait \cup {"other", "mobile"}}
                      \cup {Traits({}), Traits({"Ip", "UsbLte"})}
<1>1. \A v \in lists : Literal(v)
  BY Literals
<1>2. TraitList = Accepting(lists, lists)
  BY DEF TraitList
<1> HIDE DEF lists
<1> QED
  BY <1>1, <1>2, AcceptingPlain

LEMMA HardwareVendorPlain == \A c : Plain(HardwareVendor, c)
<1> DEFINE vendors == {Bytes(b) : b \in Vendors}
<1>1. \A v \in vendors : Literal(v)
  BY Literals
<1>2. HardwareVendor = Accepting(vendors, vendors)
  BY DEF HardwareVendor
<1> HIDE DEF vendors
<1> QED
  BY <1>1, <1>2, AcceptingPlain

LEMMA SupportedModesPlain == \A c : Plain(SupportedModes, c)
<1>1. \A p : Modes(p).is = "modes" /\ Modes(p).parts = p
  BY DEF Modes
<1>2. \A v \in DOMAIN SupportedModes : v \in Generic \/ \E p : v = Modes(p)
  BY DEF SupportedModes
<1>3. ASSUME NEW c, NEW v \in Generic, v \in DOMAIN SupportedModes
      PROVE  Right(c, v, SupportedModes[v])
  <2>1. v.is # "modes"
    BY GenericForms
  <2>2. SupportedModes[v] = Refused \/ (IsText(v) /\ SupportedModes[v] = v)
    BY <1>3, <2>1 DEF SupportedModes
  <2> QED
    BY <2>2, GenericForms, LiteralsAreRight, NothingIsRight
<1>4. ASSUME NEW c, NEW p, NEW v, v = Modes(p), v \in DOMAIN SupportedModes
      PROVE  Right(c, v, SupportedModes[v])
  <2>1. v.is = "modes" /\ v.parts = p
    BY <1>1, <1>4
  <2>2. SupportedModes[v] \in {Refused, Modes(Trimmed(p))}
    BY <1>4, <2>1 DEF SupportedModes
  <2> QED
    BY <1>4, <2>2, OthersAreRight, NothingIsRight
<1>5. ASSUME NEW c, NEW v \in DOMAIN SupportedModes PROVE Right(c, v, SupportedModes[v])
  BY <1>2, <1>3, <1>4
<1> QED
  BY <1>5 DEF Plain

(* A measurement is a real number, a fraction or not finite. *)
LEMMA RealForm == \A n : Real(n).is = "real" /\ Real(n).n = n
  BY DEF Real

LEMMA RealsAreRead ==
  ASSUME NEW v \in DOMAIN OptionalF32
  PROVE  \/ OptionalF32[v] \in {None, Refused, Float("huge")}
         \/ \E n \in Numbers \cup {1} : v \in {Number(n), Digits(n)} /\ OptionalF32[v] = Real(n)
         \/ v \in {Text("1.5"), Float("fraction")} /\ OptionalF32[v] = Float("fraction")
<1>1. CASE v.is \in {"number", "digits"}
  <2>1. v \in Generic \cup Numerals
    <3>1. v \notin {Text("1.5")} \cup NotFinite
      BY <1>1, TextForm, FloatForm DEF NotFinite
    <3> QED
      BY <3>1 DEF OptionalF32
  <2>2. \E n \in Numbers \cup {1} : v \in {Number(n), Digits(n)}
    <3>1. CASE v \in Generic
      BY <1>1, <3>1, GenericForms, NamedForms
    <3>2. CASE v \in Numerals
      BY <1>1, <3>2, FloatForm DEF Numerals
    <3> QED
      BY <2>1, <3>1, <3>2
  <2>3. PICK n \in Numbers \cup {1} : v \in {Number(n), Digits(n)}
    BY <2>2
  <2>4. v.n = n
    BY <2>3, NumberForm, DigitsForm
  <2>5. OptionalF32[v] \in {Real(n), Refused, None}
    BY <1>1, <2>4 DEF OptionalF32
  <2> QED
    BY <2>3, <2>5
<1>2. CASE v.is \notin {"number", "digits"}
  BY <1>2 DEF OptionalF32
<1> QED
  BY <1>1, <1>2

(* A unit refuses what is not finite or keeps what it is given. *)
LEMMA UnitsRead ==
  ASSUME NEW unit \in {Finite, CarrierBandwidth}
  PROVE  /\ \A n \in Numbers \cup {1} : unit[Real(n)] \in {Real(n), Refused}
         /\ unit[Float("fraction")] \in {Float("fraction"), Refused}
         /\ unit[Float("huge")] = Refused
<1>1. /\ \A n \in Numbers \cup {1} : Finite[Real(n)] = Real(n)
      /\ Finite[Float("fraction")] = Float("fraction")
      /\ Finite[Float("huge")] = Refused
  <2>1. Float("fraction") # Float("huge") /\ \A n : Real(n) # Float("huge")
    BY FloatForm, RealForm
  <2> QED
    BY <2>1 DEF Finite
<1>2. /\ \A n \in Numbers \cup {1} : CarrierBandwidth[Real(n)] \in {Finite[Real(n)], Refused}
      /\ CarrierBandwidth[Float("fraction")] \in {Finite[Float("fraction")], Refused}
      /\ CarrierBandwidth[Float("huge")] \in {Finite[Float("huge")], Refused}
  <2>1. DOMAIN Finite = {Float("fraction"), Float("huge")} \cup {Real(n) : n \in Numbers \cup {1}}
    BY DEF Finite
  <2>2. \A v \in DOMAIN Finite : CarrierBandwidth[v] \in {Finite[v], Refused}
    BY DEF CarrierBandwidth
  <2> QED
    BY <2>1, <2>2
<1> QED
  BY <1>1, <1>2

LEMMA MeasurementPlain ==
  ASSUME NEW unit \in {Finite, CarrierBandwidth}
  PROVE  Plain(OptionalMeasurement(unit), "real") /\ Plain(Measurement(unit), "real")
<1>1. ASSUME NEW v \in DOMAIN OptionalF32 PROVE Right("real", v, OptionalMeasurement(unit)[v])
  <2>1. OptionalMeasurement(unit)[v] =
          IF OptionalF32[v] \in {None, Refused} THEN OptionalF32[v] ELSE unit[OptionalF32[v]]
    BY DEF OptionalMeasurement
  <2>2. CASE OptionalF32[v] \in {None, Refused, Float("huge")}
    BY <2>1, <2>2, UnitsRead, NothingIsRight
  <2>3. ASSUME NEW n \in Numbers \cup {1}, v \in {Number(n), Digits(n)}, OptionalF32[v] = Real(n)
        PROVE  Right("real", v, OptionalMeasurement(unit)[v])
    <3>1. n \in Int /\ OptionalMeasurement(unit)[v] \in {None, Refused, Real(n)}
      BY <2>1, <2>3, UnitsRead, BoundAssumption
    <3> QED
      BY <2>3, <3>1, NumbersAreRight, NothingIsRight
  <2>4. CASE v \in {Text("1.5"), Float("fraction")} /\ OptionalF32[v] = Float("fraction")
    <3>1. OptionalMeasurement(unit)[v] \in {None, Refused, Float("fraction")}
      BY <2>1, <2>4, UnitsRead
    <3>2. Right("real", v, Float("fraction"))
      BY <2>4, OthersAreRight, Literals, LiteralsAreRight
    <3> QED
      BY <3>1, <3>2, NothingIsRight
  <2> QED
    BY <2>2, <2>3, <2>4, RealsAreRead
<1>2. Plain(OptionalMeasurement(unit), "real")
  <2>1. DOMAIN OptionalMeasurement(unit) = DOMAIN OptionalF32
    BY DEF OptionalMeasurement
  <2> QED
    BY <1>1, <2>1 DEF Plain
<1>3. Restricts(Measurement(unit), OptionalMeasurement(unit))
  BY DEF Restricts, Measurement, OptionalMeasurement
<1> QED
  BY <1>2, <1>3, RestrictedPlain

(* An identity that is read or kept as it was reported *)
Reporting(kind) ==
  \A v \in DOMAIN kind :
    \/ kind[v] \in {None, Refused}
    \/ Literal(v) /\ kind[v] \in {AsReported("raw", v), AsReported("parsed", v)}

Reads(kind) ==   \* a text, as it is or not at all
  \A v \in DOMAIN kind : kind[v] \in {v, Refused} /\ (IsText(v) => Literal(v))

(* What is read as it is or not at all is reported as it is. *)
LEMMA ReadsAreReporting ==
  ASSUME NEW kind, Reads(kind)
  PROVE  Reporting(Reported(kind))
<1>1. \A v : Literal(v) => v # Panics
  BY DEF Literal, Panics
<1>2. Panics # Refused
  BY DEF Panics, Refused
<1> QED
  BY <1>1, <1>2 DEF Reads, Reporting, Reported

LEMMA RestrictedReporting ==
  ASSUME NEW kind, NEW of, Restricts(kind, of), Reporting(of)
  PROVE  Reporting(kind)
  BY DEF Reporting, Restricts

(* The identities and the hardware identifiers are read so. *)
LEMMA ImeiReads == Reads(Imei)
<1>1. \A v \in DOMAIN Imei : v \in Generic \/ \E d : v = ImeiNumber(d)
  BY DEF Imei
<1>2. \A v \in DOMAIN Imei : IsText(v) => Literal(v)
  BY <1>1, GenericForms, Literals
<1>3. \A v \in DOMAIN Imei : Imei[v] \in {v, Refused}
  BY DEF Imei
<1> QED
  BY <1>2, <1>3 DEF Reads

LEMMA InlineAsciiReads ==
  ASSUME NEW class, NEW least, NEW capacity
  PROVE  Reads(InlineAscii(class, least, capacity))
<1>1. \A v \in DOMAIN InlineAscii(class, least, capacity) :
        v \in Generic \/ \E n, k : v = Chars(n, k)
  BY DEF InlineAscii
<1>2. \A v \in DOMAIN InlineAscii(class, least, capacity) : IsText(v) => Literal(v)
  BY <1>1, GenericForms, Literals
<1>3. \A v \in DOMAIN InlineAscii(class, least, capacity) :
        InlineAscii(class, least, capacity)[v] \in {v, Refused}
  BY DEF InlineAscii
<1> QED
  BY <1>2, <1>3 DEF Reads

(* What the separator's place leaves to be cut is cut between characters. *)
LEMMA HardwareIdReads == Reads(HardwareId)
<1>1. \A v \in DOMAIN HardwareId : v \in Generic \/ \E b \in HardwareIds : v = Bytes(b)
  BY DEF HardwareId
<1>2. \A v \in DOMAIN HardwareId : IsText(v) => Literal(v)
  BY <1>1, GenericForms, Literals
<1>3. ASSUME NEW b \in HardwareIds, Len(b) = 7, b[3] = "-"
      PROVE  Sliceable(b, 2) /\ Sliceable(b, 3)
  <2>1. b \in Seq({"K", "N", "C", "-", "0", "lead", "cont"})
    BY BoundAssumption
  <2>2. 3 \in DOMAIN b /\ 4 \in DOMAIN b
    BY <1>3, <2>1
  <2>3. b[4] # "cont"
    BY <1>3, <2>2, BoundAssumption
  <2> QED
    BY <1>3, <2>2, <2>3 DEF Sliceable
<1>4. ASSUME NEW v \in DOMAIN HardwareId PROVE HardwareId[v] \in {v, Refused}
  <2>1. CASE v.is # "bytes" \/ Len(v.bytes) # 7 \/ v.bytes[3] # "-"
    BY <2>1 DEF HardwareId
  <2>2. CASE ~(v.is # "bytes" \/ Len(v.bytes) # 7 \/ v.bytes[3] # "-")
    <3>1. PICK b \in HardwareIds : v = Bytes(b)
      BY <1>1, <2>2, GenericForms
    <3>2. v.bytes = b
      BY <3>1, BytesForm
    <3>3. Sliceable(v.bytes, 2) /\ Sliceable(v.bytes, 3)
      BY <1>3, <2>2, <3>2
    <3> QED
      BY <2>2, <3>3 DEF HardwareId
  <2> QED
    BY <2>1, <2>2
<1> QED
  BY <1>2, <1>4 DEF Reads

(* A kind of such texts is plain. *)
LEMMA ReadsArePlain ==
  ASSUME NEW kind, Reads(kind), \A v \in DOMAIN kind : kind[v] = Refused \/ IsText(v)
  PROVE  \A c : Plain(kind, c)
  BY LiteralsAreRight, NothingIsRight DEF Reads, Plain

LEMMA HardwareIdPlain == \A c : Plain(HardwareId, c)
<1>1. \A v : v.is = "bytes" => IsText(v)
  BY DEF IsText
<1>2. \A v \in DOMAIN HardwareId : HardwareId[v] = Refused \/ v.is = "bytes"
  BY DEF HardwareId
<1> QED
  BY <1>1, <1>2, HardwareIdReads, ReadsArePlain

-----------------------------------------------------------------------------
(* Tables of sound members *)

(* The class of a member, by its name in any reply *)
ClassOf(name) ==
  IF name \in {"speed", "txrate"} THEN "Mbps"
  ELSE IF name \in {"rx", "tx"} THEN "kbps"
  ELSE IF name \in {"rxspeed", "txspeed"} THEN "bps"
  ELSE IF name \in {"rssi", "rsrp", "rsrq", "cinr", "temperature", "bandwidth"} THEN "real"
  ELSE IF name \in {"timestamp", "last-overflow"} THEN "duration"
  ELSE IF name \in {"sector-id", "enb-id", "tac", "phy-cell-id", "band"} THEN "digits"
  ELSE "number"

(* The identities are kept as they are reported, in any reply. *)
Identified(name, kind) ==
  /\ name = "imei" => kind = OptionalReported(Imei)
  /\ name = "imsi" => kind = OptionalReported(Imsi)
  /\ name = "iccid" => kind = OptionalReported(Iccid)

(* A member is sound when its kind treats every form right in the class of *)
(* its name, or keeps every text as it was reported.                       *)
Sound(name, kind) ==
  (Plain(kind, ClassOf(name)) \/ Reporting(kind)) /\ Identified(name, kind)
Table(f) == \A n \in DOMAIN f : Sound(n, f[n])

(* A kind that keeps no amount is plain in every class. *)
Any(kind) == \A c : Plain(kind, c)

(* Tables are merged member by member, and the first member of a name counts. *)
LEMMA MergeDomain == \A a, b : DOMAIN Merged(a, b) = DOMAIN a \cup DOMAIN b
  BY DEF Merged
LEMMA MergeFirst == ASSUME NEW a, NEW b, NEW n \in DOMAIN a PROVE Merged(a, b)[n] = a[n]
  BY DEF Merged
LEMMA MergeSecond ==
  ASSUME NEW a, NEW b, NEW n \in DOMAIN b, n \notin DOMAIN a PROVE Merged(a, b)[n] = b[n]
  BY DEF Merged

(* A table made of tables of sound members is one. *)
LEMMA MergedTable == \A a, b : Table(a) /\ Table(b) => Table(a @@ b)
<1> SUFFICES ASSUME NEW a, NEW b, Table(a), Table(b), NEW n \in DOMAIN (a @@ b)
             PROVE  Sound(n, (a @@ b)[n])
  BY DEF Table
<1>1. a @@ b = Merged(a, b)
  BY DEF @@
<1>2. n \in DOMAIN Merged(a, b)
  BY <1>1
<1>3. CASE n \in DOMAIN a
  BY <1>1, <1>3, MergeFirst DEF Table
<1>4. CASE n \notin DOMAIN a
  <2>1. n \in DOMAIN b
    BY <1>2, <1>4, MergeDomain
  <2> QED
    BY <1>1, <1>4, <2>1, MergeSecond DEF Table
<1> QED
  BY <1>3, <1>4

LEMMA AnyEach ==
  \A names, kind : Any(kind) /\ (\A n \in names : n \notin Identities) => Table(Each(names, kind))
  BY DEF Table, Each, Sound, Identified, Any, Identities

LEMMA AnyMember == \A n, kind : Any(kind) /\ n \notin Identities => Table(n :> kind)
  BY DEF Table, :>, Sound, Identified, Any, Identities

LEMMA ClassEach ==
  \A names, kind, c : Plain(kind, c) /\ (\A n \in names : n \notin Identities /\ ClassOf(n) = c)
    => Table(Each(names, kind))
  BY DEF Table, Each, Sound, Identified, Identities

LEMMA ClassMember ==
  \A n, kind, c : Plain(kind, c) /\ n \notin Identities /\ ClassOf(n) = c => Table(n :> kind)
  BY DEF Table, :>, Sound, Identified, Identities

(* What may be missing or blank of a kind that keeps no amount keeps none. *)
LEMMA AnyOpt == ASSUME NEW kind, Any(kind) PROVE Any(Opt(kind))
  BY OptionalsPlain DEF Any
LEMMA AnyDefault == ASSUME NEW kind, Any(kind) PROVE Any(Default(kind))
  BY OptionalsPlain DEF Any
LEMMA AnyNonempty == ASSUME NEW kind, Any(kind) PROVE Any(Nonempty(kind))
  BY OptionalsPlain DEF Any
LEMMA AnyFromStr == ASSUME NEW kind, Any(kind) PROVE Any(OptionalFromStr(kind))
  BY OptionalsPlain DEF Any

(* A member that is reported as it is, and the three identities *)
LEMMA ReportingMember ==
  \A n, kind : Reporting(kind) /\ n \notin Identities => Table(n :> kind)
  BY DEF Table, :>, Sound, Identified, Identities

LEMMA IdentityMembers ==
  /\ Table("imei" :> OptionalReported(Imei)) /\ Table("imsi" :> OptionalReported(Imsi))
  /\ Table("iccid" :> OptionalReported(Iccid))
<1>1. \A kind : Reads(kind) => Reporting(OptionalReported(kind))
  BY ReadsAreReporting, OptionalsRestrict, RestrictedReporting DEF OptionalReported
<1>2. Reads(Imei) /\ Reads(Imsi) /\ Reads(Iccid)
  BY ImeiReads, InlineAsciiReads DEF Imsi, Iccid
<1>3. /\ Reporting(OptionalReported(Imei)) /\ Reporting(OptionalReported(Imsi))
      /\ Reporting(OptionalReported(Iccid))
  BY <1>1, <1>2
<1>4. \A n, kind : Reporting(kind) /\ Identified(n, kind) => Table(n :> kind)
  BY DEF Table, :>, Sound
<1>5. /\ Identified("imei", OptionalReported(Imei)) /\ Identified("imsi", OptionalReported(Imsi))
      /\ Identified("iccid", OptionalReported(Iccid))
  BY DEF Identified
<1> QED
  BY <1>3, <1>4, <1>5

(* The kinds that read no amount *)
LEMMA SerdeAny ==
  /\ Any(Bool) /\ Any(Str) /\ Any(Struct) /\ Any(LooseStruct) /\ Any(MapOf) /\ Any(ListOf)
  /\ Any(Identifier) /\ Any(PresenceMarker)
  BY SerdePlain, StrPlain, IdentifierPlain DEF Any

LEMMA OpenAny == \A words : "1.5" \notin words => Any(Open(words))
  BY OpenPlain DEF Any

LEMMA ModelWordsAny ==
  /\ Any(LinkState) /\ Any(InterfaceState) /\ Any(InterfaceLayerState) /\ Any(InterfaceKind)
  /\ Any(RadioAccessTechnology) /\ Any(MobileConnectionState) /\ Any(SimState)
<1>1. /\ Any(LinkState) /\ Any(InterfaceState) /\ Any(InterfaceLayerState) /\ Any(InterfaceKind)
      /\ Any(RadioAccessTechnology)
  BY OpenAny DEF LinkState, InterfaceState, InterfaceLayerState, InterfaceKind,
                 RadioAccessTechnology
<1>2. Any(MobileConnectionState) /\ Any(SimState)
  BY CaseBlindPlain DEF Any, MobileConnectionState, SimState
<1> QED
  BY <1>1, <1>2

LEMMA SystemWordsAny ==
  /\ Any(SystemOperatingMode) /\ Any(Architecture) /\ Any(FirmwareChannel) /\ Any(HardwareType)
  /\ Any(ArpState) /\ Any(DhcpBindingMode) /\ Any(WifiMode) /\ Any(WifiSecurity)
  /\ Any(HotspotAccess) /\ Any(TrafficShapeMode) /\ Any(RouteProtocol)
<1>1. /\ Any(SystemOperatingMode) /\ Any(Architecture) /\ Any(FirmwareChannel)
      /\ Any(HardwareType) /\ Any(ArpState) /\ Any(DhcpBindingMode)
  BY OpenAny DEF SystemOperatingMode, Architecture, FirmwareChannel, HardwareType, ArpState,
                 DhcpBindingMode
<1>2. /\ Any(WifiMode) /\ Any(WifiSecurity) /\ Any(HotspotAccess) /\ Any(TrafficShapeMode)
      /\ Any(RouteProtocol)
  BY OpenAny DEF WifiMode, WifiSecurity, HotspotAccess, TrafficShapeMode, RouteProtocol
<1> QED
  BY <1>1, <1>2

LEMMA StorageWordsAny ==
  /\ Any(PingCheckMode) /\ Any(PingCheckStatus) /\ Any(UsbSubsystem) /\ Any(UsbVersion)
  /\ Any(UsbPowerControl) /\ Any(MediaBus) /\ Any(MediaState) /\ Any(FileSystemType)
  BY OpenAny DEF PingCheckMode, PingCheckStatus, UsbSubsystem, UsbVersion, UsbPowerControl,
                 MediaBus, MediaState, FileSystemType

LEMMA TextsAny ==
  /\ Any(Plmn) /\ Any(HardwareVersion) /\ Any(RegionCode) /\ Any(HardwareId)
  /\ Any(HardwareVendor) /\ Any(SupportedModes) /\ Any(TraitList) /\ Any(MacAddress)
  /\ Any(RouterDatetime) /\ Any(NetworkHost) /\ Any(MwsMemoryUsage)
<1>1. Any(Plmn) /\ Any(HardwareVersion) /\ Any(RegionCode)
  BY InlineAsciiPlain DEF Any, Plmn, HardwareVersion, RegionCode
<1>2. Any(HardwareId) /\ Any(HardwareVendor) /\ Any(SupportedModes) /\ Any(TraitList)
  BY HardwareIdPlain, HardwareVendorPlain, SupportedModesPlain, TraitListPlain DEF Any
<1>3. Any(MacAddress) /\ Any(RouterDatetime) /\ Any(NetworkHost) /\ Any(MwsMemoryUsage)
  BY MacAddressPlain, RouterDatetimePlain, NetworkHostPlain, MwsMemoryUsagePlain DEF Any
<1> QED
  BY <1>1, <1>2, <1>3

LEMMA AddressesAny ==
  /\ \A families : Any(IpAddr(families))
  /\ \A family : Any(IpNet(family))
  /\ \A family : Any(UnspecifiedIsNone(family))
  BY IpAddrPlain, IpNetPlain, UnspecifiedIsNonePlain DEF Any

(* The declarations, one by one *)
LEMMA InterfaceTable == Table(Interface)
<1>1. Any(Opt(Str)) /\ Any(Opt(InterfaceState)) /\ Any(TraitList)
  BY SerdeAny, ModelWordsAny, AnyOpt, TextsAny
<1>2. Plain(Opt(Mtu), "number") /\ Plain(UInt(0, U64Max), "number")
  BY AmountsPlain, OptionalsPlain
<1> QED
  BY <1>1, <1>2, SerdeAny, ModelWordsAny, MergedTable, AnyEach, AnyMember, ClassMember, SMT
     DEF Interface, Identities, ClassOf

(* What may be missing *)
LEMMA OptionalWordsAny ==
  /\ Any(Opt(Str)) /\ Any(Opt(Bool)) /\ Any(Opt(Struct)) /\ Any(Opt(LooseStruct))
  /\ Any(Opt(Identifier)) /\ Any(Opt(InterfaceState)) /\ Any(Opt(InterfaceLayerState))
  /\ Any(Opt(LinkState)) /\ Any(Opt(FirmwareChannel)) /\ Any(Opt(HardwareType))
  /\ Any(Opt(DhcpBindingMode)) /\ Any(Opt(WifiMode)) /\ Any(Opt(WifiSecurity))
  /\ Any(Opt(PingCheckMode)) /\ Any(Opt(UsbPowerControl)) /\ Any(Opt(UsbVersion))
  /\ Any(Opt(MediaBus))
  BY SerdeAny, ModelWordsAny, SystemWordsAny, StorageWordsAny, AnyOpt

LEMMA BlanksAny ==
  /\ Any(Default(MapOf)) /\ Any(Default(ListOf)) /\ Any(Default(Bool))
  /\ Any(Default(PresenceMarker)) /\ Any(Nonempty(Str)) /\ Any(Nonempty(Identifier))
  /\ Any(OptionalFromStr(Plmn)) /\ Any(OptionalFromStr(RadioAccessTechnology))
  /\ Any(OptionalFromStr(MobileConnectionState)) /\ Any(OptionalFromStr(SimState))
<1>1. /\ Any(Default(MapOf)) /\ Any(Default(ListOf)) /\ Any(Default(Bool))
      /\ Any(Default(PresenceMarker))
  BY SerdeAny, AnyDefault
<1>2. Any(Nonempty(Str)) /\ Any(Nonempty(Identifier))
  BY SerdeAny, AnyNonempty
<1>3. /\ Any(OptionalFromStr(Plmn)) /\ Any(OptionalFromStr(RadioAccessTechnology))
      /\ Any(OptionalFromStr(MobileConnectionState)) /\ Any(OptionalFromStr(SimState))
  BY TextsAny, ModelWordsAny, AnyFromStr
<1> QED
  BY <1>1, <1>2, <1>3

LEMMA OptionalAmountsPlain ==
  /\ Plain(Opt(Mtu), "number") /\ Plain(Opt(UInt(0, 255)), "number")
  /\ Plain(Opt(UInt(0, U64Max)), "number") /\ Plain(Opt(UInt(0, U32Max)), "number")
  /\ Plain(Opt(UInt(1, 65535)), "number") /\ Plain(Opt(SignalLevel), "number")
  /\ Plain(Opt(SecondsOf), "number") /\ Plain(Opt(EitherUInt(255)), "number")
  /\ Plain(Opt(ChannelWidth), "number") /\ Plain(Opt(GuardInterval), "number")
  /\ Plain(Opt(McsIndex), "number") /\ Plain(Opt(SpatialStreams), "number")
  BY AmountsPlain, OptionalsPlain

LEMMA OtherAmountsPlain ==
  /\ Plain(OptionalFromStr(TextUInt(65535)), "digits")
  /\ Plain(OptionalFromStr(TextUInt(U32Max)), "digits")
  /\ Plain(OptionalFromStr(RadioBand), "digits")
  /\ Plain(OptionalMbps, "Mbps") /\ Plain(Mbps, "Mbps") /\ Plain(Kbps, "kbps")
  /\ Plain(Opt(DataRate(1)), "bps")
  /\ Plain(OptionalMeasurement(Finite), "real") /\ Plain(Measurement(Finite), "real")
  /\ Plain(OptionalMeasurement(CarrierBandwidth), "real")
<1>1. /\ Plain(OptionalFromStr(TextUInt(65535)), "digits")
      /\ Plain(OptionalFromStr(TextUInt(U32Max)), "digits")
      /\ Plain(OptionalFromStr(RadioBand), "digits")
  BY TextUIntPlain, RadioBandPlain, OptionalsPlain
<1>2. /\ Plain(OptionalMbps, "Mbps") /\ Plain(Mbps, "Mbps") /\ Plain(Kbps, "kbps")
      /\ Plain(Opt(DataRate(1)), "bps")
  BY DataRatePlain, OptionalsPlain DEF OptionalMbps, Mbps, Kbps
<1>3. /\ Plain(OptionalMeasurement(Finite), "real") /\ Plain(Measurement(Finite), "real")
      /\ Plain(OptionalMeasurement(CarrierBandwidth), "real")
  BY MeasurementPlain
<1> QED
  BY <1>1, <1>2, <1>3

LEMMA ReportedMembers ==
  Table("hw_id" :> Opt(Reported(HardwareId))) /\ Table("region" :> Opt(Reported(RegionCode)))
<1>1. Reads(HardwareId) /\ Reads(RegionCode)
  BY HardwareIdReads, InlineAsciiReads DEF RegionCode
<1>2. Reporting(Opt(Reported(HardwareId))) /\ Reporting(Opt(Reported(RegionCode)))
  BY <1>1, ReadsAreReporting, OptionalsRestrict, RestrictedReporting
<1>3. "hw_id" \notin Identities /\ "region" \notin Identities
  BY DEF Identities
<1> QED
  BY <1>2, <1>3, ReportingMember

LEMMA InternetStatusTable == Table(InternetStatus)
  BY MergedTable, AnyEach, AnyMember, SerdeAny, TextsAny
     DEF InternetStatus, Identities
LEMMA InterfacesTable == Table(Interfaces)
  BY AnyMember, SerdeAny
     DEF Interfaces, Identities
LEMMA ShowInterfaceReplyTable == Table(ShowInterfaceReply)
  BY AnyMember, SerdeAny
     DEF ShowInterfaceReply, Identities
LEMMA ShowInterfaceResultTable == Table(ShowInterfaceResult)
  BY AnyMember, SerdeAny
     DEF ShowInterfaceResult, Identities
LEMMA InterfaceSummaryTable == Table(InterfaceSummary)
  BY AnyMember, SerdeAny
     DEF InterfaceSummary, Identities
LEMMA InterfaceLayerSummaryTable == Table(InterfaceLayerSummary)
  BY MergedTable, AnyEach, AnyMember, ModelWordsAny, OptionalWordsAny
     DEF InterfaceLayerSummary, Identities
LEMMA MobileSignalTable == Table(MobileSignal)
  BY MergedTable, AnyEach, AnyMember, ClassEach, ClassMember, OptionalWordsAny, AmountsPlain,
     OptionalAmountsPlain, OtherAmountsPlain
     DEF MobileSignal, Identities, ClassOf
LEMMA ServingCellTable == Table(ServingCell)
  BY MergedTable, AnyEach, AnyMember, ClassEach, ClassMember, BlanksAny, OtherAmountsPlain
     DEF ServingCell, Identities, ClassOf
LEMMA ComponentCarrierTable == Table(ComponentCarrier)
  BY MergedTable, AnyEach, AnyMember, ClassEach, ClassMember, SerdeAny, ModelWordsAny,
     OptionalWordsAny, BlanksAny, AmountsPlain, OptionalAmountsPlain, OtherAmountsPlain
     DEF ComponentCarrier, Identities, ClassOf
LEMMA MobileStatusTable == Table(MobileStatus)
  BY MergedTable, AnyEach, AnyMember, ClassEach, ClassMember, SerdeAny, ModelWordsAny,
     OptionalWordsAny, BlanksAny, AmountsPlain, OptionalAmountsPlain, OtherAmountsPlain,
     IdentityMembers, MobileSignalTable, ServingCellTable, ComponentCarrierTable
     DEF MobileStatus, Identities, ClassOf
LEMMA LteModemTable == Table(LteModem)
  BY AnyEach, SerdeAny, BlanksAny
     DEF LteModem, Identities
LEMMA LteSimTable == Table(LteSim)
  BY AnyMember, SerdeAny, BlanksAny
     DEF LteSim, Identities
LEMMA MobileInterfaceWireTable == Table(MobileInterfaceWire)
  BY MergedTable, AnyEach, AnyMember, ClassEach, ClassMember, SerdeAny, ModelWordsAny,
     TextsAny, OptionalWordsAny, BlanksAny, AmountsPlain, OptionalAmountsPlain,
     OtherAmountsPlain, IdentityMembers
     DEF MobileInterfaceWire, Identities, ClassOf
LEMMA SystemTable == Table(System)
  BY MergedTable, AnyEach, AnyMember, ClassEach, ClassMember, SerdeAny, AmountsPlain,
     UptimePlain
     DEF System, Identities, ClassOf
LEMMA SystemModeStatusTable == Table(SystemModeStatus)
  BY MergedTable, AnyEach, AnyMember, SerdeAny, SystemWordsAny, TextsAny
     DEF SystemModeStatus, Identities
LEMMA IdentificationTable == Table(Identification)
  BY MergedTable, AnyEach, AnyMember, SerdeAny, TextsAny
     DEF Identification, Identities
LEMMA VersionTable == Table(Version)
  BY MergedTable, AnyEach, AnyMember, SerdeAny, SystemWordsAny, TextsAny, OptionalWordsAny
     DEF Version, Identities
LEMMA VersionBuildTable == Table(VersionBuild)
  BY AnyEach, SerdeAny
     DEF VersionBuild, Identities
LEMMA VersionCapabilitiesTable == Table(VersionCapabilities)
  BY AnyEach, SerdeAny
     DEF VersionCapabilities, Identities
LEMMA IpArpTable == Table(IpArp)
  BY AnyMember, SerdeAny
     DEF IpArp, Identities, Whole
LEMMA ArpEntryTable == Table(ArpEntry)
  BY MergedTable, AnyMember, SerdeAny, SystemWordsAny, TextsAny, AddressesAny, BlanksAny
     DEF ArpEntry, Identities
LEMMA IpDhcpBindingsTable == Table(IpDhcpBindings)
  BY AnyMember, SerdeAny
     DEF IpDhcpBindings, Identities
LEMMA DhcpBindingTable == Table(DhcpBinding)
  BY MergedTable, AnyEach, AnyMember, ClassEach, ClassMember, SerdeAny, SystemWordsAny,
     TextsAny, AddressesAny, OptionalWordsAny, BlanksAny, LeaseExpirationPlain
     DEF DhcpBinding, Identities, ClassOf
LEMMA IpHotspotHostsTable == Table(IpHotspotHosts)
  BY AnyMember, SerdeAny
     DEF IpHotspotHosts, Identities
LEMMA HotspotHostTable == Table(HotspotHost)
  BY MergedTable, AnyEach, AnyMember, ClassEach, ClassMember, SerdeAny, ModelWordsAny,
     SystemWordsAny, TextsAny, AddressesAny, OptionalWordsAny, BlanksAny, AmountsPlain,
     OptionalAmountsPlain, OtherAmountsPlain, UptimePlain
     DEF HotspotHost, Identities, ClassOf
LEMMA InterfaceReferenceTable == Table(InterfaceReference)
  BY MergedTable, AnyEach, AnyMember, SerdeAny
     DEF InterfaceReference, Identities
LEMMA HotspotDhcpTable == Table(HotspotDhcp)
  BY AnyMember, ClassMember, LeaseExpirationPlain
     DEF HotspotDhcp, Identities, ClassOf
LEMMA TrafficShapeTable == Table(TrafficShape)
  BY MergedTable, AnyEach, AnyMember, ClassEach, ClassMember, SerdeAny, SystemWordsAny,
     BlanksAny, OtherAmountsPlain
     DEF TrafficShape, Identities, ClassOf
LEMMA IpRoutesTable == Table(IpRoutes)
  BY AnyMember, SerdeAny
     DEF IpRoutes, Identities, Whole
LEMMA Ipv6RoutesTable == Table(Ipv6Routes)
  BY AnyMember, SerdeAny, BlanksAny
     DEF Ipv6Routes, Identities
LEMMA Ipv4RouteTable == Table(Ipv4Route)
  BY MergedTable, AnyEach, AnyMember, ClassEach, ClassMember, SerdeAny, SystemWordsAny,
     AddressesAny, AmountsPlain
     DEF Ipv4Route, Identities, ClassOf, RouteFlags
LEMMA Ipv6RouteTable == Table(Ipv6Route)
  BY MergedTable, AnyEach, AnyMember, ClassEach, ClassMember, SerdeAny, SystemWordsAny,
     AddressesAny, AmountsPlain
     DEF Ipv6Route, Identities, ClassOf, RouteFlags
LEMMA PingCheckProfilesTable == Table(PingCheckProfiles)
  BY AnyMember, SerdeAny, BlanksAny
     DEF PingCheckProfiles, Identities
LEMMA PingCheckProfileTable == Table(PingCheckProfile)
  BY MergedTable, AnyEach, AnyMember, ClassEach, ClassMember, SerdeAny, StorageWordsAny,
     OptionalWordsAny, BlanksAny, AmountsPlain, OptionalAmountsPlain
     DEF PingCheckProfile, Identities, ClassOf
LEMMA PingCheckInterfaceTable == Table(PingCheckInterface)
  BY MergedTable, AnyEach, AnyMember, ClassEach, ClassMember, SerdeAny, StorageWordsAny,
     BlanksAny, AmountsPlain
     DEF PingCheckInterface, Identities, ClassOf
LEMMA PingCheckCacheEntryTable == Table(PingCheckCacheEntry)
  BY MergedTable, AnyMember, SerdeAny, TextsAny
     DEF PingCheckCacheEntry, Identities
LEMMA IpNameServersTable == Table(IpNameServers)
  BY AnyMember, SerdeAny, BlanksAny
     DEF IpNameServers, Identities
LEMMA IpNameServerTable == Table(IpNameServer)
  BY MergedTable, AnyEach, AnyMember, ClassEach, ClassMember, SerdeAny, AddressesAny,
     BlanksAny, OptionalNonzeroPlain
     DEF IpNameServer, Identities, ClassOf, OptionalIdentifier
LEMMA NtpStatusTable == Table(NtpStatus)
  BY MergedTable, AnyEach, AnyMember, ClassEach, ClassMember, SerdeAny, TextsAny, AmountsPlain
     DEF NtpStatus, Identities, ClassOf
LEMMA AssociationsTable == Table(Associations)
  BY AnyMember, SerdeAny
     DEF Associations, Identities
LEMMA WifiPeerLinkTable == Table(WifiPeerLink)
  BY MergedTable, AnyMember, ClassMember, SerdeAny, SystemWordsAny, AmountsPlain,
     OtherAmountsPlain, UptimePlain
     DEF WifiPeerLink, Identities, ClassOf
LEMMA AssociationTable == Table(Association)
  BY MergedTable, AnyEach, AnyMember, ClassEach, ClassMember, SerdeAny, TextsAny,
     OptionalWordsAny, AmountsPlain, OptionalAmountsPlain, WifiPeerLinkTable
     DEF Association, Identities, ClassOf
LEMMA MwsStatusTable == Table(MwsStatus)
  BY MergedTable, AnyMember, SerdeAny
     DEF MwsStatus, Identities
LEMMA MwsControllerStatusTable == Table(MwsControllerStatus)
  BY AnyMember, SerdeAny
     DEF MwsControllerStatus, Identities
LEMMA MwsMembersTable == Table(MwsMembers)
  BY AnyMember, AcceptingPlain, Literals
     DEF MwsMembers, Identities, Whole, Any
LEMMA MwsMemberTable == Table(MwsMember)
  BY MergedTable, AnyEach, AnyMember, ClassEach, ClassMember, SerdeAny, SystemWordsAny,
     TextsAny, AddressesAny, OptionalWordsAny, BlanksAny, AmountsPlain, OptionalAmountsPlain,
     ReportedMembers
     DEF MwsMember, Identities, ClassOf
LEMMA MwsPortTable == Table(MwsPort)
  BY MergedTable, AnyMember, SerdeAny, ModelWordsAny, BlanksAny
     DEF MwsPort, Identities
LEMMA MwsWirelessTable == Table(MwsWireless)
  BY AnyMember, SerdeAny, BlanksAny
     DEF MwsWireless, Identities
LEMMA MwsBandTable == Table(MwsBand)
  BY AnyMember, ClassMember, AmountsPlain
     DEF MwsBand, Identities, ClassOf
LEMMA MwsMemberSystemTable == Table(MwsMemberSystem)
  BY MergedTable, AnyMember, ClassMember, TextsAny, AmountsPlain, UptimePlain
     DEF MwsMemberSystem, Identities, ClassOf
LEMMA MwsBackhaulTable == Table(MwsBackhaul)
  BY MergedTable, AnyEach, AnyMember, ClassEach, ClassMember, SerdeAny, AmountsPlain,
     WifiPeerLinkTable
     DEF MwsBackhaul, Identities, ClassOf
LEMMA MwsRciStatusTable == Table(MwsRciStatus)
  BY AnyMember, ClassMember, AmountsPlain
     DEF MwsRciStatus, Identities, ClassOf
LEMMA UsbDevicesTable == Table(UsbDevices)
  BY AnyMember, SerdeAny, BlanksAny
     DEF UsbDevices, Identities
LEMMA UsbDeviceTable == Table(UsbDevice)
  BY MergedTable, AnyEach, AnyMember, ClassEach, ClassMember, SerdeAny, StorageWordsAny,
     OptionalWordsAny, BlanksAny, AmountsPlain, OptionalAmountsPlain
     DEF UsbDevice, Identities, ClassOf
LEMMA MediaInventoryTable == Table(MediaInventory)
  BY AnyMember, SerdeAny
     DEF MediaInventory, Identities, Whole
LEMMA MediaDeviceTable == Table(MediaDevice)
  BY MergedTable, AnyEach, AnyMember, ClassEach, ClassMember, SerdeAny, StorageWordsAny,
     OptionalWordsAny, BlanksAny, AmountsPlain, OptionalAmountsPlain
     DEF MediaDevice, Identities, ClassOf
LEMMA MediaPartitionTable == Table(MediaPartition)
  BY MergedTable, AnyEach, AnyMember, ClassEach, ClassMember, SerdeAny, StorageWordsAny,
     OptionalWordsAny, BlanksAny, AmountsPlain, OptionalAmountsPlain
     DEF MediaPartition, Identities, ClassOf, VolumeId
LEMMA InterfaceStatTable == Table(InterfaceStat)
  BY MergedTable, AnyEach, ClassEach, OptionalWordsAny, AmountsPlain, OptionalAmountsPlain,
     OtherAmountsPlain, DecimalDurationPlain
     DEF InterfaceStat, Identities, ClassOf

(* Every member of every declaration is sound. *)
LEMMA DeclarationTables == \A t \in DOMAIN Declarations : Table(Declarations[t])
<1> SUFFICES ASSUME NEW t \in DOMAIN Declarations PROVE Table(Declarations[t])
  OBVIOUS
<1>1. CASE t \in {"InternetStatus", "Interfaces", "Interface", "ShowInterfaceReply",
                   "ShowInterfaceResult", "InterfaceSummary", "InterfaceLayerSummary",
                   "InterfaceStat", "System", "SystemModeStatus", "Identification", "Version",
                   "VersionBuild", "VersionCapabilities"}
  BY <1>1, InternetStatusTable, InterfacesTable, InterfaceTable, ShowInterfaceReplyTable,
     ShowInterfaceResultTable, InterfaceSummaryTable, InterfaceLayerSummaryTable,
     InterfaceStatTable, SystemTable, SystemModeStatusTable, IdentificationTable, VersionTable,
     VersionBuildTable, VersionCapabilitiesTable
     DEF Declarations
<1>2. CASE t \in {"MobileInterface", "MobileStatus", "MobileSignal", "ServingCell",
                   "ComponentCarrier", "LteModem", "LteSim"}
  BY <1>2, MobileInterfaceWireTable, MobileStatusTable, MobileSignalTable, ServingCellTable,
     ComponentCarrierTable, LteModemTable, LteSimTable
     DEF Declarations, MobileInterface
<1>3. CASE t \in {"IpArp", "ArpEntry", "IpDhcpBindings", "DhcpBinding", "IpHotspotHosts",
                   "HotspotHost", "InterfaceReference", "HotspotDhcp", "TrafficShape"}
  BY <1>3, IpArpTable, ArpEntryTable, IpDhcpBindingsTable, DhcpBindingTable,
     IpHotspotHostsTable, HotspotHostTable, InterfaceReferenceTable, HotspotDhcpTable,
     TrafficShapeTable
     DEF Declarations
<1>4. CASE t \in {"IpRoutes", "Ipv6Routes", "Ipv4Route", "Ipv6Route", "PingCheckProfiles",
                   "PingCheckProfile", "PingCheckInterface", "PingCheckCacheEntry",
                   "IpNameServers", "IpNameServer", "NtpStatus"}
  BY <1>4, IpRoutesTable, Ipv6RoutesTable, Ipv4RouteTable, Ipv6RouteTable,
     PingCheckProfilesTable, PingCheckProfileTable, PingCheckInterfaceTable,
     PingCheckCacheEntryTable, IpNameServersTable, IpNameServerTable, NtpStatusTable
     DEF Declarations
<1>5. CASE t \in {"Associations", "Association", "MwsStatus", "MwsControllerStatus",
                   "MwsMembers", "MwsMember", "MwsPort", "MwsWireless", "MwsBand",
                   "MwsMemberSystem", "MwsBackhaul", "MwsRciStatus"}
  BY <1>5, AssociationsTable, AssociationTable, MwsStatusTable, MwsControllerStatusTable,
     MwsMembersTable, MwsMemberTable, MwsPortTable, MwsWirelessTable, MwsBandTable,
     MwsMemberSystemTable, MwsBackhaulTable, MwsRciStatusTable
     DEF Declarations
<1>6. CASE t \in {"UsbDevices", "UsbDevice", "MediaInventory", "MediaDevice", "MediaPartition"}
  BY <1>6, UsbDevicesTable, UsbDeviceTable, MediaInventoryTable, MediaDeviceTable,
     MediaPartitionTable
     DEF Declarations
<1> QED
  BY <1>1, <1>2, <1>3, <1>4, <1>5, <1>6 DEF Declarations

-----------------------------------------------------------------------------
(* Kept alike is meant alike *)

(* The classes *)
Classes == {"number", "digits", "real", "duration", "bps", "kbps", "Mbps"}

LEMMA ClassesOfNames == \A name : ClassOf(name) \in Classes
  BY DEF ClassOf, Classes

(* Two values that each tell what was written agree. *)
LEMMA TellingAgrees ==
  ASSUME NEW c \in Classes, NEW v, NEW w, NEW kv, NEW kw,
         IsValue(kv), IsValue(kw), Tells(c, v, kv), Tells(c, w, kw)
  PROVE  Agree(v, w, kv, kw)
<1> DEFINE mv == Meaning(v)
           mw == Meaning(w)
<1>1. ASSUME NEW x, NEW kx, IsValue(kx), Tells(c, x, kx), Meaning(x).is = "amount"
      PROVE  /\ Meaning(x).whole \in Int /\ Meaning(x).part \in Int
             /\ c # "duration" => Meaning(x).part = 0
             /\ kx.is \in Sizes
             /\ c \notin {"kbps", "Mbps"} => Size(kx) = Amount(Meaning(x).whole, Meaning(x).part)
             /\ c = "kbps" => Size(kx) = Amount(1000 * Meaning(x).whole, 0)
             /\ c = "Mbps" => Size(kx) = Amount(1000000 * Meaning(x).whole, 0)
  <2> DEFINE m == Meaning(x)
  <2>1. kx = As(c, m) /\ m.whole \in Int /\ m.part \in Int /\ (c = "duration" \/ m.part = 0)
    BY <1>1 DEF Tells
  <2> HIDE DEF m
  <2>2. kx # Refused
    BY <1>1 DEF IsValue
  <2>3. CASE c \in {"number", "digits", "real"}
    <3>1. kx.is = c /\ kx.n = m.whole
      BY <2>1, <2>3, SMT DEF As, Number, Digits, Real
    <3>2. Size(kx) = Amount(kx.n, 0) /\ kx.is \in Sizes
      BY <2>3, <3>1, SMT DEF Size, Sizes
    <3> QED
      BY <2>1, <2>3, <3>1, <3>2, SMT DEF m
  <2>4. CASE c = "duration"
    BY <2>1, <2>4 DEF As, Duration, Number, Size, Sizes, m
  <2>5. CASE c = "bps"
    BY <2>1, <2>2, <2>5, SMT DEF As, Rate, Size, Sizes, m
  <2>6. CASE c = "kbps"
    BY <2>1, <2>2, <2>6, SMT DEF As, Rate, Size, Sizes, m
  <2>7. CASE c = "Mbps"
    BY <2>1, <2>2, <2>7, SMT DEF As, Rate, Size, Sizes, m
  <2> QED
    BY <2>3, <2>4, <2>5, <2>6, <2>7 DEF Classes
<1>2. ASSUME NEW x, NEW kx, Tells(c, x, kx), Meaning(x).is # "amount"
      PROVE  kx = Canon(Meaning(x)) /\ Named(Meaning(x)) /\ kx.is \notin Sizes
  BY <1>2 DEF Tells, Named, Canon, Moment, Mac, Sizes
<1>3. CASE mv.is = "amount" /\ mw.is = "amount"
  <2>1. Less(mv, mw) <=> Less(Size(kv), Size(kw))
    <3>1. CASE c \notin {"kbps", "Mbps"}
      BY <1>1, <1>3, <3>1 DEF Less, Amount
    <3>2. CASE c = "kbps"
      BY <1>1, <1>3, <3>2 DEF Less, Amount
    <3>3. CASE c = "Mbps"
      BY <1>1, <1>3, <3>3 DEF Less, Amount
    <3> QED
      BY <3>1, <3>2, <3>3
  <2> QED
    BY <1>3, <2>1 DEF Agree
<1>4. CASE ~(mv.is = "amount" /\ mw.is = "amount")
  <2>1. mv = mw <=> kv = kw
    <3>1. CASE mv.is = "amount"
      BY <1>1, <1>2, <1>4, <3>1
    <3>2. CASE mw.is = "amount"
      BY <1>1, <1>2, <1>4, <3>2
    <3>3. CASE mv.is # "amount" /\ mw.is # "amount"
      <4>1. kv = Canon(mv) /\ kw = Canon(mw) /\ Named(mv) /\ Named(mw)
        BY <1>2, <3>3
      <4> HIDE DEF mv, mw
      <4> QED
        BY <4>1 DEF Canon, Named, Moment, Mac
    <3> QED
      BY <3>1, <3>2, <3>3
  <2> QED
    BY <1>4, <2>1 DEF Agree
<1> QED
  BY <1>3, <1>4

(* A kind that treats its forms right keeps their meanings and their order. *)
LEMMA PlainAgrees ==
  ASSUME NEW c \in Classes, NEW kind, Plain(kind, c), NEW v \in DOMAIN kind
  PROVE  AgreesWithAll(kind, v, kind[v])
<1> SUFFICES ASSUME IsValue(kind[v]), NEW w \in DOMAIN kind, IsValue(kind[w])
             PROVE  Agree(v, w, kind[v], kind[w])
  BY DEF AgreesWithAll
<1>1. Tells(c, v, kind[v]) /\ Tells(c, w, kind[w])
  BY DEF Plain, Right
<1> QED
  BY <1>1, TellingAgrees

LEMMA ReportingAgrees ==
  ASSUME NEW kind, Reporting(kind), NEW v \in DOMAIN kind
  PROVE  AgreesWithAll(kind, v, kind[v])
<1> SUFFICES ASSUME IsValue(kind[v]), NEW w \in DOMAIN kind, IsValue(kind[w])
             PROVE  Agree(v, w, kind[v], kind[w])
  BY DEF AgreesWithAll
<1>1. /\ Literal(v) /\ kind[v] \in {AsReported("raw", v), AsReported("parsed", v)}
      /\ Literal(w) /\ kind[w] \in {AsReported("raw", w), AsReported("parsed", w)}
  BY DEF Reporting, IsValue
<1>2. kind[v].reads = v /\ kind[w].reads = w
  BY <1>1 DEF AsReported
<1>3. Meaning(v) = v /\ Meaning(w) = w /\ v.is # "amount"
  BY <1>1 DEF Literal, Sizes
<1>4. v = w => kind[v] = kind[w]
  OBVIOUS
<1>5. kind[v] = kind[w] => v = w
  BY <1>2
<1> QED
  BY <1>3, <1>4, <1>5 DEF Agree

LEMMA SoundAgrees ==
  ASSUME NEW name, NEW kind, Sound(name, kind), NEW v \in DOMAIN kind
  PROVE  AgreesWithAll(kind, v, kind[v])
  BY PlainAgrees, ReportingAgrees, ClassesOfNames DEF Sound

-----------------------------------------------------------------------------
(* The invariant *)

Kinds == Replies[type]
Unvaried(n) == reply[n] \in {Usual(Kinds[n]), Bare(Kinds[n])}
Inv ==
  /\ type \in Types
  /\ DOMAIN reply = DOMAIN Kinds
  /\ \A n \in DOMAIN reply : reply[n] \in DOMAIN Kinds[n]
  /\ changed \subseteq DOMAIN reply
  /\ \A n \in DOMAIN reply \ changed : Unvaried(n)
  /\ kept \in {Waiting, Judge(Made(Kinds))}

LEMMA UsualForm ==
  ASSUME NEW t \in Types, NEW n \in DOMAIN Replies[t]
  PROVE  LET kind == Replies[t][n]
         IN /\ Usual(kind) \in DOMAIN kind /\ IsValue(kind[Usual(kind)])
            /\ Bare(kind) \in DOMAIN kind /\ kind[Bare(kind)] # Refused
<1> DEFINE kind == Replies[t][n]
           fits == {v \in DOMAIN kind : IsValue(kind[v])}
<1>1. Generic \subseteq DOMAIN kind /\ fits # {}
  BY RepliesAssumption DEF Types
<1>2. Usual(kind) = IF Mobile \in fits THEN Mobile
                    ELSE IF fits \ Generic # {} THEN CHOOSE v \in fits \ Generic : TRUE
                    ELSE CHOOSE v \in fits : TRUE
  BY DEF Usual
<1> HIDE DEF fits
<1>3. Usual(kind) \in fits
  BY <1>1, <1>2
<1>4. Usual(kind) \in DOMAIN kind /\ IsValue(kind[Usual(kind)])
  BY <1>3 DEF fits
<1>5. Absent \in DOMAIN kind
  BY <1>1 DEF Generic
<1>6. kind[Usual(kind)] # Refused
  BY <1>4 DEF IsValue
<1> QED
  BY <1>4, <1>5, <1>6 DEF Bare

LEMMA InitInv == Init => Inv
<1> SUFFICES ASSUME Init PROVE Inv
  OBVIOUS
<1>1. DOMAIN reply = DOMAIN Kinds
  BY DEF Init, FirstReplies, FullReply, BareReply, Kinds
<1>2. \A n \in DOMAIN reply : Unvaried(n)
  BY DEF Init, FirstReplies, FullReply, BareReply, Kinds, Unvaried
<1>3. \A n \in DOMAIN reply : reply[n] \in DOMAIN Kinds[n]
  BY <1>1, <1>2, UsualForm DEF Unvaried, Kinds, Init
<1> QED
  BY <1>1, <1>2, <1>3 DEF Init, Inv

LEMMA NextInv == Inv /\ [Next]_vars => Inv'
<1> SUFFICES ASSUME Inv, [Next]_vars PROVE Inv'
  OBVIOUS
<1>1. CASE Vary
  <2>1. PICK name \in DOMAIN reply \ changed :
          /\ \E v \in DOMAIN Replies[type][name] : reply' = [reply EXCEPT ![name] = v]
          /\ changed' = changed \cup {name}
    BY <1>1 DEF Vary
  <2>2. PICK v \in DOMAIN Replies[type][name] : reply' = [reply EXCEPT ![name] = v]
    BY <2>1
  <2>3. type' = type /\ kept' = kept /\ kept = Waiting
    BY <1>1 DEF Vary
  <2>4. Kinds' = Kinds
    BY <2>3 DEF Kinds
  <2>5. DOMAIN reply' = DOMAIN reply /\ reply'[name] = v
        /\ \A n \in DOMAIN reply \ {name} : reply'[n] = reply[n]
    BY <2>2
  <2>6. \A n \in DOMAIN reply' : reply'[n] \in DOMAIN Kinds'[n]
    BY <2>4, <2>5 DEF Inv, Kinds
  <2>7. \A n \in DOMAIN reply' \ changed' : Unvaried(n)'
    <3> SUFFICES ASSUME NEW n \in DOMAIN reply' \ changed' PROVE Unvaried(n)'
      OBVIOUS
    <3>1. Unvaried(n) /\ reply'[n] = reply[n]
      BY <2>1, <2>5 DEF Inv
    <3> QED
      BY <2>4, <3>1 DEF Unvaried
  <2> QED
    BY <2>1, <2>3, <2>4, <2>5, <2>6, <2>7 DEF Inv
<1>2. CASE Decode
  <2>1. type' = type /\ reply' = reply /\ changed' = changed /\ kept' = Judge(Made(Kinds))
    BY <1>2 DEF Decode, Kinds
  <2>2. Judge(Made(Kinds))' = Judge(Made(Kinds))
    BY <2>1 DEF Judge, Made, Kinds
  <2> QED
    BY <2>1, <2>2 DEF Inv, Kinds, Unvaried
<1>3. CASE Decoded \/ UNCHANGED vars
  BY <1>3 DEF Decoded, vars, Inv, Kinds, Unvaried, Judge, Made
<1> QED
  BY <1>1, <1>2, <1>3 DEF Next

LEMMA SpecInv == Spec => []Inv
  BY InitInv, NextInv, PTL DEF Spec

(* What there is once a reply is decoded *)
LEMMA Outcomes ==
  ASSUME Inv
  PROVE  /\ kept = Waiting \/ kept = Refused \/ kept = Panics
              \/ kept = [is |-> "kept", members |-> Made(Kinds)]
         /\ kept = Panics => \E n \in DOMAIN reply : Made(Kinds)[n] = Panics
         /\ IsKept => /\ kept = [is |-> "kept", members |-> Made(Kinds)]
                      /\ \A n \in DOMAIN reply : ~Fails(Made(Kinds)[n])
                      /\ type = "MobileInterface" => IsMobileBroadband(Made(Kinds)["traits"])
         /\ kept = Refused =>
              \/ \E n \in DOMAIN reply : Fails(Made(Kinds)[n])
              \/ type = "MobileInterface" /\ ~IsMobileBroadband(Made(Kinds)["traits"])
<1> DEFINE made == Made(Kinds)
           ways == {made[n] : n \in DOMAIN reply}
           whole == [is |-> "kept", members |-> made]
<1>1. kept = Waiting \/ kept =
        IF Panics \in ways THEN Panics
        ELSE IF Refused \in ways THEN Refused
        ELSE IF type = "MobileInterface" /\ ~IsMobileBroadband(made["traits"]) THEN Refused
        ELSE whole
  BY DEF Inv, Judge
<1>2. /\ Waiting.is = "waiting" /\ Panics.is = "panics" /\ Refused.is = "refused"
      /\ whole.is = "kept"
  BY DEF Waiting, Panics, Refused
<1>3. /\ Panics \in ways <=> \E n \in DOMAIN reply : made[n] = Panics
      /\ Refused \in ways <=> \E n \in DOMAIN reply : made[n] = Refused
  OBVIOUS
<1> HIDE DEF ways, made, whole
<1>4. kept = Waiting \/ kept = Refused \/ kept = Panics \/ kept = whole
  BY <1>1
<1>5. kept = Panics => \E n \in DOMAIN reply : made[n] = Panics
  BY <1>1, <1>2, <1>3
<1>6. IsKept => /\ kept = whole
                /\ \A n \in DOMAIN reply : ~Fails(made[n])
                /\ type = "MobileInterface" => IsMobileBroadband(made["traits"])
  <2> SUFFICES ASSUME IsKept
               PROVE  /\ kept = whole
                      /\ \A n \in DOMAIN reply : ~Fails(made[n])
                      /\ type = "MobileInterface" => IsMobileBroadband(made["traits"])
    OBVIOUS
  <2>1. kept # Waiting /\ kept # Panics /\ kept # Refused
    BY <1>2 DEF IsKept
  <2>2. Panics \notin ways /\ Refused \notin ways /\ kept = whole
        /\ (type = "MobileInterface" => IsMobileBroadband(made["traits"]))
    BY <1>1, <2>1
  <2> QED
    BY <1>3, <2>2 DEF Fails
<1>7. kept = Refused => \/ \E n \in DOMAIN reply : Fails(made[n])
                        \/ type = "MobileInterface" /\ ~IsMobileBroadband(made["traits"])
  BY <1>1, <1>2, <1>3 DEF Fails
<1> QED
  BY <1>4, <1>5, <1>6, <1>7 DEF made, whole

LEMMA SoundMembers ==
  ASSUME Replies = Declarations, Inv, NEW n \in DOMAIN reply
  PROVE  /\ Sound(n, Kinds[n]) /\ reply[n] \in DOMAIN Kinds[n]
         /\ Made(Kinds)[n] = Kinds[n][reply[n]]
  BY DeclarationTables DEF Inv, Kinds, Table, Types, Made

LEMMA SoundIsWide ==
  ASSUME NEW n, NEW kind, Sound(n, kind), NEW v \in DOMAIN kind
  PROVE  kind[v] # Panics /\ Wide(kind[v])
<1>1. CASE Plain(kind, ClassOf(n))
  BY <1>1 DEF Plain, Right
<1>2. CASE Reporting(kind)
  BY <1>2 DEF Reporting, AsReported, None, Refused, Panics, Wide
<1> QED
  BY <1>1, <1>2 DEF Sound

(* No text a reply can carry makes the decoding of any declaration of   *)
(* src/model/ panic, for every width and whatever identifiers it holds. *)
THEOREM DecodingNeverPanics == ASSUME Replies = Declarations PROVE Spec => []NeverPanics
<1>1. ASSUME Inv PROVE NeverPanics
  BY <1>1, Outcomes, SoundMembers, SoundIsWide DEF NeverPanics
<1> QED
  BY <1>1, SpecInv, PTL

(* What is decoded has the members of its declaration, and a number that is *)
(* kept fits the width of its type.                                         *)
THEOREM RepliesAreTyped == ASSUME Replies = Declarations PROVE Spec => []TypeOK
<1>1. ASSUME Inv PROVE TypeOK
  <2>1. type \in Types /\ changed \subseteq DOMAIN reply
    BY <1>1 DEF Inv
  <2>2. kept \in {Waiting, Refused, Panics} \/ (IsKept /\ DOMAIN kept.members = DOMAIN reply)
    BY <1>1, Outcomes DEF IsKept, Made
  <2>3. ASSUME IsKept, NEW n \in changed PROVE Wide(kept.members[n])
    <3>1. n \in DOMAIN reply /\ kept.members = Made(Kinds)
      BY <1>1, <2>3, Outcomes DEF Inv
    <3> QED
      BY <1>1, <3>1, SoundMembers, SoundIsWide
  <2>4. U64Max \in Nat
    BY WidthAssumption
  <2> QED
    BY <2>1, <2>2, <2>3, <2>4 DEF TypeOK, Wide, Fits, Least
<1> QED
  BY <1>1, SpecInv, PTL

(* Whatever numbers and texts a reply holds, two forms of a member are kept *)
(* as one value exactly when they mean one, and amounts in their order.     *)
THEOREM MeaningsAreKept == ASSUME Replies = Declarations PROVE Spec => []MeaningKept
<1>1. ASSUME Inv PROVE MeaningKept
  <2> SUFFICES ASSUME IsKept, NEW n \in changed
               PROVE  AgreesWithAll(Kinds[n], reply[n], kept.members[n])
    BY DEF MeaningKept, Kinds
  <2>1. n \in DOMAIN reply /\ kept.members = Made(Kinds)
    BY <1>1, Outcomes DEF Inv
  <2> QED
    BY <1>1, <2>1, SoundMembers, SoundAgrees
<1> QED
  BY <1>1, SpecInv, PTL

LEMMA SoundShown ==
  ASSUME NEW n, NEW k1, NEW k2, Sound(n, k1), Sound(n, k2),
         NEW v \in DOMAIN k1 \cap DOMAIN k2, IsValue(k1[v]), IsValue(k2[v])
  PROVE  Shown(k1[v]) = Shown(k2[v])
<1> DEFINE told == IF Meaning(v).is = "amount" THEN As(ClassOf(n), Meaning(v))
                   ELSE Canon(Meaning(v))
<1>1. ASSUME NEW k, Plain(k, ClassOf(n)), v \in DOMAIN k, IsValue(k[v])
      PROVE  Shown(k[v]) = told
  <2>1. Tells(ClassOf(n), v, k[v])
    BY <1>1 DEF Plain, Right
  <2>2. k[v] = told
    BY <2>1 DEF Tells
  <2>3. CASE Meaning(v).is = "amount"
    <3>1. As(ClassOf(n), Meaning(v)).is # "reported"
      BY ClassesOfNames DEF Classes, As, Number, Digits, Real, Duration, Rate, Refused
    <3> QED
      BY <2>2, <2>3, <3>1 DEF Shown
  <2>4. CASE Meaning(v).is # "amount"
    <3>1. Canon(Meaning(v)).is # "reported"
      BY <2>1, <2>4 DEF Tells, Canon, Named, Sizes, Moment, Mac
    <3> QED
      BY <2>2, <2>4, <3>1 DEF Shown
  <2> QED
    BY <2>3, <2>4
<1>2. ASSUME NEW k, Reporting(k), v \in DOMAIN k, IsValue(k[v])
      PROVE  Shown(k[v]) = told
  <2>1. Literal(v) /\ k[v] \in {AsReported("raw", v), AsReported("parsed", v)}
    BY <1>2 DEF Reporting, IsValue
  <2>2. Shown(k[v]) = v
    BY <2>1 DEF Shown, AsReported
  <2>3. Meaning(v) = v /\ v.is # "amount" /\ Canon(v) = v
    BY <2>1 DEF Literal, Sizes, Canon, Moment, Mac
  <2> QED
    BY <2>2, <2>3
<1> HIDE DEF told
<1>3. Shown(k1[v]) = told
  BY <1>1, <1>2 DEF Sound
<1>4. Shown(k2[v]) = told
  BY <1>1, <1>2 DEF Sound
<1> QED
  BY <1>3, <1>4

(* A member of one name is kept alike, in one unit, by every declaration of *)
(* src/model/ that has it.                                                  *)
THEOREM MembersMeanOneThing == ASSUME Replies = Declarations PROVE Spec => []SameMember
<1>1. ASSUME Inv PROVE SameMember
  <2> SUFFICES ASSUME IsKept, NEW n \in changed, NEW other \in Types
               PROVE  MeansThere(Replies[other], n, kept.members[n])
    BY DEF SameMember
  <2>1. n \in DOMAIN reply /\ kept.members = Made(Kinds)
    BY <1>1, Outcomes DEF Inv
  <2>2. Sound(n, Kinds[n]) /\ reply[n] \in DOMAIN Kinds[n] /\ kept.members[n] = Kinds[n][reply[n]]
    BY <1>1, <2>1, SoundMembers
  <2>3. n \in DOMAIN Replies[other] => Sound(n, Replies[other][n])
    BY DeclarationTables DEF Table, Types
  <2> QED
    BY <2>2, <2>3, SoundShown DEF MeansThere
<1> QED
  BY <1>1, SpecInv, PTL

-----------------------------------------------------------------------------
(* The members of a cell *)

Holds(f, n, kind) == n \in DOMAIN f /\ f[n] = kind

LEMMA MergedHolds ==
  ASSUME NEW a, NEW b, NEW n, NEW kind,
         Holds(a, n, kind) \/ (n \notin DOMAIN a /\ Holds(b, n, kind))
  PROVE  Holds(a @@ b, n, kind)
<1>1. a @@ b = Merged(a, b)
  BY DEF @@
<1>2. DOMAIN Merged(a, b) = DOMAIN a \cup DOMAIN b
  BY MergeDomain
<1> QED
  BY <1>1, <1>2, MergeFirst, MergeSecond DEF Holds

LEMMA EachHolds ==
  /\ \A names, kind : \A n \in names : Holds(Each(names, kind), n, kind)
  /\ \A n, kind : Holds(n :> kind, n, kind)
  BY DEF Each, Holds, :>

LEMMA EachDomain ==
  /\ \A names, kind : DOMAIN Each(names, kind) = names
  /\ \A n, kind : DOMAIN (n :> kind) = {n}
  /\ \A a, b : DOMAIN (a @@ b) = DOMAIN a \cup DOMAIN b
<1>1. \A a, b : DOMAIN (a @@ b) = DOMAIN a \cup DOMAIN b
  BY MergeDomain DEF @@
<1> QED
  BY <1>1 DEF Each, :>

LEMMA CellHolds ==
  /\ Holds(ServingCell, "enb-id", OptionalFromStr(TextUInt(U32Max)))
  /\ Holds(ServingCell, "sector-id", OptionalFromStr(TextUInt(65535)))
<1>1. ASSUME NEW p, NEW narrow, NEW wide
      PROVE  /\ Holds("plmn" :> p @@ "sector-id" :> narrow @@ Each({"enb-id", "tac"}, wide),
                      "enb-id", wide)
             /\ Holds("plmn" :> p @@ "sector-id" :> narrow @@ Each({"enb-id", "tac"}, wide),
                      "sector-id", narrow)
  <2> DEFINE first == "plmn" :> p @@ "sector-id" :> narrow
             last == Each({"enb-id", "tac"}, wide)
  <2>1. "enb-id" \notin DOMAIN first
    <3>1. DOMAIN first = DOMAIN ("plmn" :> p) \cup DOMAIN ("sector-id" :> narrow)
      BY EachDomain
    <3>2. DOMAIN ("plmn" :> p) = {"plmn"} /\ DOMAIN ("sector-id" :> narrow) = {"sector-id"}
      BY EachDomain
    <3> QED
      BY <3>1, <3>2
  <2>2. DOMAIN ("plmn" :> p) = {"plmn"} /\ Holds("sector-id" :> narrow, "sector-id", narrow)
    BY EachDomain, EachHolds
  <2>3. Holds(first, "sector-id", narrow)
    BY <2>2, MergedHolds
  <2>4. Holds(last, "enb-id", wide)
    BY EachHolds
  <2> HIDE DEF first, last
  <2>5. Holds(first @@ last, "enb-id", wide) /\ Holds(first @@ last, "sector-id", narrow)
    BY <2>1, <2>3, <2>4, MergedHolds
  <2> QED
    BY <2>5 DEF first, last
<1> QED
  BY <1>1 DEF ServingCell

LEMMA TextUIntKept ==
  ASSUME NEW high \in Nat, NEW v \in DOMAIN OptionalFromStr(TextUInt(high)),
         ~Fails(OptionalFromStr(TextUInt(high))[v])
  PROVE  \/ OptionalFromStr(TextUInt(high))[v] = None
         \/ \E n \in Nat : n <= high /\ OptionalFromStr(TextUInt(high))[v] = Digits(n)
<1> DEFINE kind == TextUInt(high)
           k == OptionalFromStr(kind)[v]
<1>1. v \in DOMAIN kind /\ (k = None \/ k = kind[v] \/ k = Refused)
  BY DEF OptionalFromStr
<1>2. v.is = "digits" => v.n \in Int /\ v = Digits(v.n)
  <2>1. v \in Generic \cup Numerals
    BY <1>1 DEF TextUInt
  <2> QED
    BY <2>1, NumeralForms
<1>3. kind[v] = IF v.is = "digits" /\ v.n \in 0..high THEN v ELSE Refused
  BY <1>1 DEF TextUInt
<1>4. k # Refused
  BY DEF Fails
<1> HIDE DEF k, kind
<1>5. k = None \/ (v.is = "digits" /\ v.n \in 0..high /\ k = v)
  BY <1>1, <1>3, <1>4
<1>6. k = None \/ \E n \in Nat : n <= high /\ k = Digits(n)
  BY <1>2, <1>5
<1> QED
  BY <1>6 DEF k, kind

LEMMA OneCell ==
  ASSUME NEW enb, NEW sector, Eci(enb, sector) # None,
         enb = None \/ \E e \in Nat : enb = Digits(e),
         sector = None \/ \E t \in Nat : sector = Digits(t)
  PROVE  /\ 0 <= Eci(enb, sector).n /\ Eci(enb, sector).n < 268435456
         /\ \A n, s \in Nat :
              Eci(Number(n), Number(s)) = Eci(enb, sector) => n = enb.n /\ s = sector.n
<1>1. enb # None /\ sector # None
  BY SMT DEF Eci
<1>2. PICK e \in Nat : enb = Digits(e)
  BY <1>1
<1>3. PICK t \in Nat : sector = Digits(t)
  BY <1>1
<1>4. enb.n = e /\ sector.n = t
  BY <1>2, <1>3 DEF Digits
<1>5. \A n : Number(n) # None /\ Number(n).n = n
  BY DEF Number, None
<1>6. Eci(enb, sector) = IF e <= 1048575 /\ t <= 255 THEN Number(e * 256 + t) ELSE None
  BY <1>1, <1>4, SMT DEF Eci
<1>7. Eci(Number(e), Number(t)) = IF e <= 1048575 /\ t <= 255 THEN Number(e * 256 + t) ELSE None
  BY <1>5, SMT DEF Eci
<1>8. Eci(enb, sector) = Eci(Number(e), Number(t))
  BY <1>6, <1>7, SMT
<1>9. 0 <= Eci(enb, sector).n /\ Eci(enb, sector).n < 268435456
  BY <1>8, CellsAreTold, SMT
<1>10. \A n, s \in Nat : Eci(Number(n), Number(s)) = Eci(enb, sector) => n = e /\ s = t
  BY <1>8, CellsAreTold, SMT
<1> QED
  BY <1>4, <1>9, <1>10, SMT

(* The identity of a serving cell fits 28 bits and is that of no other cell. *)
THEOREM CellsKeepTheirIdentity == ASSUME Replies = Declarations PROVE Spec => []CellIdentity
<1>1. ASSUME Inv PROVE CellIdentity
  <2> DEFINE enb == kept.members["enb-id"]
             sector == kept.members["sector-id"]
  <2>1. ASSUME IsKept, type = "ServingCell", Eci(enb, sector) # None
        PROVE  /\ 0 <= Eci(enb, sector).n /\ Eci(enb, sector).n < 268435456
               /\ \A n, s \in Nat :
                    Eci(Number(n), Number(s)) = Eci(enb, sector) => n = enb.n /\ s = sector.n
    <3>1. Kinds = ServingCell
      BY <2>1 DEF Kinds, Declarations
    <3>2. /\ kept.members = Made(Kinds) /\ \A n \in DOMAIN reply : ~Fails(Made(Kinds)[n])
          /\ DOMAIN reply = DOMAIN ServingCell
      BY <1>1, <2>1, <3>1, Outcomes DEF Inv
    <3>3. ASSUME NEW n, NEW high \in Nat, Holds(ServingCell, n, OptionalFromStr(TextUInt(high)))
          PROVE  kept.members[n] = None \/ \E m \in Nat : kept.members[n] = Digits(m)
      <4> DEFINE kind == OptionalFromStr(TextUInt(high))
      <4>1. n \in DOMAIN reply /\ Kinds[n] = kind
        BY <3>1, <3>2, <3>3 DEF Holds
      <4>2. reply[n] \in DOMAIN kind /\ kept.members[n] = kind[reply[n]] /\ ~Fails(kind[reply[n]])
        BY <1>1, <3>2, <4>1, SoundMembers
      <4> QED
        BY <4>2, TextUIntKept
    <3>4. /\ enb = None \/ \E m \in Nat : enb = Digits(m)
          /\ sector = None \/ \E m \in Nat : sector = Digits(m)
      BY <3>3, CellHolds, WidthAssumption
    <3> HIDE DEF enb, sector
    <3> QED
      BY <2>1, <3>4, OneCell, SMT
  <2> QED
    BY <2>1, SMT DEF CellIdentity
<1> QED
  BY <1>1, SpecInv, PTL

-----------------------------------------------------------------------------
(* The two declarations of a mobile interface *)

Lacks(f, n) == n \notin DOMAIN f

LEMMA HoldingFirst == \A a, b, n, kind : Holds(a, n, kind) => Holds(a @@ b, n, kind)
  BY MergedHolds
LEMMA HoldingSecond ==
  \A a, b, n, kind : Lacks(a, n) /\ Holds(b, n, kind) => Holds(a @@ b, n, kind)
  BY MergedHolds DEF Lacks
LEMMA LackingBoth == \A a, b, n : Lacks(a, n) /\ Lacks(b, n) => Lacks(a @@ b, n)
<1> SUFFICES ASSUME NEW a, NEW b, NEW n, Lacks(a, n), Lacks(b, n) PROVE Lacks(a @@ b, n)
  OBVIOUS
<1>1. DOMAIN (a @@ b) = DOMAIN a \cup DOMAIN b
  BY EachDomain
<1> QED
  BY <1>1 DEF Lacks
LEMMA LackingEach ==
  /\ \A names, kind, n : n \notin names => Lacks(Each(names, kind), n)
  /\ \A m, kind, n : n # m => Lacks(m :> kind, n)
  BY DEF Lacks, Each, :>

(* A table within another *)
Within(a, b) == \A n \in DOMAIN a : Holds(b, n, a[n])

LEMMA MergedWithin == \A a, b, f : Within(a, f) /\ Within(b, f) => Within(a @@ b, f)
<1> SUFFICES ASSUME NEW a, NEW b, NEW f, Within(a, f), Within(b, f), NEW n \in DOMAIN (a @@ b)
             PROVE  Holds(f, n, (a @@ b)[n])
  BY DEF Within
<1>1. a @@ b = Merged(a, b)
  BY DEF @@
<1>2. n \in DOMAIN Merged(a, b)
  BY <1>1
<1>3. CASE n \in DOMAIN a
  BY <1>1, <1>3, MergeFirst DEF Within
<1>4. CASE n \notin DOMAIN a
  <2>1. n \in DOMAIN b
    BY <1>2, <1>4, MergeDomain
  <2> QED
    BY <1>1, <1>4, <2>1, MergeSecond DEF Within
<1> QED
  BY <1>3, <1>4

LEMMA EachWithin ==
  \A names, kind, f : (\A n \in names : Holds(f, n, kind)) => Within(Each(names, kind), f)
  BY DEF Within, Each
LEMMA MemberWithin == \A n, kind, f : Holds(f, n, kind) => Within(n :> kind, f)
  BY DEF Within, :>

StatusNames ==
  {"plugged", "operator", "apn", "phone-number", "connection-state", "sim", "pin-attempts",
   "embedded", "roaming", "active", "imei", "imsi", "iccid", "carrier", "ati", "uim",
   "signal-level", "rssi", "rsrp", "rsrq", "cinr", "temperature", "plmn", "enb-id", "tac",
   "sector-id", "phy-cell-id", "mobile", "band", "earfcn", "dl-freq", "ul-freq", "bandwidth"}

(* What the flat declaration appends to that of the interface *)
Flat(first) ==
  first
    @@ Each({"plugged", "operator", "apn", "phone-number"}, Nonempty(Str))
    @@ "connection-state" :> OptionalFromStr(MobileConnectionState)
    @@ "sim" :> OptionalFromStr(SimState) @@ "pin-attempts" :> Opt(UInt(0, 255))
    @@ Each({"embedded", "roaming", "active"}, Opt(Bool))
    @@ "imei" :> OptionalReported(Imei) @@ "imsi" :> OptionalReported(Imsi)
    @@ "iccid" :> OptionalReported(Iccid) @@ "signal-level" :> Opt(SignalLevel)
    @@ Each({"rssi", "rsrp", "rsrq", "cinr", "temperature"}, OptionalMeasurement(Finite))
    @@ "plmn" :> OptionalFromStr(Plmn)
    @@ Each({"enb-id", "tac"}, OptionalFromStr(TextUInt(U32Max)))
    @@ Each({"sector-id", "phy-cell-id"}, OptionalFromStr(TextUInt(65535)))
    @@ "mobile" :> OptionalFromStr(RadioAccessTechnology) @@ "band" :> OptionalFromStr(RadioBand)
    @@ Each({"earfcn", "dl-freq", "ul-freq"}, Opt(UInt(0, U64Max)))
    @@ "bandwidth" :> OptionalMeasurement(CarrierBandwidth)
    @@ "carrier" :> Default(MapOf) @@ Each({"ati", "uim"}, Opt(LooseStruct))

LEMMA WireIsFlat == MobileInterfaceWire = Flat(Interface)
  BY DEF MobileInterfaceWire, Flat, Interface

LEMMA TakenApart == Within(MobileInterfaceWire, Interface @@ MobileStatus)
<1> DEFINE both == Interface @@ MobileStatus
<1>1. ASSUME NEW n, NEW kind, Holds(Interface, n, kind) PROVE Holds(both, n, kind)
  BY <1>1, HoldingFirst
<1>2. ASSUME NEW n, NEW kind, Lacks(Interface, n), Holds(MobileStatus, n, kind)
      PROVE  Holds(both, n, kind)
  BY <1>2, HoldingSecond
<1> HIDE DEF both
<1>5. /\ \A n \in {"plugged", "operator", "apn", "phone-number"} :
           Holds(MobileStatus, n, Nonempty(Str))
      /\ Holds(MobileStatus, "connection-state", OptionalFromStr(MobileConnectionState))
      /\ Holds(MobileStatus, "sim", OptionalFromStr(SimState))
      /\ Holds(MobileStatus, "pin-attempts", Opt(UInt(0, 255)))
  BY HoldingFirst, HoldingSecond, LackingBoth, LackingEach, EachHolds, SMT DEF MobileStatus
<1>6. \A n \in {"embedded", "roaming", "active"} : Holds(MobileStatus, n, Opt(Bool))
  BY HoldingFirst, HoldingSecond, LackingBoth, LackingEach, EachHolds, SMT
     DEF MobileStatus, MobileSignal, ServingCell, ComponentCarrier
<1>7. /\ Holds(MobileStatus, "imei", OptionalReported(Imei))
      /\ Holds(MobileStatus, "imsi", OptionalReported(Imsi))
      /\ Holds(MobileStatus, "iccid", OptionalReported(Iccid))
      /\ Holds(MobileStatus, "carrier", Default(MapOf))
      /\ \A n \in {"ati", "uim"} : Holds(MobileStatus, n, Opt(LooseStruct))
  BY HoldingFirst, HoldingSecond, LackingBoth, LackingEach, EachHolds, SMT DEF MobileStatus
<1>8. /\ Holds(MobileStatus, "signal-level", Opt(SignalLevel))
      /\ \A n \in {"rssi", "rsrp", "rsrq", "cinr", "temperature"} :
           Holds(MobileStatus, n, OptionalMeasurement(Finite))
  BY HoldingFirst, HoldingSecond, LackingBoth, LackingEach, EachHolds, SMT
     DEF MobileStatus, MobileSignal
<1>9. /\ Holds(MobileStatus, "plmn", OptionalFromStr(Plmn))
      /\ \A n \in {"enb-id", "tac"} : Holds(MobileStatus, n, OptionalFromStr(TextUInt(U32Max)))
      /\ Holds(MobileStatus, "sector-id", OptionalFromStr(TextUInt(65535)))
  BY HoldingFirst, HoldingSecond, LackingBoth, LackingEach, EachHolds, SMT
     DEF MobileStatus, MobileSignal, ServingCell
<1>10. /\ Holds(MobileStatus, "phy-cell-id", OptionalFromStr(TextUInt(65535)))
       /\ Holds(MobileStatus, "mobile", OptionalFromStr(RadioAccessTechnology))
       /\ Holds(MobileStatus, "band", OptionalFromStr(RadioBand))
       /\ \A n \in {"earfcn", "dl-freq", "ul-freq"} : Holds(MobileStatus, n, Opt(UInt(0, U64Max)))
       /\ Holds(MobileStatus, "bandwidth", OptionalMeasurement(CarrierBandwidth))
  BY HoldingFirst, HoldingSecond, LackingBoth, LackingEach, EachHolds, SMT
     DEF MobileStatus, MobileSignal, ServingCell, ComponentCarrier
<1>11. \A n \in StatusNames : Lacks(Interface, n)
  BY LackingBoth, LackingEach DEF Interface, StatusNames
<1>12. Within(Interface, both)
  BY <1>1 DEF Within, Holds
<1>13. \A n \in StatusNames : \A kind : Holds(MobileStatus, n, kind) => Within(n :> kind, both)
  BY <1>2, <1>11, MemberWithin
<1>16. \A names, kind :
         (\A n \in names : n \in StatusNames /\ Holds(MobileStatus, n, kind)) =>
           Within(Each(names, kind), both)
  BY <1>2, <1>11, EachWithin
<1>17. /\ Within(Each({"plugged", "operator", "apn", "phone-number"}, Nonempty(Str)), both)
       /\ Within("connection-state" :> OptionalFromStr(MobileConnectionState), both)
       /\ Within("sim" :> OptionalFromStr(SimState), both)
       /\ Within("pin-attempts" :> Opt(UInt(0, 255)), both)
       /\ Within(Each({"embedded", "roaming", "active"}, Opt(Bool)), both)
  BY <1>5, <1>6, <1>13, <1>16 DEF StatusNames
<1>18. /\ Within("imei" :> OptionalReported(Imei), both)
       /\ Within("imsi" :> OptionalReported(Imsi), both)
       /\ Within("iccid" :> OptionalReported(Iccid), both)
       /\ Within("carrier" :> Default(MapOf), both)
       /\ Within(Each({"ati", "uim"}, Opt(LooseStruct)), both)
  BY <1>7, <1>13, <1>16 DEF StatusNames
<1>19. /\ Within("signal-level" :> Opt(SignalLevel), both)
       /\ Within(Each({"rssi", "rsrp", "rsrq", "cinr", "temperature"},
                      OptionalMeasurement(Finite)), both)
       /\ Within("plmn" :> OptionalFromStr(Plmn), both)
       /\ Within(Each({"enb-id", "tac"}, OptionalFromStr(TextUInt(U32Max))), both)
       /\ Within(Each({"sector-id", "phy-cell-id"}, OptionalFromStr(TextUInt(65535))), both)
  BY <1>8, <1>9, <1>10, <1>13, <1>16 DEF StatusNames
<1>20. /\ Within("mobile" :> OptionalFromStr(RadioAccessTechnology), both)
       /\ Within("band" :> OptionalFromStr(RadioBand), both)
       /\ Within(Each({"earfcn", "dl-freq", "ul-freq"}, Opt(UInt(0, U64Max))), both)
       /\ Within("bandwidth" :> OptionalMeasurement(CarrierBandwidth), both)
  BY <1>10, <1>13, <1>16 DEF StatusNames
<1>21. \A first : Within(first, both) => Within(Flat(first), both)
  BY <1>17, <1>18, <1>19, <1>20, MergedWithin, SMT DEF Flat
<1> QED
  BY <1>12, <1>21, WireIsFlat DEF both

Has(f, n) == n \in DOMAIN f
Under(f, names) == \A n \in DOMAIN f : n \in names

LEMMA Having ==
  /\ \A a, b, n : Has(a, n) => Has(a @@ b, n)
  /\ \A a, b, n : Has(b, n) => Has(a @@ b, n)
  /\ \A names, kind : \A n \in names : Has(Each(names, kind), n)
  /\ \A n, kind : Has(n :> kind, n)
  /\ \A a, b, names : Under(a, names) /\ Under(b, names) => Under(a @@ b, names)
  /\ \A names, kind, all : (\A n \in names : n \in all) => Under(Each(names, kind), all)
  /\ \A n, kind, all : n \in all => Under(n :> kind, all)
<1>1. \A a, b : DOMAIN (a @@ b) = DOMAIN a \cup DOMAIN b
  BY EachDomain
<1>2. /\ \A a, b, n : Has(a, n) => Has(a @@ b, n)
      /\ \A a, b, n : Has(b, n) => Has(a @@ b, n)
      /\ \A a, b, names : Under(a, names) /\ Under(b, names) => Under(a @@ b, names)
  BY <1>1 DEF Has, Under
<1>3. /\ \A names, kind : \A n \in names : Has(Each(names, kind), n)
      /\ \A n, kind : Has(n :> kind, n)
      /\ \A names, kind, all : (\A n \in names : n \in all) => Under(Each(names, kind), all)
      /\ \A n, kind, all : n \in all => Under(n :> kind, all)
  BY DEF Has, Under, Each, :>
<1> QED
  BY <1>2, <1>3

LEMMA PutTogether ==
  \A n \in DOMAIN (Interface @@ MobileStatus) : n \in DOMAIN MobileInterfaceWire
<1>1. \A first, n : Has(first, n) => Has(Flat(first), n)
  BY Having, SMT DEF Flat
<1>2. \A first : \A n \in StatusNames : Has(Flat(first), n)
  BY Having, SMT DEF Flat, StatusNames
<1>3. Under(MobileStatus, StatusNames)
  BY Having, SMT DEF MobileStatus, MobileSignal, ServingCell, ComponentCarrier, StatusNames
<1>4. DOMAIN (Interface @@ MobileStatus) = DOMAIN Interface \cup DOMAIN MobileStatus
  BY EachDomain
<1> QED
  BY <1>1, <1>2, <1>3, <1>4, WireIsFlat DEF Has, Under

LEMMA OneTable ==
  LET both == Interface @@ MobileStatus
  IN /\ DOMAIN MobileInterfaceWire = DOMAIN both
     /\ \A n \in DOMAIN both : MobileInterfaceWire[n] = both[n]
<1>1. \A n \in DOMAIN MobileInterfaceWire :
        /\ n \in DOMAIN (Interface @@ MobileStatus)
        /\ MobileInterfaceWire[n] = (Interface @@ MobileStatus)[n]
  BY TakenApart DEF Within, Holds
<1> QED
  BY <1>1, PutTogether

(* The flat declaration that is decoded for a mobile interface keeps and *)
(* refuses what the two declarations do that it is taken apart into.     *)
THEOREM MobileIsOneDeclaration == ASSUME Replies = Declarations PROVE Spec => []OneDeclaration
<1>1. ASSUME Inv PROVE OneDeclaration
  <2> DEFINE both == Interface @@ MobileStatus
  <2>1. Replies["Interface"] = Interface /\ Replies["MobileStatus"] = MobileStatus
    BY DEF Declarations
  <2>2. ASSUME type = "MobileInterface", kept # Waiting PROVE OneOf(both)
    <3>1. Kinds = MobileInterfaceWire
      BY <2>2 DEF Kinds, Declarations, MobileInterface
    <3>2. DOMAIN reply = DOMAIN both /\ \A n \in DOMAIN reply : Kinds[n] = both[n]
      BY <1>1, <3>1, OneTable DEF Inv
    <3> HIDE DEF both
    <3>3. Made(both) = Made(Kinds)
      BY <3>2 DEF Made
    <3>4. /\ \A n \in DOMAIN reply : Made(both)[n] = both[n][reply[n]]
          /\ "traits" \in DOMAIN reply => Made(both)["traits"] = both["traits"][reply["traits"]]
      BY DEF Made
    <3>5. "traits" \in DOMAIN reply
      <4>1. Has(Interface, "traits")
        BY Having, SMT DEF Interface
      <4>2. Has(both, "traits")
        BY <4>1, Having DEF both
      <4> QED
        BY <3>2, <4>2 DEF Has
    <3>6. /\ Refused.is # "kept" /\ Panics.is # "kept" /\ Fails(Panics)
          /\ kept.is = "kept" => kept # Refused /\ kept # Panics
      BY DEF Refused, Panics, Fails
    <3>7. IsKept <=> /\ \A n \in DOMAIN reply : ~Fails(Made(both)[n])
                     /\ IsMobileBroadband(Made(both)["traits"])
      <4>1. CASE IsKept
        BY <1>1, <2>2, <3>3, <4>1, Outcomes
      <4>2. CASE kept = Refused
        BY <1>1, <2>2, <3>3, <3>6, <4>2, Outcomes DEF IsKept
      <4>3. CASE kept = Panics
        BY <1>1, <3>3, <3>6, <4>3, Outcomes DEF IsKept
      <4> QED
        BY <1>1, <2>2, <4>1, <4>2, <4>3, Outcomes DEF IsKept
    <3>8. IsKept => kept.members = Made(both)
      BY <1>1, <3>3, Outcomes
    <3> QED
      BY <3>2, <3>4, <3>5, <3>7, <3>8 DEF OneOf
  <2> QED
    BY <2>1, <2>2 DEF OneDeclaration
<1> QED
  BY <1>1, SpecInv, PTL

(* What was not varied is kept. *)
LEMMA UnvariedIsKept ==
  ASSUME Replies = Declarations, Inv, NEW n \in DOMAIN reply \ changed
  PROVE  ~Fails(Made(Kinds)[n])
<1>1. Made(Kinds)[n] = Kinds[n][reply[n]] /\ Kinds[n][reply[n]] # Panics
  BY SoundMembers, SoundIsWide
<1>2. n \in DOMAIN Kinds /\ type \in Types /\ Unvaried(n)
  BY DEF Inv
<1>3. Kinds[n][reply[n]] # Refused
  <2>1. reply[n] = Usual(Kinds[n]) \/ reply[n] = Bare(Kinds[n])
    BY <1>2 DEF Unvaried
  <2>2. IsValue(Kinds[n][Usual(Kinds[n])]) /\ Kinds[n][Bare(Kinds[n])] # Refused
    BY <1>2, UsualForm DEF Kinds
  <2> QED
    BY <2>1, <2>2 DEF IsValue
<1> QED
  BY <1>1, <1>3 DEF Fails

LEMMA UsualTraits ==
  /\ Usual(TraitList) = Mobile /\ Bare(TraitList) = Mobile
  /\ IsMobileBroadband(TraitList[Mobile])
<1>1. Mobile \in DOMAIN TraitList /\ TraitList[Mobile] = Mobile
  BY DEF TraitList, Accepting, Mobile
<1>2. IsValue(Mobile) /\ IsMobileBroadband(Mobile)
  BY DEF Mobile, Traits, IsValue, Refused, Panics, None, IsMobileBroadband
<1>3. Usual(TraitList) = Mobile
  BY <1>1, <1>2 DEF Usual
<1>4. TraitList[Absent] = Refused
  BY DEF TraitList, Accepting, Generic, Traits, Absent
<1> QED
  BY <1>1, <1>2, <1>3, <1>4 DEF Bare

LEMMA IdentityKinds ==
  ASSUME Replies = Declarations, Inv, NEW n \in DOMAIN reply, n \in Identities
  PROVE  \E kind \in {Imei, Imsi, Iccid} : Kinds[n] = OptionalReported(kind)
<1>1. Identified(n, Kinds[n])
  BY SoundMembers DEF Sound
<1> QED
  BY <1>1 DEF Identified, Identities

LEMMA IdentitiesAreRead == \A kind \in {Imei, Imsi, Iccid} : Reads(kind)
  BY ImeiReads, InlineAsciiReads DEF Imsi, Iccid

LEMMA ReportedTexts ==
  ASSUME NEW kind, Reads(kind), NEW v \in DOMAIN OptionalReported(kind)
  PROVE  LET made == OptionalReported(kind)[v]
         IN /\ IsText(v) => ~Fails(made)
            /\ ~Fails(made) => made \in {None, AsReported("raw", v), AsReported("parsed", v)}
            /\ made = AsReported("raw", v) => kind[v] = Refused
            /\ made = AsReported("parsed", v) => kind[v] = v /\ v \in DOMAIN kind
<1>1. v \in DOMAIN kind /\ kind[v] \in {v, Refused} /\ (IsText(v) => Literal(v))
  BY DEF OptionalReported, Nonempty, Reported, Reads
<1>2. Panics # Refused /\ (Literal(v) => v # Panics)
  BY DEF Literal, Panics, Refused
<1>3. Reported(kind)[v] = IF ~IsText(v) THEN Refused
                          ELSE IF kind[v] = Refused THEN AsReported("raw", v)
                          ELSE AsReported("parsed", v)
  BY <1>1, <1>2 DEF Reported
<1>4. OptionalReported(kind)[v] =
        IF v \in {Text(""), Absent, Null} THEN None ELSE Reported(kind)[v]
  BY <1>1 DEF OptionalReported, Nonempty, Reported, Opt
<1>5. \A as : AsReported(as, v) # Refused /\ AsReported(as, v) # Panics /\ AsReported(as, v) # None
  BY DEF AsReported, Refused, Panics, None
<1>6. None # Refused /\ None # Panics /\ AsReported("raw", v) # AsReported("parsed", v)
  BY DEF AsReported, Refused, Panics, None
<1> QED
  BY <1>1, <1>3, <1>4, <1>5, <1>6 DEF Fails

LEMMA ReportedDomain == \A kind : DOMAIN OptionalReported(kind) = DOMAIN kind
  BY DEF OptionalReported, Nonempty, Reported

LEMMA OtherDigits ==
  ASSUME NEW class, NEW least, NEW capacity, NEW v \in DOMAIN InlineAscii(class, least, capacity)
  PROVE  v.is # "imei"
<1>1. v \in Generic \/ \E n, k : v = Chars(n, k)
  BY DEF InlineAscii
<1> QED
  BY <1>1, GenericForms, CharsForm

LEMMA ImeiForms ==
  ASSUME NEW v \in DOMAIN Imei, v.is = "imei"
  PROVE  /\ v.number \in ImeiDigits /\ v = ImeiNumber(v.number)
         /\ Imei[v] = IF Checksum(v.number) % 10 = 0 THEN v ELSE Refused
<1>1. v \in Generic \/ \E d \in ImeiDigits : v = ImeiNumber(d)
  BY DEF Imei
<1>2. v \notin Generic
  BY GenericForms
<1>3. PICK d \in ImeiDigits : v = ImeiNumber(d)
  BY <1>1, <1>2
<1>4. v.number = d
  BY <1>3, ImeiForm
<1>5. Imei[v] = IF Checksum(v.number) % 10 = 0 THEN v ELSE Refused
  BY DEF Imei
<1> QED
  BY <1>3, <1>4, <1>5

(* The places where one digit string differs from another. *)
Wrong(d, e) == {i \in 1..15 : e[i] # d[i]}
OneWrong(d, e) == \E i \in 1..15 : e[i] # d[i] /\ e = [d EXCEPT ![i] = e[i]]

LEMMA MisreadDigits ==
  ASSUME NEW d \in [1..15 -> 0..9], NEW e \in [1..15 -> 0..9],
         Cardinality(Wrong(d, e)) = 1
  PROVE  OneWrong(d, e)
<1> DEFINE wrong == Wrong(d, e)
<1>1. IsFiniteSet(wrong)
  <2>1. \A a, b \in Int : IsFiniteSet(a..b)
    BY FS_Interval
  <2>2. IsFiniteSet(1..15)
    BY <2>1, 1 \in Int, 15 \in Int, Zenon
  <2> HIDE DEF wrong
  <2>3. wrong \subseteq 1..15
    BY DEF wrong, Wrong
  <2> QED
    BY <2>2, <2>3, FS_Subset, Zenon
<1>2. PICK i : wrong = {i}
  BY <1>1, FS_Singleton
<1>3. i \in 1..15 /\ e[i] # d[i] /\ \A j \in 1..15 \ {i} : e[j] = d[j]
  BY <1>2 DEF Wrong
<1>4. e = [d EXCEPT ![i] = e[i]]
  BY <1>3
<1> QED
  BY <1>3, <1>4 DEF OneWrong

LEMMA OneIsAnImei ==
  ASSUME NEW v \in DOMAIN OptionalReported(Imei)
  PROVE  OnlyImei(OptionalReported(Imei), v)
<1> DEFINE kind == OptionalReported(Imei)
<1> SUFFICES ASSUME v.is = "imei", kind[v].as = "parsed", NEW w \in DOMAIN kind, Misread(v, w)
             PROVE  kind[w].as = "raw"
  BY DEF OnlyImei
<1>1. v \in DOMAIN Imei /\ w \in DOMAIN Imei
  BY ReportedDomain
<1>2. ASSUME NEW u \in DOMAIN Imei, u.is = "imei"
      PROVE  kind[u] = IF Checksum(u.number) % 10 = 0 THEN AsReported("parsed", u)
                       ELSE AsReported("raw", u)
  <2>1. IsText(u) /\ u # Text("") /\ u # Refused /\ u # None /\ u # Absent /\ u # Null
    <3>1. /\ Text("").is = "text" /\ Refused.is = "refused" /\ None.is = "none"
          /\ Absent.is = "absent" /\ Null.is = "null"
      BY DEF Text, Refused, None, Absent, Null
    <3> QED
      BY <1>2, <3>1 DEF IsText
  <2>2. u \in DOMAIN kind
    BY ReportedDomain
  <2>3. ~Fails(kind[u])
    BY <2>1, <2>2, ImeiReads, ReportedTexts, Zenon
  <2>4. kind[u] # None
    <3>1. kind[u] = Reported(Imei)[u]
      BY <1>2, <2>1 DEF OptionalReported, Nonempty, Reported, Opt
    <3>2. \/ Reported(Imei)[u] \in {Refused, Panics}
          \/ \E as, reads : Reported(Imei)[u] = AsReported(as, reads)
      BY <1>2 DEF Reported
    <3>3. \A as, reads : AsReported(as, reads) # None
      BY DEF AsReported, None
    <3>4. None \notin {Refused, Panics}
      BY DEF None, Refused, Panics
    <3> QED
      BY <3>1, <3>2, <3>3, <3>4
  <2>5. /\ kind[u] = AsReported("raw", u) \/ kind[u] = AsReported("parsed", u)
        /\ kind[u] = AsReported("raw", u) => Imei[u] = Refused
        /\ kind[u] = AsReported("parsed", u) => Imei[u] = u
    BY <2>2, <2>3, <2>4, ImeiReads, ReportedTexts
  <2>6. Imei[u] = IF Checksum(u.number) % 10 = 0 THEN u ELSE Refused
    BY <1>2, ImeiForms
  <2> QED
    BY <2>1, <2>5, <2>6
<1>3. w.is = "imei"
  BY DEF Misread
<1>4. /\ AsReported("raw", v).as = "raw" /\ AsReported("parsed", v).as = "parsed"
      /\ AsReported("raw", w).as = "raw"
  BY DEF AsReported
<1>5. Checksum(v.number) % 10 = 0
  BY <1>1, <1>2, <1>4
<1>6. v.number \in [1..15 -> 0..9] /\ w.number \in [1..15 -> 0..9]
  BY <1>1, <1>3, ImeiForms, BoundAssumption
<1>7. Cardinality(Wrong(v.number, w.number)) = 1
  BY DEF Misread, Wrong
<1>8. PICK i \in 1..15 :
        w.number[i] # v.number[i] /\ w.number = [v.number EXCEPT ![i] = w.number[i]]
  <2>1. OneWrong(v.number, w.number)
    BY ONLY <1>6, <1>7, MisreadDigits
  <2> QED
    BY ONLY <2>1 DEF OneWrong
<1>9. w.number[i] \in 0..9 \ {v.number[i]}
  BY <1>6, <1>8
<1>10. Checksum(w.number) % 10 # 0
  <2>1. Checksum([v.number EXCEPT ![i] = w.number[i]]) % 10 # 0
    BY ONLY <1>5, <1>6, <1>9, MistypedImeiIsRefused, Zenon
  <2> QED
    BY ONLY <1>8, <2>1
<1> QED
  BY <1>1, <1>2, <1>3, <1>4, <1>10

(* An IMEI, IMSI or ICCID never costs the rest of the reply, whatever text *)
(* it is, and is kept as it was reported; no misreading of one digit of an *)
(* IMEI is taken for one.                                                  *)
THEOREM IdentitiesAreKept == ASSUME Replies = Declarations PROVE Spec => []IdentityIsKept
<1>1. ASSUME Inv PROVE IdentityIsKept
  <2>1. ASSUME kept \in {Refused, Panics}
        PROVE  \E n \in changed : n \notin Identities \/ ~IsText(reply[n])
    <3> SUFFICES ASSUME \A n \in changed : n \in Identities /\ IsText(reply[n]) PROVE FALSE
      OBVIOUS
    <3>1. ASSUME NEW n \in DOMAIN reply PROVE ~Fails(Made(Kinds)[n])
      <4>1. CASE n \notin changed
        BY <1>1, <4>1, UnvariedIsKept
      <4>2. CASE n \in changed
        <5>1. n \in Identities /\ IsText(reply[n])
          BY <4>2
        <5>2. PICK kind \in {Imei, Imsi, Iccid} : Kinds[n] = OptionalReported(kind)
          BY <1>1, <5>1, IdentityKinds
        <5>3. reply[n] \in DOMAIN OptionalReported(kind)
              /\ Made(Kinds)[n] = OptionalReported(kind)[reply[n]]
          BY <1>1, <5>2, SoundMembers
        <5>4. ~Fails(OptionalReported(kind)[reply[n]])
          BY <5>1, <5>3, IdentitiesAreRead, ReportedTexts
        <5> QED
          BY <5>3, <5>4
      <4> QED
        BY <4>1, <4>2
    <3>2. CASE type = "MobileInterface"
      <4>1. Kinds = MobileInterfaceWire
        BY <3>2 DEF Kinds, Declarations, MobileInterface
      <4>2. "traits" \in DOMAIN Kinds /\ Kinds["traits"] = TraitList
        <5>1. Holds(Interface, "traits", TraitList)
          BY HoldingFirst, HoldingSecond, LackingBoth, LackingEach, EachHolds, SMT
             DEF Interface
        <5>2. Holds(Interface @@ MobileStatus, "traits", TraitList)
          BY <5>1, HoldingFirst
        <5> QED
          BY <4>1, <5>2, OneTable DEF Holds
      <4>3. "traits" \in DOMAIN reply \ changed
        BY <1>1, <4>2 DEF Inv, Identities
      <4>4. reply["traits"] = Mobile
        BY <1>1, <4>2, <4>3, UsualTraits DEF Inv, Unvaried
      <4>5. IsMobileBroadband(Made(Kinds)["traits"])
        BY <4>2, <4>3, <4>4, UsualTraits DEF Made
      <4> QED
        BY <1>1, <2>1, <3>1, <4>5, Outcomes DEF Fails
    <3>3. CASE type # "MobileInterface"
      BY <1>1, <2>1, <3>1, <3>3, Outcomes DEF Fails
    <3> QED
      BY <3>2, <3>3
  <2>2. ASSUME IsKept, NEW n \in Identities \cap changed
        PROVE  /\ kept.members[n] # None => kept.members[n].reads = reply[n]
               /\ OnlyImei(Replies[type][n], reply[n])
    <3>1. n \in DOMAIN reply /\ kept.members = Made(Kinds) /\ ~Fails(Made(Kinds)[n])
      BY <1>1, <2>2, Outcomes DEF Inv
    <3>2. PICK kind \in {Imei, Imsi, Iccid} : Kinds[n] = OptionalReported(kind)
      BY <1>1, <3>1, IdentityKinds
    <3>3. /\ reply[n] \in DOMAIN OptionalReported(kind)
          /\ kept.members[n] = OptionalReported(kind)[reply[n]]
      BY <1>1, <3>1, <3>2, SoundMembers
    <3>4. \A as : AsReported(as, reply[n]).reads = reply[n]
      BY DEF AsReported
    <3>5. kept.members[n] # None => kept.members[n].reads = reply[n]
      BY <3>1, <3>3, <3>4, IdentitiesAreRead, ReportedTexts
    <3>6. OnlyImei(Kinds[n], reply[n])
      <4>1. CASE kind = Imei
        BY <3>2, <3>3, <4>1, OneIsAnImei
      <4>2. CASE kind # Imei
        <5>1. reply[n].is # "imei"
          BY <3>2, <3>3, <4>2, OtherDigits, ReportedDomain DEF Imsi, Iccid
        <5> QED
          BY <5>1 DEF OnlyImei
      <4> QED
        BY <4>1, <4>2
    <3> QED
      BY <3>5, <3>6 DEF Kinds
  <2> QED
    BY <2>1, <2>2 DEF IdentityIsKept
<1> QED
  BY <1>1, SpecInv, PTL

-----------------------------------------------------------------------------
(* A modem that is not detected yet *)

(* What becomes of a missing member and of an empty text *)
Missing(kind) == Generic \subseteq DOMAIN kind => kind[Absent] = None
Empty(kind) == Generic \subseteq DOMAIN kind => kind[Text("")] = None
Blanks(f) == \A n \in DOMAIN f : Missing(f[n]) /\ (n \notin NotTexts => Empty(f[n]))

LEMMA MissingKinds ==
  /\ \A kind : Missing(Opt(kind)) /\ Missing(Default(kind))
  /\ \A kind : Missing(Nonempty(kind)) /\ Empty(Nonempty(kind))
  /\ \A kind : Missing(OptionalFromStr(kind)) /\ Empty(OptionalFromStr(kind))
  /\ \A kind : Missing(OptionalReported(kind)) /\ Empty(OptionalReported(kind))
  /\ \A unit : Missing(OptionalMeasurement(unit)) /\ Empty(OptionalMeasurement(unit))
<1>1. Absent \in Generic /\ Text("") \in Generic
  BY DEF Generic
<1>2. \A kind : Missing(Opt(kind)) /\ Missing(Default(kind))
  BY <1>1 DEF Missing, Opt, Default
<1>3. \A kind : Missing(Nonempty(kind)) /\ Empty(Nonempty(kind))
  BY <1>1 DEF Missing, Empty, Nonempty, Opt
<1>4. \A kind : Missing(OptionalFromStr(kind)) /\ Empty(OptionalFromStr(kind))
  BY <1>1 DEF Missing, Empty, OptionalFromStr
<1>5. \A kind : Missing(OptionalReported(kind)) /\ Empty(OptionalReported(kind))
  BY <1>3 DEF OptionalReported
<1>6. Absent \in DOMAIN OptionalF32 /\ Text("") \in DOMAIN OptionalF32
      /\ OptionalF32[Absent] = None /\ OptionalF32[Text("")] = None
  BY <1>1 DEF OptionalF32
<1>7. \A unit : Missing(OptionalMeasurement(unit)) /\ Empty(OptionalMeasurement(unit))
  BY <1>6 DEF OptionalMeasurement, Missing, Empty
<1> QED
  BY <1>2, <1>3, <1>4, <1>5, <1>7

LEMMA BlankTables ==
  /\ \A names, kind : Missing(kind) /\ Empty(kind) => Blanks(Each(names, kind))
  /\ \A names, kind :
       Missing(kind) /\ (\A n \in names : n \in NotTexts) => Blanks(Each(names, kind))
  /\ \A n, kind : Missing(kind) /\ Empty(kind) => Blanks(n :> kind)
  /\ \A n, kind : Missing(kind) /\ n \in NotTexts => Blanks(n :> kind)
  BY DEF Blanks, Each, :>

LEMMA BlankMerged == \A a, b : Blanks(a) /\ Blanks(b) => Blanks(a @@ b)
<1> SUFFICES ASSUME NEW a, NEW b, Blanks(a), Blanks(b), NEW n \in DOMAIN (a @@ b)
             PROVE  Missing((a @@ b)[n]) /\ (n \notin NotTexts => Empty((a @@ b)[n]))
  BY DEF Blanks
<1>1. a @@ b = Merged(a, b)
  BY DEF @@
<1>2. n \in DOMAIN Merged(a, b)
  BY <1>1
<1>3. CASE n \in DOMAIN a
  BY <1>1, <1>3, MergeFirst DEF Blanks
<1>4. CASE n \notin DOMAIN a
  <2>1. n \in DOMAIN b
    BY <1>2, <1>4, MergeDomain
  <2> QED
    BY <1>1, <1>4, <2>1, MergeSecond DEF Blanks
<1> QED
  BY <1>3, <1>4

LEMMA BlankReplies ==
  /\ Blanks(MobileStatus) /\ Blanks(MobileSignal) /\ Blanks(ServingCell)
  /\ Blanks(ComponentCarrier) /\ Blanks(LteModem) /\ Blanks(LteSim)
<1>1. Blanks(MobileSignal)
  BY MissingKinds, BlankTables, BlankMerged DEF MobileSignal, NotTexts
<1>2. Blanks(ServingCell)
  BY MissingKinds, BlankTables, BlankMerged DEF ServingCell
<1>3. Blanks(ComponentCarrier)
  BY MissingKinds, BlankTables, BlankMerged DEF ComponentCarrier, NotTexts
<1>4. Blanks(LteModem) /\ Blanks(LteSim)
  BY MissingKinds, BlankTables DEF LteModem, LteSim
<1>5. Blanks(MobileStatus)
  BY <1>1, <1>2, <1>3, MissingKinds, BlankTables, BlankMerged DEF MobileStatus, NotTexts
<1> QED
  BY <1>1, <1>2, <1>3, <1>4, <1>5

(* A modem that is not detected yet is a status without what is missing or *)
(* blank, in each of the six declarations.                                 *)
THEOREM BlanksAreTolerated == ASSUME Replies = Declarations PROVE Spec => []BeforeDetection
<1>1. ASSUME Inv PROVE BeforeDetection
  <2> SUFFICES ASSUME type \in {"MobileStatus", "MobileSignal", "ServingCell", "ComponentCarrier",
                                "LteModem", "LteSim"},
                      kept # Waiting,
                      \A n \in changed :
                        reply[n] = Absent \/ (reply[n] = Text("") /\ n \notin NotTexts)
               PROVE  IsKept /\ \A n \in changed : kept.members[n] = None
    BY DEF BeforeDetection
  <2>1. Blanks(Kinds) /\ type # "MobileInterface"
    <3>1. Kinds \in {MobileStatus, MobileSignal, ServingCell, ComponentCarrier, LteModem, LteSim}
      <4>1. /\ Declarations["MobileStatus"] = MobileStatus
            /\ Declarations["MobileSignal"] = MobileSignal
            /\ Declarations["ServingCell"] = ServingCell
            /\ Declarations["ComponentCarrier"] = ComponentCarrier
            /\ Declarations["LteModem"] = LteModem /\ Declarations["LteSim"] = LteSim
        BY DEF Declarations
      <4> QED
        BY <4>1 DEF Kinds
    <3> QED
      BY <3>1, BlankReplies
  <2>2. ASSUME NEW n \in changed PROVE n \in DOMAIN reply /\ Made(Kinds)[n] = None
    <3>1. n \in DOMAIN reply /\ n \in DOMAIN Kinds /\ type \in Types
      BY <1>1, <2>2 DEF Inv
    <3>2. Generic \subseteq DOMAIN Kinds[n]
      BY <3>1, RepliesAssumption DEF Kinds, Types
    <3>3. Kinds[n][Absent] = None /\ (n \notin NotTexts => Kinds[n][Text("")] = None)
      BY <2>1, <3>1, <3>2 DEF Blanks, Missing, Empty
    <3>4. Made(Kinds)[n] = Kinds[n][reply[n]]
      BY <3>1 DEF Made
    <3> QED
      BY <2>2, <3>1, <3>3, <3>4
  <2>3. None \notin {Refused, Panics}
    BY DEF None, Refused, Panics
  <2>4. \A n \in DOMAIN reply : ~Fails(Made(Kinds)[n])
    BY <1>1, <2>2, <2>3, UnvariedIsKept DEF Fails
  <2>5. kept = [is |-> "kept", members |-> Made(Kinds)]
    BY <1>1, <2>1, <2>4, Outcomes DEF Fails
  <2> QED
    BY <2>2, <2>5 DEF IsKept
<1> QED
  BY <1>1, SpecInv, PTL
=============================================================================

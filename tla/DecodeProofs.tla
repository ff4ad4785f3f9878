---------------------------- MODULE DecodeProofs ----------------------------
(***************************************************************************)
(* Theorems of RciDecode, for replies of any depth and width, composed of  *)
(* any strings however they are spelled.                                   *)
(***************************************************************************)
EXTENDS RciDecode, SequenceTheorems, TLAPS

-----------------------------------------------------------------------------
(* The scan.  A word found in a text is found in every text around it: the   *)
(* scan stops at nothing that comes before the word or after it.             *)

LEMMA Around ==
  ASSUME NEW u \in Seq(Symbols), NEW t \in Seq(Symbols), NEW s \in Seq(Symbols),
         NEW b, b = u \o t \o s
  PROVE  /\ b \in Seq(Symbols) /\ Len(u) \in Nat /\ Len(t) \in Nat
         /\ Len(b) >= Len(u) + Len(t)
         /\ \A i \in 1..Len(t) : Len(u) + i \in DOMAIN b /\ b[Len(u) + i] = t[i]
<1>1. PICK c : c = u \o t
  OBVIOUS
<1>2. /\ c \in Seq(Symbols) /\ Len(c) = Len(u) + Len(t) /\ Len(u) \in Nat /\ Len(t) \in Nat
      /\ \A i \in 1..Len(u) + Len(t) : c[i] = IF i <= Len(u) THEN u[i] ELSE t[i - Len(u)]
  BY <1>1, ConcatProperties, LenProperties
<1>3. /\ b \in Seq(Symbols) /\ Len(b) = Len(c) + Len(s) /\ Len(s) \in Nat
      /\ \A i \in 1..Len(c) + Len(s) : b[i] = IF i <= Len(c) THEN c[i] ELSE s[i - Len(c)]
  BY <1>1, <1>2, ConcatProperties, LenProperties
<1>4. DOMAIN b = 1..Len(b)
  BY <1>3, LenProperties
<1>5. ASSUME NEW i \in 1..Len(t)
      PROVE  Len(u) + i \in DOMAIN b /\ b[Len(u) + i] = t[i]
  <2>1. Len(u) + i \in 1..Len(u) + Len(t) /\ Len(u) + i \in 1..Len(b) /\ ~(Len(u) + i <= Len(u))
    BY <1>2, <1>3
  <2>2. b[Len(u) + i] = c[Len(u) + i] /\ c[Len(u) + i] = t[Len(u) + i - Len(u)]
    BY <1>2, <1>3, <2>1
  <2>3. Len(u) + i - Len(u) = i
    BY <1>2
  <2> QED
    BY <1>4, <2>1, <2>2, <2>3
<1> QED
  BY <1>2, <1>3, <1>5

LEMMA FoundAround ==
  ASSUME NEW u \in Seq(Symbols), NEW t \in Seq(Symbols), NEW s \in Seq(Symbols),
         NEW W, NEW w \in Seq(W), ContainsJsonString(t, w)
  PROVE  ContainsJsonString(u \o t \o s, w)
<1>1. PICK b : b = u \o t \o s
  OBVIOUS
<1>2. /\ Len(u) \in Nat /\ Len(t) \in Nat /\ Len(b) \in Nat /\ Len(b) >= Len(u) + Len(t)
      /\ \A i \in 1..Len(t) : Len(u) + i \in DOMAIN b /\ b[Len(u) + i] = t[i]
  BY <1>1, Around, LenProperties
<1>3. DOMAIN t = 1..Len(t) /\ Len(w) \in Nat /\ DOMAIN w = 1..Len(w)
  BY LenProperties
<1>4. ASSUME NEW i \in DOMAIN t, i + Len(w) < Len(t)
      PROVE  /\ Len(u) + i \in DOMAIN b /\ b[Len(u) + i] = t[i]
             /\ Len(u) + i + Len(w) < Len(b)
             /\ b[Len(u) + i + Len(w) + 1] = t[i + Len(w) + 1]
             /\ \A k \in DOMAIN w : b[Len(u) + i + k] = t[i + k]
  <2>1. i \in Nat /\ i > 0 /\ i + Len(w) + 1 \in 1..Len(t)
    BY <1>2, <1>3, <1>4
  <2>2. Len(u) + (i + Len(w) + 1) = Len(u) + i + Len(w) + 1
    BY <1>2, <1>3, <2>1
  <2>3. ASSUME NEW k \in DOMAIN w
        PROVE  i + k \in 1..Len(t) /\ Len(u) + (i + k) = Len(u) + i + k
    <3>1. k \in Nat /\ k > 0 /\ k <= Len(w) /\ Len(w) \in Nat /\ Len(u) \in Nat /\ Len(t) \in Nat
      BY <1>2, <1>3
    <3> QED
      BY ONLY <1>4, <2>1, <3>1
  <2>4. Len(u) + i + Len(w) < Len(b)
    BY <1>2, <1>3, <1>4, <2>1
  <2>5. Len(u) + i \in DOMAIN b /\ b[Len(u) + i] = t[i]
    BY <1>2, <1>3
  <2>6. b[Len(u) + i + Len(w) + 1] = t[i + Len(w) + 1]
    <3>1. b[Len(u) + (i + Len(w) + 1)] = t[i + Len(w) + 1]
      BY <1>2, <2>1
    <3> QED
      BY ONLY <2>2, <3>1
  <2>7. \A k \in DOMAIN w : b[Len(u) + i + k] = t[i + k]
    BY <1>2, <2>3
  <2> QED
    BY <2>4, <2>5, <2>6, <2>7
<1>5. CASE ContainsLiteral(t, w)
  <2>1. PICK i \in DOMAIN t :
          /\ t[i] = Quote /\ i + Len(w) < Len(t)
          /\ \A k \in DOMAIN w : t[i + k] = Letter("raw", w[k])
          /\ t[i + Len(w) + 1] = Quote
    BY <1>5 DEF ContainsLiteral
  <2>2. /\ Len(u) + i \in DOMAIN b /\ b[Len(u) + i] = Quote
        /\ Len(u) + i + Len(w) < Len(b)
        /\ b[Len(u) + i + Len(w) + 1] = Quote
        /\ \A k \in DOMAIN w : b[Len(u) + i + k] = Letter("raw", w[k])
    BY <1>4, <2>1
  <2>3. ContainsLiteral(b, w)
    BY <2>2 DEF ContainsLiteral
  <2> QED
    BY <1>1, <2>3 DEF ContainsJsonString
<1>6. CASE /\ \E i \in DOMAIN t : t[i].form \in {"backslash", "unicode"}
           /\ \E i \in DOMAIN t : t[i] = Quote /\ JsonStringMatches(t, i, w)
  <2>1. \E i \in DOMAIN b : b[i].form \in {"backslash", "unicode"}
    BY <1>2, <1>3, <1>6
  <2>2. PICK i \in DOMAIN t : t[i] = Quote /\ JsonStringMatches(t, i, w)
    BY <1>6
  <2>3. JsonStringMatches(b, Len(u) + i, w) /\ Len(u) + i \in DOMAIN b /\ b[Len(u) + i] = Quote
    BY <1>4, <2>2 DEF JsonStringMatches
  <2> QED
    BY <1>1, <2>1, <2>3 DEF ContainsJsonString
<1> QED
  BY <1>5, <1>6 DEF ContainsJsonString

(* It finds a word in a string that spells it, however it is written.        *)
LEMMA FoundWhereSpelled ==
  ASSUME NEW written \in Seq(Symbols), NEW W, NEW w \in Seq(W), Spells(written, w)
  PROVE  /\ StringText(written) \in Seq(Symbols)
         /\ ContainsJsonString(StringText(written), w)
<1>1. PICK q : q = <<Quote>>
  OBVIOUS
<1>2. q \in Seq(Symbols) /\ Len(q) = 1 /\ q[1] = Quote
  <2>1. Quote \in Symbols
    BY DEF Symbols
  <2> QED
    BY <1>1, <2>1
<1>3. PICK c : c = q \o written
  OBVIOUS
<1>4. PICK t : t = c \o q
  OBVIOUS
<1>5. Len(written) \in Nat /\ DOMAIN written = 1..Len(written)
  BY LenProperties
<1>6. /\ c \in Seq(Symbols) /\ Len(c) = 1 + Len(written)
      /\ \A i \in 1..1 + Len(written) : c[i] = IF i <= 1 THEN q[i] ELSE written[i - 1]
  <2>1. /\ c \in Seq(Symbols) /\ Len(c) = Len(q) + Len(written)
        /\ \A i \in 1..Len(q) + Len(written) :
             c[i] = IF i <= Len(q) THEN q[i] ELSE written[i - Len(q)]
    BY <1>2, <1>3, ConcatProperties
  <2> QED
    BY <1>2, <2>1
<1>7. /\ t \in Seq(Symbols) /\ Len(t) = 1 + Len(written) + 1
      /\ \A i \in 1..1 + Len(written) + 1 :
           t[i] = IF i <= 1 + Len(written) THEN c[i] ELSE q[i - (1 + Len(written))]
  <2>1. /\ t \in Seq(Symbols) /\ Len(t) = Len(c) + Len(q)
        /\ \A i \in 1..Len(c) + Len(q) : t[i] = IF i <= Len(c) THEN c[i] ELSE q[i - Len(c)]
    BY ONLY <1>2, <1>4, <1>6, ConcatProperties
  <2> QED
    BY <1>2, <1>6, <2>1
<1>8. DOMAIN t = 1..1 + Len(written) + 1
  BY <1>7, LenProperties
<1>9. /\ t[1] = Quote /\ t[1 + Len(written) + 1] = Quote /\ 1 \in DOMAIN t
      /\ \A k \in DOMAIN written : t[1 + k] = written[k] /\ 1 + k \in DOMAIN t
  <2>1. t[1] = Quote /\ 1 \in DOMAIN t
    BY <1>2, <1>5, <1>6, <1>7, <1>8
  <2>2. t[1 + Len(written) + 1] = Quote
    <3>1. PICK n \in Nat : n = Len(written)
      BY <1>5
    <3>2. 1 + n + 1 \in 1..1 + n + 1 /\ ~(1 + n + 1 <= 1 + n) /\ (1 + n + 1) - (1 + n) = 1
      BY ONLY <3>1
    <3> QED
      BY ONLY <1>2, <1>7, <3>1, <3>2
  <2>3. \A k \in DOMAIN written : t[1 + k] = written[k] /\ 1 + k \in DOMAIN t
    BY <1>5, <1>6, <1>7, <1>8
  <2> QED
    BY <2>1, <2>2, <2>3
<1>10. /\ Len(w) = Len(written) /\ DOMAIN w = DOMAIN written
       /\ \A k \in DOMAIN w : /\ written[k].char = w[k] /\ written[k] \in Symbols
                              /\ written[k].form \in {"raw", "unicode"}
  <2>1. w = Spelled(written) /\ DOMAIN w = DOMAIN written
    BY DEF Spells, Spelled
  <2>2. Len(w) \in Nat /\ DOMAIN w = 1..Len(w)
    BY LenProperties
  <2>3. Len(w) = Len(written)
    BY <1>5, <2>1, <2>2
  <2> QED
    BY <1>5, <2>1, <2>3, ElementOfSeq DEF Spells, Spelled
<1>11. t = StringText(written)
  BY <1>1, <1>3, <1>4 DEF StringText
<1>12. CASE \A k \in DOMAIN w : written[k].form = "raw"
  <2>1. \A k \in DOMAIN w : written[k] = Letter("raw", w[k])
    BY <1>10, <1>12 DEF Symbols, Letter, Quote, Backslash, Mark
  <2>2. /\ 1 \in DOMAIN t /\ t[1] = Quote /\ 1 + Len(w) < Len(t)
        /\ t[1 + Len(w) + 1] = Quote
        /\ \A k \in DOMAIN w : t[1 + k] = Letter("raw", w[k])
    BY <1>5, <1>7, <1>9, <1>10, <2>1
  <2>3. ContainsLiteral(t, w)
    BY <2>2 DEF ContainsLiteral
  <2> QED
    BY <1>7, <1>11, <2>3 DEF ContainsJsonString
<1>13. CASE \E k \in DOMAIN w : written[k].form = "unicode"
  <2>1. \E i \in DOMAIN t : t[i].form \in {"backslash", "unicode"}
    BY <1>9, <1>10, <1>13
  <2>2. JsonStringMatches(t, 1, w)
    BY <1>5, <1>7, <1>9, <1>10 DEF JsonStringMatches
  <2> QED
    BY <1>7, <1>9, <1>11, <2>1, <2>2 DEF ContainsJsonString
<1> QED
  BY <1>10, <1>12, <1>13

-----------------------------------------------------------------------------
(* What is composed.  Wherever the code would find an error, could it look   *)
(* there, the text already makes it look: the words are in the text of an    *)
(* error object, and stay in that of the list and of all that holds it.      *)

Sees(v) ==
  /\ v.kind = "string" => v.text = StringText(v.written)
  /\ v.lists => v.kind = "array"
  /\ v.error \/ v.lists \/ v.collected => NeedsRciInspection(v.text)

LEMMA Words ==
  /\ Status \in Seq({"s", "t"}) /\ Error \in Seq({"e", "r"})
  /\ \A name \in Names : name \in Seq(Symbols)
  /\ \A t \in Texts : t \in Seq(Symbols)
BY StringsAssumption DEF Status, Error

LEMMA FoundBeside ==
  ASSUME NEW t \in Seq(Symbols), NEW u \in Seq(Symbols), NEW w \in {Status, Error}
  PROVE  /\ t \o u \in Seq(Symbols)
         /\ ContainsJsonString(t, w) \/ ContainsJsonString(u, w) => ContainsJsonString(t \o u, w)
<1>1. /\ <<>> \in Seq(Symbols) /\ <<>> \o t = t
      /\ t \o u \in Seq(Symbols) /\ (t \o u) \o <<>> = t \o u
  BY ConcatProperties, ConcatEmptySeq
<1>2. PICK W : w \in Seq(W)
  BY Words
<1>3. ContainsJsonString(t, w) => ContainsJsonString(<<>> \o t \o u, w)
  BY <1>1, <1>2, FoundAround
<1>4. ContainsJsonString(u, w) => ContainsJsonString(t \o u \o <<>>, w)
  BY <1>1, <1>2, FoundAround
<1> QED
  BY <1>1, <1>3, <1>4

LEMMA Marks ==
  /\ <<Mark>> \in Seq(Symbols) /\ <<Mark, Mark>> \in Seq(Symbols)
  /\ \A written \in Seq(Symbols) : StringText(written) \in Seq(Symbols)
<1>1. Mark \in Symbols /\ Quote \in Symbols
  BY DEF Symbols
<1>2. <<Quote>> \in Seq(Symbols)
  BY <1>1
<1>3. ASSUME NEW written \in Seq(Symbols)
      PROVE  StringText(written) \in Seq(Symbols)
  BY <1>2, ConcatProperties DEF StringText
<1> QED
  BY <1>1, <1>3

LEMMA Beginnings ==
  ASSUME NEW v \in {Null, EmptyArray, EmptyObject} \cup {String(t) : t \in Texts}
  PROVE  v \in Part /\ Sees(v) /\ ~v.collected
<1>1. <<>> \in Seq(Symbols)
  OBVIOUS
<1>2. ASSUME NEW kind \in Kinds \ {"string"}, NEW text \in Seq(Symbols), v = Plain(kind, text)
      PROVE  v \in Part /\ Sees(v) /\ ~v.collected
  BY <1>1, <1>2 DEF Plain, Part, Sees
<1>3. ASSUME NEW t \in Texts, v = String(t)
      PROVE  v \in Part /\ Sees(v) /\ ~v.collected
  <2>1. t \in Seq(Symbols) /\ StringText(t) \in Seq(Symbols)
    BY Words, Marks
  <2> QED
    BY <1>1, <1>3, <2>1 DEF String, Plain, Part, Kinds, Sees
<1>4. CASE v \in {Null, EmptyArray, EmptyObject}
  BY <1>2, <1>4, Marks DEF Null, EmptyArray, EmptyObject, Kinds
<1> QED
  BY <1>3, <1>4

LEMMA Items ==
  ASSUME NEW array \in Part, Sees(array), array.kind = "array", NEW v \in Part, Sees(v),
         NEW w, w = WithItem(array, v)
  PROVE  w \in Part /\ Sees(w) /\ (w.collected <=> array.collected \/ v.collected)
<1>1. PICK t : t = array.text \o v.text \o <<Mark>>
  OBVIOUS
<1>2. /\ array.text \in Seq(Symbols) /\ v.text \in Seq(Symbols) /\ <<Mark>> \in Seq(Symbols)
      /\ <<>> \in Seq(Symbols)
  BY Marks DEF Part
<1>3. /\ t \in Seq(Symbols)
      /\ \A x \in {Status, Error} :
           ContainsJsonString(array.text, x) \/ ContainsJsonString(v.text, x)
           => ContainsJsonString(t, x)
  <2>1. PICK a : a = array.text \o v.text
    OBVIOUS
  <2>2. t = a \o <<Mark>>
    BY <1>1, <2>1
  <2>3. /\ a \in Seq(Symbols)
        /\ \A x \in {Status, Error} :
             ContainsJsonString(array.text, x) \/ ContainsJsonString(v.text, x)
             => ContainsJsonString(a, x)
    BY ONLY <1>2, <2>1, FoundBeside
  <2>4. /\ t \in Seq(Symbols)
        /\ \A x \in {Status, Error} : ContainsJsonString(a, x) => ContainsJsonString(t, x)
    BY ONLY <1>2, <2>2, <2>3, FoundBeside
  <2> QED
    BY <2>3, <2>4
<1>4. /\ w \in Part /\ w.kind = "array" /\ w.text = t /\ w.error = array.error
      /\ w.lists = (array.lists \/ v.error)
      /\ w.collected = (array.collected \/ v.collected)
  BY <1>1, <1>3 DEF WithItem, Part
<1> QED
  BY <1>3, <1>4 DEF Sees, NeedsRciInspection

LEMMA Members ==
  ASSUME NEW object \in Part, Sees(object), object.kind = "object",
         NEW name \in Names, NEW v \in Part, Sees(v),
         NEW w, w = WithMember(object, name, v)
  PROVE  /\ w \in Part /\ Sees(w)
         /\ w.collected <=> object.collected \/ v.collected \/ (Spells(name, Status) /\ v.lists)
<1>1. PICK t : t = object.text \o StringText(name) \o <<Mark>> \o v.text \o <<Mark>>
  OBVIOUS
<1>2. /\ object.text \in Seq(Symbols) /\ v.text \in Seq(Symbols) /\ <<Mark>> \in Seq(Symbols)
      /\ name \in Seq(Symbols) /\ StringText(name) \in Seq(Symbols)
      /\ v.written \in Seq(Symbols)
  BY Marks, Words DEF Part
<1>3. /\ t \in Seq(Symbols)
      /\ \A x \in {Status, Error} :
           \/ ContainsJsonString(object.text, x)
           \/ ContainsJsonString(StringText(name), x)
           \/ ContainsJsonString(v.text, x)
           => ContainsJsonString(t, x)
  <2>1. PICK a : a = object.text \o StringText(name)
    OBVIOUS
  <2>2. PICK b : b = a \o <<Mark>>
    OBVIOUS
  <2>3. PICK c : c = b \o v.text
    OBVIOUS
  <2>4. t = c \o <<Mark>>
    BY <1>1, <2>1, <2>2, <2>3
  <2>5. /\ a \in Seq(Symbols)
        /\ \A x \in {Status, Error} :
             ContainsJsonString(object.text, x) \/ ContainsJsonString(StringText(name), x)
             => ContainsJsonString(a, x)
    BY ONLY <1>2, <2>1, FoundBeside
  <2>6. /\ b \in Seq(Symbols)
        /\ \A x \in {Status, Error} : ContainsJsonString(a, x) => ContainsJsonString(b, x)
    BY ONLY <1>2, <2>2, <2>5, FoundBeside
  <2>7. /\ c \in Seq(Symbols)
        /\ \A x \in {Status, Error} :
             ContainsJsonString(b, x) \/ ContainsJsonString(v.text, x)
             => ContainsJsonString(c, x)
    BY ONLY <1>2, <2>3, <2>6, FoundBeside
  <2>8. /\ t \in Seq(Symbols)
        /\ \A x \in {Status, Error} : ContainsJsonString(c, x) => ContainsJsonString(t, x)
    BY ONLY <1>2, <2>4, <2>7, FoundBeside
  <2> QED
    BY <2>5, <2>6, <2>7, <2>8
<1>4. /\ w \in Part /\ w.kind = "object" /\ w.text = t /\ w.lists = object.lists
      /\ w.error = (object.error \/ IsError(name, v))
      /\ w.collected = (object.collected \/ CollectRciErrors(name, v))
  <2>1. /\ IsError(name, v) \in BOOLEAN /\ CollectRciErrors(name, v) \in BOOLEAN
        /\ Spelled(name) \in {Spelled(n) : n \in Names}
    BY DEF IsError, CollectRciErrors, Spells, Part
  <2> QED
    BY <1>1, <1>3, <2>1 DEF WithMember, Part
<1>5. IsError(name, v) => NeedsRciInspection(t)
  <2>1. Spells(name, Status) => ContainsJsonString(StringText(name), Status)
    BY <1>2, FoundWhereSpelled, Words
  <2>2. Spells(v.written, Error) /\ v.kind = "string" => ContainsJsonString(v.text, Error)
    BY <1>2, FoundWhereSpelled, Words DEF Sees
  <2> QED
    BY <1>3, <2>1, <2>2 DEF IsError, NeedsRciInspection
<1>6. CollectRciErrors(name, v) => NeedsRciInspection(t)
  BY <1>3 DEF CollectRciErrors, Sees, NeedsRciInspection
<1>7. CollectRciErrors(name, v) <=> v.collected \/ (Spells(name, Status) /\ v.lists)
  BY DEF CollectRciErrors, Sees
<1> QED
  BY <1>3, <1>4, <1>5, <1>6, <1>7 DEF Sees, NeedsRciInspection

-----------------------------------------------------------------------------
(* The invariant: the parts are what is composed above, an entry would be    *)
(* collected from one of them just when the router has reported an error,    *)
(* and a result is that of the one part that is left.                        *)

Collected == \E i \in 1..Len(parts) : parts[i].collected

Inv ==
  /\ parts \in Seq(Part)
  /\ \A i \in 1..Len(parts) : Sees(parts[i])
  /\ reported = Collected
  /\ JudgedByContent

(* A step of the router takes the last parts but the first m, and leaves one *)
(* in their place.                                                           *)
LEMMA ComposePreserves ==
  ASSUME Inv, NEW m \in 0..Len(parts), NEW others, NEW v \in Part, Sees(v), NEW news \in BOOLEAN,
         (others = parts /\ m = Len(parts)) \/ others = SubSeq(parts, 1, m),
         Compose(others, v),
         v.collected <=> news \/ \E i \in m+1..Len(parts) : parts[i].collected,
         reported' = (reported \/ news)
  PROVE  Inv'
<1>1. parts \in Seq(Part) /\ Len(parts) \in Nat /\ \A i \in 1..Len(parts) : parts[i] \in Part
  BY LenProperties, ElementOfSeq DEF Inv
<1>2. others \in Seq(Part) /\ Len(others) = m /\ \A i \in 1..m : others[i] = parts[i]
  <2>1. CASE others = parts /\ m = Len(parts)
    BY <1>1, <2>1
  <2>2. CASE others = SubSeq(parts, 1, m)
    BY <1>1, <2>2, SubSeqProperties
  <2> QED
    BY <2>1, <2>2
<1>3. /\ parts' \in Seq(Part) /\ Len(parts') = m + 1 /\ parts'[m + 1] = v
      /\ \A i \in 1..m : parts'[i] = parts[i]
  BY <1>2, AppendProperties DEF Compose
<1>4. \A i \in 1..m + 1 : i = m + 1 \/ i \in 1..m
  BY <1>1
<1>5. ASSUME NEW i \in 1..Len(parts')
      PROVE  Sees(parts'[i])
  BY <1>1, <1>3, <1>4 DEF Inv
<1>6. Collected' <=> v.collected \/ \E i \in 1..m : parts[i].collected
  BY <1>1, <1>3, <1>4 DEF Collected
<1>7. Collected <=> \/ \E i \in 1..m : parts[i].collected
                    \/ \E i \in m+1..Len(parts) : parts[i].collected
  BY <1>1 DEF Collected
<1>8. reported' = Collected'
  BY <1>6, <1>7 DEF Inv, Collected
<1>9. JudgedByContent'
  BY DEF Compose, JudgedByContent
<1> QED
  BY <1>3, <1>5, <1>8, <1>9, SMT DEF Inv, Sees

LEMMA Tops ==
  ASSUME Inv
  PROVE  /\ Len(parts) \in Nat
         /\ Len(parts) > 0 => Last \in Part /\ Sees(Last)
         /\ Len(parts) > 1 => Previous \in Part /\ Sees(Previous)
BY LenProperties, ElementOfSeq DEF Inv, Last, Previous

LEMMA BeginPreserves == Inv /\ Begin => Inv'
<1> SUFFICES ASSUME Inv, Begin PROVE Inv'
  OBVIOUS
<1>1. PICK v \in {Null, EmptyArray, EmptyObject} \cup {String(t) : t \in Texts} : Compose(parts, v)
  BY DEF Begin
<1>2. v \in Part /\ Sees(v) /\ ~v.collected
  BY Beginnings
<1>3. Len(parts) \in 0..Len(parts) /\ ~\E i \in Len(parts)+1..Len(parts) : parts[i].collected
  BY Tops
<1>4. reported' = (reported \/ FALSE)
  BY DEF Begin, Inv, Collected
<1> QED
  BY <1>1, <1>2, <1>3, <1>4, ComposePreserves

LEMMA AddItemPreserves == Inv /\ AddItem => Inv'
<1> SUFFICES ASSUME Inv, AddItem PROVE Inv'
  OBVIOUS
<1>1. EmptyArray \in Part /\ Sees(EmptyArray) /\ ~EmptyArray.collected /\ EmptyArray.kind = "array"
  BY Beginnings DEF EmptyArray, Plain
<1>2. reported' = (reported \/ FALSE) /\ Len(parts) \in Nat
  BY Tops DEF AddItem, Inv, Collected
<1>3. CASE Len(parts) > 0 /\ Compose(Without(1), WithItem(EmptyArray, Last))
  <2>1. PICK w : w = WithItem(EmptyArray, Last)
    OBVIOUS
  <2>2. w \in Part /\ Sees(w) /\ (w.collected <=> Last.collected)
    BY <1>1, <1>3, <2>1, Items, Tops
  <2>3. Len(parts) - 1 \in 0..Len(parts) /\ (Len(parts) - 1)+1..Len(parts) = {Len(parts)}
    BY <1>2, <1>3
  <2>4. w.collected <=> FALSE \/ \E i \in (Len(parts) - 1)+1..Len(parts) : parts[i].collected
    BY <2>2, <2>3 DEF Last
  <2> QED
    BY <1>2, <1>3, <2>1, <2>2, <2>3, <2>4, ComposePreserves DEF Without
<1>4. CASE /\ Len(parts) > 1 /\ Previous.kind = "array"
           /\ Compose(Without(2), WithItem(Previous, Last))
  <2>1. PICK w : w = WithItem(Previous, Last)
    OBVIOUS
  <2>2. w \in Part /\ Sees(w) /\ (w.collected <=> Previous.collected \/ Last.collected)
    BY <1>4, <2>1, Items, Tops
  <2>3. /\ Len(parts) - 2 \in 0..Len(parts)
        /\ (Len(parts) - 2)+1..Len(parts) = {Len(parts) - 1, Len(parts)}
    BY <1>2, <1>4
  <2>4. w.collected <=> FALSE \/ \E i \in (Len(parts) - 2)+1..Len(parts) : parts[i].collected
    BY <2>2, <2>3 DEF Last, Previous
  <2> QED
    BY <1>2, <1>4, <2>1, <2>2, <2>3, <2>4, ComposePreserves DEF Without
<1> QED
  BY <1>3, <1>4 DEF AddItem

LEMMA AddMemberPreserves == Inv /\ AddMember => Inv'
<1> SUFFICES ASSUME Inv, AddMember PROVE Inv'
  OBVIOUS
<1>1. /\ EmptyObject \in Part /\ Sees(EmptyObject) /\ ~EmptyObject.collected
      /\ EmptyObject.kind = "object"
  BY Beginnings DEF EmptyObject, Plain
<1>2. PICK name \in Names :
        /\ \/ Len(parts) > 0 /\ Compose(Without(1), WithMember(EmptyObject, name, Last))
           \/ /\ Len(parts) > 1 /\ NewName(Previous, name)
              /\ Compose(Without(2), WithMember(Previous, name, Last))
        /\ reported' = (reported \/ (Spells(name, Status) /\ Last.lists))
  BY DEF AddMember
<1>3. PICK news : news = (Spells(name, Status) /\ Last.lists)
  OBVIOUS
<1>4. Len(parts) \in Nat /\ Last \in Part /\ Sees(Last) /\ news \in BOOLEAN
  BY <1>2, <1>3, Tops DEF Spells, Part
<1>5. CASE Len(parts) > 0 /\ Compose(Without(1), WithMember(EmptyObject, name, Last))
  <2>1. PICK w : w = WithMember(EmptyObject, name, Last)
    OBVIOUS
  <2>2. w \in Part /\ Sees(w) /\ (w.collected <=> Last.collected \/ news)
    BY <1>1, <1>3, <1>4, <2>1, Members
  <2>3. Len(parts) - 1 \in 0..Len(parts) /\ (Len(parts) - 1)+1..Len(parts) = {Len(parts)}
    BY <1>4, <1>5
  <2>4. w.collected <=> news \/ \E i \in (Len(parts) - 1)+1..Len(parts) : parts[i].collected
    BY <2>2, <2>3 DEF Last
  <2> QED
    BY <1>2, <1>3, <1>4, <1>5, <2>1, <2>2, <2>3, <2>4, ComposePreserves DEF Without
<1>6. CASE /\ Len(parts) > 1 /\ NewName(Previous, name)
           /\ Compose(Without(2), WithMember(Previous, name, Last))
  <2>1. PICK w : w = WithMember(Previous, name, Last)
    OBVIOUS
  <2>2. w \in Part /\ Sees(w) /\ (w.collected <=> Previous.collected \/ Last.collected \/ news)
    BY <1>3, <1>4, <1>6, <2>1, Members, Tops DEF NewName
  <2>3. /\ Len(parts) - 2 \in 0..Len(parts)
        /\ (Len(parts) - 2)+1..Len(parts) = {Len(parts) - 1, Len(parts)}
    BY <1>4, <1>6
  <2>4. w.collected <=> news \/ \E i \in (Len(parts) - 2)+1..Len(parts) : parts[i].collected
    BY <2>2, <2>3 DEF Last, Previous
  <2> QED
    BY <1>2, <1>3, <1>4, <1>6, <2>1, <2>2, <2>3, <2>4, ComposePreserves DEF Without
<1> QED
  BY <1>2, <1>5, <1>6

(* On either path: if the scan chooses the typed one, there is nothing to    *)
(* collect, so no error is lost.                                             *)
LEMMA DecodePreserves == Inv /\ DecodeJsonResponse => Inv'
<1> SUFFICES ASSUME Inv, DecodeJsonResponse PROVE Inv'
  OBVIOUS
<1>1. PICK shape \in {"whole", "cut", "trailed"}, fits \in BOOLEAN :
        \E result \in Decode(Last, shape, fits) :
          reply' = [shape |-> shape, fits |-> fits, result |-> result]
  BY DEF DecodeJsonResponse
<1>2. PICK result \in Decode(Last, shape, fits) :
        reply' = [shape |-> shape, fits |-> fits, result |-> result]
  BY <1>1
<1>3. Len(parts) = 1 /\ UNCHANGED <<parts, steps, reported>>
  BY DEF DecodeJsonResponse
<1>4. Last \in Part /\ Sees(Last) /\ reported = Last.collected
  <2>1. Last = parts[1] /\ Last \in Part /\ Sees(Last)
    BY <1>3, Tops DEF Last
  <2>2. Collected <=> Last.collected
    BY <1>3, <2>1 DEF Collected
  <2>3. Last.collected \in BOOLEAN /\ reported = Collected
    BY <2>1 DEF Part, Inv
  <2> QED
    BY <2>1, <2>2, <2>3 DEF Collected
<1>5. CASE shape = "whole"
  <2>1. CASE NeedsRciInspection(Last.text)
    <3>1. result \in Inspected(Last, shape, fits)
      BY <1>2, <1>5, <2>1 DEF Decode
    <3>2. result = IF reported THEN "Rci" ELSE IF fits THEN "Ok" ELSE "ResponseDeserialization"
      BY <1>4, <1>5, <3>1 DEF Inspected
    <3> QED
      BY <1>2, <1>3, <1>5, <3>2 DEF JudgedByContent, Inv, Collected
  <2>2. CASE ~NeedsRciInspection(Last.text)
    <3>1. result \in Typed(shape, fits) /\ ~reported
      BY <1>2, <1>4, <1>5, <2>2 DEF Decode, Sees
    <3>2. result = IF fits THEN "Ok" ELSE "ResponseDeserialization"
      BY <1>5, <3>1 DEF Typed
    <3> QED
      BY <1>2, <1>3, <1>5, <3>1, <3>2 DEF JudgedByContent, Inv, Collected
  <2> QED
    BY <2>1, <2>2
<1>6. CASE shape # "whole"
  BY <1>2, <1>3, <1>6 DEF JudgedByContent, Inv, Collected
<1> QED
  BY <1>5, <1>6

LEMMA Invariance == Spec => []Inv
<1>1. Init => Inv
  <2> SUFFICES ASSUME Init PROVE Inv
    OBVIOUS
  <2>1. parts = <<>> /\ parts \in Seq(Part) /\ Len(parts) = 0 /\ reported = FALSE
    BY DEF Init
  <2>2. reply.result = "none"
    BY DEF Init
  <2>3. \A i \in 1..Len(parts) : FALSE
    BY <2>1
  <2>4. reported = Collected
    BY <2>1, <2>3, Zenon DEF Collected
  <2> QED
    BY <2>1, <2>2, <2>3, <2>4 DEF Inv, JudgedByContent
<1>2. Inv /\ [Next]_vars => Inv'
  <2>1. Inv /\ UNCHANGED vars => Inv'
    BY DEF vars, Inv, Collected, JudgedByContent
  <2> QED
    BY <2>1, BeginPreserves, AddItemPreserves, AddMemberPreserves, DecodePreserves
    DEF Next, Decoded
<1> QED
  BY <1>1, <1>2, PTL DEF Spec

-----------------------------------------------------------------------------
(* Whether the words are written plainly or with escapes, and whatever       *)
(* strings, lists and objects are around them, the scan hides no error that  *)
(* the router reports, and finds none that it does not: the result of a      *)
(* whole reply is that of its content.                                       *)
THEOREM RepliesAreJudged == Spec => []JudgedByContent
BY Invariance, PTL DEF Inv
=============================================================================

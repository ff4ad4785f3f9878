--------------------------- MODULE RequestsProofs ---------------------------
(***************************************************************************)
(* Proofs about RciPath and Requests, for paths of every length, any data  *)
(* of the callers and any part of it that cannot be serialized.            *)
(***************************************************************************)
EXTENDS Requests, TLAPS

-----------------------------------------------------------------------------
(* Canonical paths *)

PathOK ==
  /\ value \in Seq(Symbols)
  /\ result = "accepted" => Accepted(value)

Spelling == [char : Chars \cup {"invalid"}, escaped : BOOLEAN]

(* Encoding keeps the character of a symbol, and never makes or takes a      *)
(* separator.                                                                *)
LEMMA EncodedSymbol ==
  ASSUME NEW symbol \in Symbols,
         NEW encoded, encoded = IF symbol = Slash THEN Slash ELSE Encode(symbol.char)
  PROVE  /\ symbol \in Spelling /\ encoded \in Spelling
         /\ encoded.char = symbol.char
         /\ encoded = Slash <=> symbol = Slash
         /\ encoded \notin {Symbol("?", FALSE), Symbol("\\", FALSE), Symbol("%", FALSE)}
         /\ encoded = IF encoded = Slash THEN Slash ELSE Encode(encoded.char)
<1>1. symbol \in Spelling
  <2>1. CASE symbol = Symbol("invalid", TRUE)
    BY <2>1 DEF Spelling, Symbol
  <2>2. CASE symbol \in [char : Chars, escaped : BOOLEAN]
    BY <2>2 DEF Spelling
  <2> QED
    BY <2>1, <2>2 DEF Symbols
<1>2. CASE symbol = Slash
  BY <1>1, <1>2 DEF Slash, Symbol, Spelling
<1>3. CASE symbol # Slash /\ symbol.char \in Reserved
  <2>1. encoded = [char |-> symbol.char, escaped |-> TRUE]
    BY <1>3, Zenon DEF Encode, Symbol
  <2>2. symbol.char \in Chars \cup {"invalid"}
    BY <1>1 DEF Spelling
  <2> QED
    BY <1>1, <1>3, <2>1, <2>2 DEF Spelling, Slash, Encode, Symbol
<1>4. CASE symbol # Slash /\ symbol.char \notin Reserved
  <2>1. encoded = [char |-> symbol.char, escaped |-> FALSE]
    <3>1. (symbol.char \in Reserved) = FALSE
      BY <1>4
    <3> QED
      BY <1>4, <3>1, Zenon DEF Encode, Symbol
  <2>2. /\ symbol.char \in Chars \cup {"invalid"}
        /\ symbol.char \notin {"/", "?", "\\", "%"}
    BY <1>1, <1>4 DEF Spelling, Reserved
  <2>3. encoded.char = symbol.char /\ encoded # Slash
    BY <2>1, <2>2 DEF Slash, Symbol
  <2> QED
    BY <1>1, <1>4, <2>1, <2>2, <2>3 DEF Spelling, Slash, Encode, Symbol
<1> QED
  BY <1>2, <1>3, <1>4

(* A path and its canonical spelling have the same characters, and slashes   *)
(* in the same places.                                                       *)
LEMMA CanonicalShape ==
  ASSUME NEW path \in Seq(Symbols)
  PROVE  /\ DOMAIN Canonical(path) = 1..Len(path)
         /\ Len(Canonical(path)) = Len(path)
         /\ \A i \in 1..Len(path) :
              /\ path[i] \in Symbols
              /\ Canonical(path)[i] = IF path[i] = Slash THEN Slash ELSE Encode(path[i].char)
              /\ Canonical(path)[i].char = path[i].char
              /\ Canonical(path)[i] = Slash <=> path[i] = Slash
<1>1. /\ DOMAIN Canonical(path) = 1..Len(path)
      /\ \A i \in 1..Len(path) :
           /\ path[i] \in Symbols
           /\ Canonical(path)[i] = IF path[i] = Slash THEN Slash ELSE Encode(path[i].char)
  BY DEF Canonical
<1>2. \A i \in 1..Len(path) :
        /\ Canonical(path)[i] \in Spelling
        /\ Canonical(path)[i].char = path[i].char
        /\ Canonical(path)[i] = Slash <=> path[i] = Slash
  BY <1>1, EncodedSymbol
<1>3. Canonical(path) = [i \in 1..Len(path) |-> Canonical(path)[i]]
  BY <1>1 DEF Canonical
<1>4. Canonical(path) \in Seq(Spelling)
  BY <1>2, <1>3
<1>5. Len(Canonical(path)) = Len(path)
  BY <1>1, <1>4
<1> QED
  BY <1>1, <1>2, <1>5

(* ... and so the same segments, which decode to the same texts. *)
LEMMA CanonicalSegments ==
  ASSUME NEW path \in Seq(Symbols)
  PROVE  /\ Segments(Canonical(path)) = Segments(path)
         /\ \A s \in Segments(path) : Decoded(Canonical(path), s) = Decoded(path, s)
<1>1. /\ Len(Canonical(path)) = Len(path)
      /\ \A i \in 1..Len(path) :
           /\ Canonical(path)[i].char = path[i].char
           /\ Canonical(path)[i] = Slash <=> path[i] = Slash
  BY CanonicalShape
<1>2. \A s \in (1..Len(path)+1) \X (0..Len(path)) :
        s \in Segments(Canonical(path)) <=> s \in Segments(path)
  BY <1>1 DEF Segments
<1>3. Segments(Canonical(path)) = Segments(path)
  BY <1>1, <1>2 DEF Segments
<1>4. ASSUME NEW s \in Segments(path)
      PROVE  Decoded(Canonical(path), s) = Decoded(path, s)
  <2>1. s[1] \in 1..Len(path)+1 /\ s[2] \in 0..Len(path)
    BY DEF Segments
  <2>2. \A i \in 1..(s[2] - s[1] + 1) : s[1] + i - 1 \in 1..Len(path)
    BY <2>1
  <2> QED
    BY <1>1, <2>1, <2>2 DEF Decoded
<1> QED
  BY <1>3, <1>4

(* Encoding again what is encoded changes nothing. *)
LEMMA CanonicalTwice ==
  ASSUME NEW path \in Seq(Symbols)
  PROVE  Canonical(Canonical(path)) = Canonical(path)
<1>1. \A i \in 1..Len(path) :
        Canonical(path)[i]
          = IF Canonical(path)[i] = Slash THEN Slash ELSE Encode(Canonical(path)[i].char)
  BY CanonicalShape, EncodedSymbol
<1>2. /\ DOMAIN Canonical(path) = 1..Len(path)
      /\ Canonical(path) = [i \in 1..Len(path) |-> Canonical(path)[i]]
  BY CanonicalShape DEF Canonical
<1> QED
  BY <1>1, <1>2 DEF Canonical

(* Parsing accepts the canonical spelling of what it accepts. *)
LEMMA CanonicalAccepted ==
  ASSUME NEW path \in Seq(Symbols), Accepted(path)
  PROVE  Accepted(Canonical(path))
<1>1. /\ DOMAIN Canonical(path) = 1..Len(path) /\ Len(Canonical(path)) = Len(path)
      /\ \A i \in 1..Len(path) : Canonical(path)[i] = Slash <=> path[i] = Slash
  BY CanonicalShape
<1>2. Canonical(path) # <<>> /\ Canonical(path)[1] # Slash
  <2>1. Len(path) > 0 /\ path[1] # Slash
    BY DEF Accepted
  <2> QED
    BY <1>1, <2>1
<1>3. \A i \in 1..Len(path) :
        Canonical(path)[i] \notin {Symbol("?", FALSE), Symbol("\\", FALSE), Symbol("%", FALSE)}
  <2> SUFFICES ASSUME NEW i \in 1..Len(path)
               PROVE  Canonical(path)[i]
                        \notin {Symbol("?", FALSE), Symbol("\\", FALSE), Symbol("%", FALSE)}
    OBVIOUS
  <2>1. /\ path[i] \in Symbols
        /\ Canonical(path)[i] = IF path[i] = Slash THEN Slash ELSE Encode(path[i].char)
    BY CanonicalShape
  <2> QED
    BY <2>1, EncodedSymbol
<1>4. ~StartsWithNamespace(Canonical(Canonical(path)))
  BY CanonicalTwice DEF Accepted
<1>5. ~StartsWithNamespace(Canonical(path))
  BY DEF Accepted
<1>6. ASSUME NEW s \in Segments(Canonical(path))
      PROVE  ValidSegment(Canonical(path), s)
  <2>1. s \in Segments(path) /\ ValidSegment(path, s)
    BY CanonicalSegments DEF Accepted
  <2>2. Decoded(Canonical(path), s) = Decoded(path, s)
    BY <2>1, CanonicalSegments
  <2>3. s[1] \in 1..Len(path)+1 /\ s[2] \in 0..Len(path)
    BY <2>1 DEF Segments
  <2>4. \A i \in s[1]..s[2] : i \in 1..Len(path)
    BY <2>3
  <2>5. \A i \in s[1]..s[2] :
          Canonical(path)[i].char = path[i].char /\ Canonical(path)[i] # Symbol("%", FALSE)
    BY <1>3, <2>4, CanonicalShape
  <2> QED
    BY <2>1, <2>2, <2>5 DEF ValidSegment
<1> QED
  BY <1>1, <1>2, <1>3, <1>4, <1>5, <1>6 DEF Accepted
-----------------------------------------------------------------------------
(* The state machine *)

(* What a method prepares: a request to what was asked for, with nothing but *)
(* what it was given, or the error that this cannot be serialized.           *)
Faithful(c) ==
  \/ /\ c.prepared.is = "request"
     /\ c.prepared.context = c.asked
     /\ Context(c.asked.method, c.prepared.url.namespace, c.prepared.url.path) = c.asked
     /\ {c.prepared.url.query, c.prepared.body} \subseteq {"none", c.given} \ Bad
  \/ c.prepared = Serialization(c.asked)

CallOK ==
  /\ phase \in {"idle", "called", "sent", "returned", "dropped"}
  /\ phase = "idle" => sent = Nothing /\ outcome = Nothing
  /\ phase = "called" => sent = Nothing /\ outcome = Nothing
  /\ phase # "idle" => Faithful(call)
  /\ phase = "sent" => sent = call.prepared /\ call.prepared.is = "request"
  /\ sent # Nothing => sent = call.prepared /\ call.prepared.is = "request"
  /\ outcome \in {Nothing, [is |-> "reply"], [is |-> "authentication"]}
       \/ (outcome = call.prepared /\ outcome = Serialization(call.asked) /\ sent = Nothing)
       \/ (outcome.is \in {"transport", "http", "rci", "json", "type"}
            /\ outcome.context \in {call.asked, AuthContext("GET"), AuthContext("POST")})

Inv == PathOK /\ CallOK

LEMMA InitInv == CallInit => Inv
<1> SUFFICES ASSUME CallInit
             PROVE  Inv
  OBVIOUS
<1> QED
  BY DEF CallInit, Init, Inv, PathOK, CallOK

(* Parsing and writing a path *)
LEMMA PathStep ==
  ASSUME PathOK, Next
  PROVE  PathOK'
<1>1. CASE Write
  BY <1>1 DEF PathOK, Write
<1>2. CASE Parse
  BY <1>2 DEF PathOK, Parse
<1>3. CASE Parsed
  BY <1>3 DEF PathOK, Parsed, vars, Accepted, StartsWithNamespace
<1> QED
  BY <1>1, <1>2, <1>3 DEF Next

(* A request for what was asked, with nothing but the data, is faithful. *)
LEMMA PreparedIsFaithful ==
  ASSUME NEW method, NEW namespace, NEW path, NEW c,
         NEW query \in {"none", data} \ Bad, NEW body \in {"none", data} \ Bad,
         c.asked = Context(method, namespace, path), c.given = data,
         c.prepared = Prepare(c.asked, query, body)
  PROVE  Faithful(c)
<1>1. /\ c.asked.method = method /\ c.asked.namespace = namespace /\ c.asked.path = path
  BY DEF Context
<1>2. /\ c.prepared.is = "request" /\ c.prepared.context = c.asked
      /\ c.prepared.url.namespace = namespace /\ c.prepared.url.path = path
      /\ c.prepared.url.query = query /\ c.prepared.body = body
  BY <1>1 DEF Prepare
<1> QED
  BY <1>1, <1>2 DEF Faithful

(* Calling a method, whatever it prepares that is faithful *)
LEMMA BeginStep ==
  ASSUME CallOK, NEW method, NEW namespace, NEW path, NEW takes, NEW prepared,
         Begin(method, namespace, path, takes, prepared),
         Faithful([is |-> "call", asked |-> Context(method, namespace, path), given |-> data,
                   takes |-> takes, prepared |-> prepared])
  PROVE  CallOK' /\ UNCHANGED <<value, result>>
BY DEF CallOK, Begin, Faithful, Nothing

(* Every method prepares what is faithful. *)
LEMMA GetStep ==
  ASSUME CallOK, NEW namespace, NEW path, NEW takes, NEW query \in {"none", data} \ Bad,
         Begin("GET", namespace, path, takes, PrepareGet(namespace, path, query))
  PROVE  CallOK' /\ UNCHANGED <<value, result>>
<1> DEFINE c == [is |-> "call", asked |-> Context("GET", namespace, path), given |-> data,
                 takes |-> takes, prepared |-> PrepareGet(namespace, path, query)]
<1>1. "none" \in {"none", data} \ Bad
  BY DataAssumption
<1>2. /\ c.asked = Context("GET", namespace, path) /\ c.given = data
      /\ c.prepared = Prepare(c.asked, query, "none")
  BY DEF PrepareGet
<1>3. Faithful(c)
  <2> HIDE DEF c
  <2> QED
    BY <1>1, <1>2, PreparedIsFaithful
<1> QED
  BY <1>3, BeginStep

LEMMA PostStep ==
  ASSUME CallOK, NEW path, Begin("POST", "rci", path, "json", PostAtPath(path))
  PROVE  CallOK' /\ UNCHANGED <<value, result>>
<1> DEFINE c == [is |-> "call", asked |-> Context("POST", "rci", path), given |-> data,
                 takes |-> "json", prepared |-> PostAtPath(path)]
<1>1. "none" \in {"none", data} \ Bad
  BY DataAssumption
<1>2. c.asked = Context("POST", "rci", path) /\ c.given = data /\ c.prepared = PostAtPath(path)
  OBVIOUS
<1>3. Faithful(c)
  <2> HIDE DEF c
  <2>1. CASE data \in Bad
    BY <1>2, <2>1 DEF PostAtPath, Faithful
  <2>2. CASE data \notin Bad
    <3>1. c.prepared = Prepare(c.asked, "none", data) /\ data \in {"none", data} \ Bad
      BY <1>2, <2>2 DEF PostAtPath
    <3> QED
      BY <1>1, <1>2, <3>1, PreparedIsFaithful
  <2> QED
    BY <2>1, <2>2
<1> QED
  BY <1>3, BeginStep

LEMMA MethodStep ==
  ASSUME CallOK,
         \/ Execute \/ ExecuteInterfaceStat \/ ExecuteInterface \/ StartNetworkTest
         \/ Get \/ GetWithQuery \/ ExecuteCli \/ Post \/ PostAt
  PROVE  CallOK' /\ UNCHANGED <<value, result>>
<1>0. "none" \in {"none", data} \ Bad
  BY DataAssumption
<1>1. CASE Execute
  BY <1>0, <1>1, GetStep DEF Execute
<1>2. CASE ExecuteInterfaceStat
  BY <1>2, GetStep DEF ExecuteInterfaceStat
<1>3. CASE ExecuteInterface
  <2> DEFINE prepared == Prepare(Context("POST", "rci", <<>>), "none", data)
             c == [is |-> "call", asked |-> Context("POST", "rci", <<>>), given |-> data,
                   takes |-> "json", prepared |-> prepared]
  <2>1. data \in {"none", data} \ Bad /\ Begin("POST", "rci", <<>>, "json", prepared)
    BY <1>3 DEF ExecuteInterface
  <2>2. /\ c.asked = Context("POST", "rci", <<>>) /\ c.given = data
        /\ c.prepared = Prepare(c.asked, "none", data)
    OBVIOUS
  <2>3. Faithful(c)
    <3> HIDE DEF c
    <3> QED
      BY <1>0, <2>1, <2>2, PreparedIsFaithful
  <2> HIDE DEF prepared
  <2> QED
    BY <2>1, <2>3, BeginStep
<1>4. CASE StartNetworkTest
  BY <1>4, PostStep DEF StartNetworkTest
<1>5. CASE Get
  BY <1>0, <1>5, GetStep DEF Get
<1>6. CASE GetWithQuery
  <2> DEFINE path == Canonical(value)
  <2>1. CASE data \notin Bad
    <3>1. Begin("GET", "rci", path, "json", PrepareGet("rci", path, data))
      BY <1>6, <2>1 DEF GetWithQuery
    <3> QED
      BY <2>1, <3>1, GetStep
  <2>2. CASE data \in Bad
    <3> DEFINE c == [is |-> "call", asked |-> Context("GET", "rci", path), given |-> data,
                     takes |-> "json", prepared |-> Serialization(Context("GET", "rci", path))]
    <3>1. Begin("GET", "rci", path, "json", Serialization(Context("GET", "rci", path)))
      BY <1>6, <2>2 DEF GetWithQuery
    <3>2. Faithful(c)
      BY DEF Faithful
    <3> QED
      BY <3>1, <3>2, BeginStep
  <2> QED
    BY <2>1, <2>2
<1>7. CASE ExecuteCli
  BY <1>7, PostStep DEF ExecuteCli
<1>8. CASE Post
  BY <1>8, PostStep DEF Post
<1>9. CASE PostAt
  BY <1>9, PostStep DEF PostAt
<1> QED
  BY <1>1, <1>2, <1>3, <1>4, <1>5, <1>6, <1>7, <1>8, <1>9

(* The future: the request is the prepared one, and every error names it. *)
LEMMA FutureStep ==
  ASSUME CallOK, Change \/ Poll \/ Drop \/ Return
  PROVE  CallOK' /\ UNCHANGED <<value, result>>
<1>1. CASE Change
  BY <1>1 DEF CallOK, Change, Faithful
<1>2. CASE Poll
  <2>1. CASE call.prepared.is = "request"
    BY <1>2, <2>1 DEF CallOK, Poll, Faithful
  <2>2. CASE call.prepared.is # "request"
    <3>1. outcome' = Serialization(call.asked) /\ outcome' = call.prepared /\ sent' = Nothing
      BY <1>2, <2>2 DEF CallOK, Poll, Faithful
    <3> QED
      BY <1>2, <2>2, <3>1 DEF CallOK, Poll, Faithful
  <2> QED
    BY <2>1, <2>2
<1>3. CASE Drop
  BY <1>3 DEF CallOK, Drop, Faithful
<1>4. CASE Return
  <2>1. /\ phase' = "returned" /\ Faithful(call) /\ UNCHANGED <<value, result, data, call, sent>>
        /\ sent = call.prepared /\ call.prepared.is = "request"
    BY <1>4 DEF Return, CallOK
  <2>2. sent.context = call.asked
    <3>1. Serialization(call.asked).is # "request"
      BY DEF Serialization
    <3> QED
      BY <2>1, <3>1 DEF Faithful
  <2>3. outcome' \in Failures \cup {[is |-> "reply"]}
    BY <1>4 DEF Return
  <2>4. \/ outcome' \in {[is |-> "reply"], [is |-> "authentication"]}
        \/ /\ outcome'.is \in {"transport", "http", "rci", "json", "type"}
           /\ outcome'.context \in {call.asked, AuthContext("GET"), AuthContext("POST")}
    <3>1. CASE \E kind \in {"transport", "http", "rci", "json", "type"} :
                 outcome' = [is |-> kind, context |-> sent.context]
      BY <2>2, <3>1
    <3>2. CASE \E kind \in {"transport", "http"}, method \in {"GET", "POST"} :
                 outcome' = [is |-> kind, context |-> AuthContext(method)]
      BY <3>2
    <3>3. CASE outcome' \in {[is |-> "reply"], [is |-> "authentication"]}
      BY <3>3
    <3> QED
      BY <2>3, <3>1, <3>2, <3>3 DEF Failures
  <2> QED
    BY <2>1, <2>4 DEF CallOK, Faithful
<1> QED
  BY <1>1, <1>2, <1>3, <1>4

LEMMA NextInv ==
  ASSUME Inv, [CallNext]_allVars
  PROVE  Inv'
<1>1. CASE Next /\ UNCHANGED callVars
  <2>1. PathOK'
    BY <1>1, PathStep DEF Inv
  <2>2. CallOK'
    BY <1>1 DEF Inv, CallOK, callVars, Faithful
  <2> QED
    BY <2>1, <2>2 DEF Inv
<1>2. CASE UNCHANGED allVars
  <2>1. PathOK'
    BY <1>2 DEF Inv, PathOK, allVars, Accepted, StartsWithNamespace
  <2>2. CallOK'
    BY <1>2 DEF Inv, CallOK, Faithful, allVars, callVars
  <2> QED
    BY <2>1, <2>2 DEF Inv
<1>3. CASE CallOK' /\ UNCHANGED <<value, result>>
  BY <1>3 DEF Inv, PathOK, Accepted, StartsWithNamespace
<1>4. CASE \/ Execute \/ ExecuteInterfaceStat \/ ExecuteInterface \/ StartNetworkTest
           \/ Get \/ GetWithQuery \/ ExecuteCli \/ Post \/ PostAt
  BY <1>3, <1>4, MethodStep DEF Inv
<1>5. CASE Change \/ Poll \/ Drop \/ Return
  BY <1>3, <1>5, FutureStep DEF Inv
<1>6. CASE Over
  BY <1>2, <1>6 DEF Over
<1> QED
  BY <1>1, <1>2, <1>4, <1>5, <1>6 DEF CallNext

LEMMA Invariant == CallSpec => []Inv
BY InitInv, NextInv, PTL DEF CallSpec

-----------------------------------------------------------------------------
(* The properties *)

(* The decoded segments of an accepted path *)
LEMMA AcceptedSegments ==
  ASSUME NEW path \in Seq(Symbols), Accepted(path), NEW s \in Segments(path)
  PROVE  /\ Decoded(path, s) \notin {<<>>, <<".">>, <<".", ".">>}
         /\ \A i \in DOMAIN Decoded(path, s) :
              Decoded(path, s)[i] \notin {"/", "\\", "control"}
<1>1. /\ s[1] \in 1..Len(path)+1 /\ s[2] \in 0..Len(path)
      /\ ValidSegment(path, s)
  BY DEF Segments, Accepted
<1>2. s[1] <= s[2] /\ DOMAIN Decoded(path, s) = 1..(s[2] - s[1] + 1)
  BY <1>1 DEF ValidSegment, Decoded
<1>3. Decoded(path, s) # <<>>
  <2>1. 1 \in DOMAIN Decoded(path, s)
    BY <1>1, <1>2
  <2> QED
    BY <2>1
<1>4. ASSUME NEW i \in DOMAIN Decoded(path, s)
      PROVE  Decoded(path, s)[i] \notin {"/", "\\", "control"}
  <2>1. s[1] + i - 1 \in s[1]..s[2]
    BY <1>1, <1>2
  <2>2. Decoded(path, s)[i] = path[s[1] + i - 1].char
    BY <1>2 DEF Decoded
  <2> QED
    BY <1>1, <2>1, <2>2 DEF ValidSegment
<1> QED
  BY <1>1, <1>3, <1>4 DEF ValidSegment

(* An accepted path of any length names, as the server reads its canonical   *)
(* spelling, the segments it was written with, none of which leaves the      *)
(* namespace.                                                                *)
THEOREM PathsStayBelow == CallSpec => []StaysBelow
<1>1. ASSUME Inv
      PROVE  StaysBelow
  <2> SUFFICES ASSUME result = "accepted"
               PROVE  /\ ServerReads(Canonical(value)) = ServerReads(value)
                      /\ Segments(Canonical(value)) = Segments(value)
                      /\ \A segment \in ServerReads(Canonical(value)) :
                           /\ segment \notin {<<>>, <<".">>, <<".", ".">>}
                           /\ \A i \in DOMAIN segment :
                                segment[i] \notin {"/", "\\", "control"}
                      /\ \A i \in DOMAIN Canonical(value) :
                           Canonical(value)[i].char = "?" => Canonical(value)[i].escaped
    BY DEF StaysBelow
  <2>1. value \in Seq(Symbols) /\ Accepted(value)
    BY <1>1 DEF Inv, PathOK
  <2>2. Segments(Canonical(value)) = Segments(value)
    BY <2>1, CanonicalSegments
  <2>3. \A s \in Segments(value) : Decoded(Canonical(value), s) = Decoded(value, s)
    BY <2>1, CanonicalSegments
  <2>4. ServerReads(Canonical(value)) = ServerReads(value)
    BY <2>2, <2>3 DEF ServerReads
  <2>5. ASSUME NEW segment \in ServerReads(Canonical(value))
        PROVE  /\ segment \notin {<<>>, <<".">>, <<".", ".">>}
               /\ \A i \in DOMAIN segment : segment[i] \notin {"/", "\\", "control"}
    <3>1. PICK s \in Segments(value) : segment = Decoded(value, s)
      BY <2>4 DEF ServerReads
    <3> QED
      BY <2>1, <3>1, AcceptedSegments
  <2>6. ASSUME NEW i \in DOMAIN Canonical(value), Canonical(value)[i].char = "?"
        PROVE  Canonical(value)[i].escaped
    <3>1. Canonical(value)[i] # Slash
      BY <2>6 DEF Slash, Symbol
    <3>2. Canonical(value)[i] = Encode(value[i].char) /\ value[i].char = "?"
      BY <2>1, <2>6, <3>1, CanonicalShape
    <3>3. ("?" \in Reserved) = TRUE
      BY DEF Reserved
    <3>4. Canonical(value)[i] = [char |-> "?", escaped |-> TRUE]
      BY <3>2, <3>3, Zenon DEF Encode, Symbol
    <3> QED
      BY <3>4
  <2> QED
    BY <2>2, <2>4, <2>5, <2>6
<1> QED
  BY <1>1, Invariant, PTL

(* The canonical spelling of an accepted path of any length is accepted, and *)
(* is its own canonical spelling.                                            *)
THEOREM CanonicalIsCanonical == CallSpec => []CanonicalIsFixed
<1>1. ASSUME Inv
      PROVE  CanonicalIsFixed
  <2>1. value \in Seq(Symbols) /\ (result = "accepted" => Accepted(value))
    BY <1>1 DEF Inv, PathOK
  <2> QED
    BY <2>1, CanonicalAccepted, CanonicalTwice DEF CanonicalIsFixed
<1> QED
  BY <1>1, Invariant, PTL

(* Whatever a caller passes, and however much of it cannot be serialized, an *)
(* error names the method and endpoint that were asked for, or /auth.        *)
THEOREM ErrorsAreNamed == CallSpec => []ErrorsNameTheRequest
<1>1. ASSUME Inv
      PROVE  ErrorsNameTheRequest
  <2>1. CASE outcome \in {Nothing, [is |-> "reply"], [is |-> "authentication"]}
    <3>1. outcome.is \in {"nothing", "reply", "authentication"}
      BY <2>1 DEF Nothing
    <3> QED
      BY <3>1 DEF ErrorsNameTheRequest
  <2>2. CASE outcome = Serialization(call.asked) /\ sent = Nothing
    BY <2>2 DEF ErrorsNameTheRequest, Serialization
  <2>3. CASE /\ outcome.is \in {"transport", "http", "rci", "json", "type"}
             /\ outcome.context \in {call.asked, AuthContext("GET"), AuthContext("POST")}
    BY <2>3 DEF ErrorsNameTheRequest
  <2> QED
    BY <1>1, <2>1, <2>2, <2>3 DEF Inv, CallOK
<1> QED
  BY <1>1, Invariant, PTL

(* What is sent is what the method was asked for with what it was given at   *)
(* the call, whatever the caller makes of its data before the first poll.    *)
THEOREM SentIsAsked == CallSpec => []SentAsCalled
<1>1. ASSUME Inv
      PROVE  SentAsCalled
  <2> SUFFICES ASSUME sent # Nothing
               PROVE  /\ Context(sent.context.method, sent.url.namespace, sent.url.path)
                           = call.asked
                      /\ {sent.url.query, sent.body} \subseteq {"none", call.given} \ Bad
    BY DEF SentAsCalled
  <2>1. sent = call.prepared /\ call.prepared.is = "request" /\ Faithful(call)
    BY <1>1 DEF Inv, CallOK
  <2>2. Serialization(call.asked).is # "request"
    BY DEF Serialization
  <2> QED
    BY <2>1, <2>2 DEF Faithful
<1> QED
  BY <1>1, Invariant, PTL
=============================================================================

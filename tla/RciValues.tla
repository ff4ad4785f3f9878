----------------------------- MODULE RciValues -----------------------------
(***************************************************************************)
(* The values of src/model/: what the code makes of one member of a reply. *)
(* A kind is a function from the forms a member may take to what is kept   *)
(* of it.  A form is tagged with its JSON type or, for a string, with the  *)
(* layout of its text; what is kept is written as the form the value would *)
(* be displayed as, so that two spellings of one value are kept alike.     *)
(***************************************************************************)
EXTENDS Integers, Sequences

CONSTANTS
  U32Max, U64Max,  \* the widths, scaled down for model checking
  Numbers,         \* bound: the integers a reply may carry
  HumanUptimes,    \* bound: <<days, hours, minutes, seconds>>, as written
  ImeiDigits,      \* bound: the texts of fifteen digits
  HardwareIds      \* bound: the bytes of the texts given as hardware identifiers

ASSUME WidthAssumption ==
  U32Max \in Nat /\ U64Max \in Nat /\ 1000000000 <= U32Max /\ U32Max < U64Max

ASSUME BoundAssumption ==
  /\ Numbers \subseteq Int
  /\ HumanUptimes \subseteq Nat \X Nat \X Nat \X Nat
  /\ ImeiDigits \subseteq [1..15 -> 0..9]
  /\ HardwareIds \subseteq Seq({"K", "N", "C", "-", "0", "lead", "cont"})
  /\ \A b \in HardwareIds : \A i \in DOMAIN b :   \* a JSON text is UTF-8
       b[i] = "cont" => i > 1 /\ b[i - 1] = "lead"

-----------------------------------------------------------------------------
(* Forms *)

Absent == [is |-> "absent"]
Null == [is |-> "null"]
Object == [is |-> "object"]          \* what the nested declaration asks for
EmptyObject == [is |-> "empty"]
List == [is |-> "list"]
Flag == [is |-> "flag"]              \* true or false
Number(n) == [is |-> "number", n |-> n]
Float(size) == [is |-> "float", size |-> size]
Text(word) == [is |-> "text", word |-> word]
Digits(n) == [is |-> "digits", n |-> n]
Chars(length, class) == [is |-> "chars", length |-> length, class |-> class]
Human(t) == [is |-> "uptime", days |-> t[1], hours |-> t[2], minutes |-> t[3], seconds |-> t[4]]
Decimal(whole, fraction, length) ==
  [is |-> "decimal", whole |-> whole, fraction |-> fraction, length |-> length]
Address(family, spelling) == [is |-> "address", family |-> family, spelling |-> spelling]

(* What a member may always be: "control" stands for a text with a control  *)
(* character, "other" for any text without a layout of its own.             *)
Generic == {Absent, Null, Object, Flag, Number(1)} \cup {Text(w) : w \in {"", "other", "control"}}
Numerals ==
  {Number(n) : n \in Numbers} \cup {Digits(n) : n \in Numbers}
    \cup {Float("fraction"), Float("huge")}

(* Tables, written as with the operators of TLC's own module, which have no  *)
(* definition that can be reasoned about; the first member of a name counts. *)
Merged(f, g) == [x \in DOMAIN f \cup DOMAIN g |-> IF x \in DOMAIN f THEN f[x] ELSE g[x]]
f @@ g == Merged(f, g)
d :> e == [x \in {d} |-> e]

IsText(v) ==
  v.is \notin {"absent", "null", "object", "empty", "list", "flag", "number", "float"}

(* What is made of a member besides a value *)
Refused == [is |-> "refused"]
Panics == [is |-> "panics"]
None == [is |-> "none"]
IsValue(made) == made \notin {Refused, Panics, None}

(* The kinds of serde itself, and its treatment of a missing member *)
Accepting(forms, accepted) ==
  [v \in Generic \cup forms |-> IF v \in accepted THEN v ELSE Refused]
Bool == Accepting({}, {Flag})
Str == [v \in Generic |-> IF IsText(v) THEN v ELSE Refused]
UInt(low, high) ==
  [v \in Generic \cup Numerals |-> IF v.is = "number" /\ v.n \in low..high THEN v ELSE Refused]
Struct == Accepting({EmptyObject}, {Object})
LooseStruct == Accepting({EmptyObject}, {Object, EmptyObject})   \* no member is required
MapOf == Accepting({EmptyObject}, {Object, EmptyObject})
ListOf == Accepting({List}, {List})
Opt(kind) == [v \in DOMAIN kind |-> IF v \in {Absent, Null} THEN None ELSE kind[v]]
Default(kind) == [v \in DOMAIN kind |-> IF v = Absent THEN None ELSE kind[v]]

-----------------------------------------------------------------------------
(* Texts *)

(* Option<T> with "" for None, of a T that reads any text *)
Nonempty(kind) == [v \in DOMAIN kind |-> IF v = Text("") THEN None ELSE Opt(kind)[v]]

(* Option<T> with "" for None, of a T that is parsed from a text *)
OptionalFromAnyStr(kind) ==   \* Mutant: "" is a text to be parsed.
  [v \in DOMAIN kind |->
     IF v \in {Absent, Null} THEN None ELSE IF IsText(v) THEN kind[v] ELSE Refused]

OptionalFromStr(kind) ==
  [v \in DOMAIN kind |->
     IF v \in {Absent, Null, Text("")} THEN None
     ELSE IF IsText(v) THEN kind[v] ELSE Refused]

Open(words) ==
  [v \in Generic \cup {Text(w) : w \in words} |-> IF IsText(v) THEN v ELSE Refused]

(* A classifier matched whatever its case *)
Recased(word) == [is |-> "recased", recased |-> word]
CaseBlind(words) ==
  [v \in Generic \cup {Text(w) : w \in words} \cup {Recased(w) : w \in words} |->
     IF v.is = "recased" THEN Text(v.recased) ELSE IF IsText(v) THEN v ELSE Refused]

Identifier ==
  [v \in Generic |-> IF IsText(v) /\ v \notin {Text(""), Text("control")} THEN v ELSE Refused]

InlineAscii(class, least, capacity) ==
  [v \in Generic \cup
         {Chars(n, c) : n \in {least - 1, least, capacity, capacity + 1}, c \in {class, "mixed"}} |->
     IF v.is = "chars" /\ v.length \in least..capacity /\ v.class = class THEN v ELSE Refused]

Imsi == InlineAscii("digits", 6, 15)
Iccid == InlineAscii("digits", 19, 20)
Plmn == InlineAscii("digits", 5, 6)
HardwareModel == InlineAscii("digits", 4, 4)
HardwareVersion == InlineAscii("digits", 8, 8)
RegionCode == InlineAscii("upper", 2, 2)

(* Digits 1, 3, ... stand at the even indices of the code. *)
DoubledWhole(d) == 2 * d   \* Mutant: 10 and more are not reduced.
Doubled(d) == IF 2 * d > 9 THEN 2 * d - 9 ELSE 2 * d
Checksum(d) ==
  LET Two(i) == d[i] + Doubled(d[i + 1])
  IN Two(1) + Two(3) + Two(5) + Two(7) + Two(9) + Two(11) + Two(13) + d[15]

ImeiNumber(d) == [is |-> "imei", number |-> d]
Imei ==
  [v \in Generic \cup {ImeiNumber(d) : d \in ImeiDigits} |->
     IF v.is = "imei" /\ Checksum(v.number) % 10 = 0 THEN v ELSE Refused]

(* An identifier that is kept as it is when it cannot be parsed: "as" says   *)
(* whether it was, "reads" what it is displayed as.                          *)
AsReported(as, reads) == [is |-> "reported", as |-> as, reads |-> reads]
Reported(kind) ==
  [v \in DOMAIN kind |->
     IF ~IsText(v) THEN Refused
     ELSE IF kind[v] = Panics THEN Panics
     ELSE IF kind[v] = Refused THEN AsReported("raw", v)
     ELSE AsReported("parsed", kind[v])]

OptionalReported(kind) == Nonempty(Reported(kind))

(* A text of bytes, where a two-byte character is "lead", "cont"; slicing    *)
(* it next to a "cont" panics.                                               *)
Bytes(b) == [is |-> "bytes", bytes |-> b]
Sliceable(b, i) == i + 1 \in DOMAIN b /\ b[i + 1] # "cont"
Vendors == {<<"K", "N">>, <<"N", "C">>}
HardwareVendor == Accepting({Bytes(b) : b \in Vendors}, {Bytes(b) : b \in Vendors})

HardwareParts(b) == <<b[1], b[2]>> \in Vendors /\ \A i \in 4..7 : b[i] = "0"

(* Mutant: the parts are cut out before the separator is looked for. *)
HardwareIdSlicedFirst ==
  [v \in Generic \cup {Bytes(b) : b \in HardwareIds} |->
     IF v.is # "bytes" \/ Len(v.bytes) # 7 THEN Refused
     ELSE IF ~Sliceable(v.bytes, 2) \/ ~Sliceable(v.bytes, 3) THEN Panics
     ELSE IF v.bytes[3] = "-" /\ HardwareParts(v.bytes) THEN v ELSE Refused]

HardwareId ==
  [v \in Generic \cup {Bytes(b) : b \in HardwareIds} |->
     IF v.is # "bytes" \/ Len(v.bytes) # 7 \/ v.bytes[3] # "-" THEN Refused
     ELSE IF ~Sliceable(v.bytes, 2) \/ ~Sliceable(v.bytes, 3) THEN Panics
     ELSE IF HardwareParts(v.bytes) THEN v ELSE Refused]

(* A comma-separated list; "padded" parts are trimmed. *)
Modes(parts) == [is |-> "modes", parts |-> parts]
Trim(part) == IF part = " router " THEN "router" ELSE IF part = " " THEN "" ELSE part
Trimmed(parts) == [i \in DOMAIN parts |-> Trim(parts[i])]
SupportedModes ==
  [v \in Generic \cup {Modes(p) : p \in {"router", " router ", "other", "", " "} \X {"router", "extender", ""}} |->
     IF v.is = "modes" /\ \A i \in DOMAIN v.parts : Trimmed(v.parts)[i] # ""
     THEN Modes(Trimmed(v.parts))
     ELSE IF IsText(v) /\ v.is # "modes" /\ v # Text("") THEN v ELSE Refused]

PresenceMarker == [v \in Generic |-> IF v = Text("") THEN v ELSE Refused]

-----------------------------------------------------------------------------
(* Addresses and hosts *)

(* "variant" is another spelling of the address "plain". *)
Addresses(families) == {Address(f, s) : f \in families, s \in {"plain", "variant", "unspecified"}}
IpAddr(families) ==
  [v \in Generic \cup Addresses(families) |->
     IF v.is # "address" THEN Refused
     ELSE IF v.spelling = "variant" THEN Address(v.family, "plain") ELSE v]
IpNet(family) == Accepting({Address(family, "prefix")}, {Address(family, "prefix")})

UnspecifiedIsNone(family) ==
  [v \in DOMAIN IpAddr({family}) |->
     IF v = Address(family, "unspecified") THEN None ELSE IpAddr({family})[v]]

(* An upper-case address is kept in lower case. *)
Mac(layout) == [is |-> "mac", layout |-> layout]
MacAddress ==
  [v \in Generic \cup {Mac(l) : l \in {"lower", "upper", "short", "separator", "digit"}} |->
     IF v \in {Mac("lower"), Mac("upper")} THEN Mac("lower") ELSE Refused]

NetworkHost ==
  [v \in Generic \cup Addresses({4, 6}) |->
     IF v.is = "address" THEN IpAddr({4, 6})[v] ELSE Identifier[v]]

(* The router's own format, or RFC 3339 whose offset is dropped: either way  *)
(* the local time as it is written.                                          *)
Moment(spelling) == [is |-> "moment", spelling |-> spelling]
RouterDatetime ==
  [v \in Generic \cup {Moment("router"), Moment("offset"), Moment("other")} |->
     IF v \in {Moment("router"), Moment("offset")} THEN Moment("router") ELSE Refused]

-----------------------------------------------------------------------------
(* Amounts *)

ByteCount == UInt(0, U64Max)
SecondsOf == UInt(0, U64Max)     \* a Duration of whole seconds
McsIndex == UInt(0, 255)
ChannelWidth == UInt(0, 65535)
GuardInterval == UInt(0, 65535)
SpatialStreams == UInt(1, 255)
CpuLoad == UInt(0, 100)
Mtu == UInt(64, 65535)
SignalLevel == UInt(-(U64Max \div 2) - 1, U64Max \div 2)
OptionalNonzero ==
  [v \in DOMAIN UInt(0, 65535) |-> IF v = Number(0) THEN None ELSE UInt(0, 65535)[v]]

TextUInt(high) ==
  [v \in Generic \cup Numerals |->
     IF v.is = "digits" /\ v.n \in 0..high THEN v ELSE Refused]

(* A JSON number or a text of it *)
EitherUInt(high) ==
  [v \in Generic \cup Numerals |->
     IF v.is \in {"number", "digits"} /\ v.n \in 0..high THEN Number(v.n) ELSE Refused]

(* u64::checked_mul, checked_add *)
Overflow == -1
SaturatingMul(a, b) ==   \* Mutant
  IF a # Overflow /\ a <= U64Max \div b THEN a * b ELSE U64Max
UncheckedAdd(a, b) == IF a # Overflow THEN a + b ELSE Overflow   \* Mutant: it has no limit.

CheckedMul(a, b) == IF a # Overflow /\ a <= U64Max \div b THEN a * b ELSE Overflow
CheckedAdd(a, b) == IF a # Overflow /\ a <= U64Max - b THEN a + b ELSE Overflow

Rate(bits) == IF bits = Overflow THEN Refused ELSE [is |-> "rate", bits |-> bits]
DataRate(unit) ==
  [v \in DOMAIN ByteCount |->
     IF ByteCount[v] = Refused THEN Refused ELSE Rate(CheckedMul(v.n, unit))]

HumanSeconds(v) ==
  IF v.hours >= 24 \/ v.minutes >= 60 \/ v.seconds >= 60 THEN Overflow
  ELSE CheckedAdd(CheckedMul(CheckedAdd(CheckedMul(CheckedAdd(CheckedMul(
         v.days, 24), v.hours), 60), v.minutes), 60), v.seconds)

Uptime ==
  [v \in Generic \cup Numerals \cup {Human(t) : t \in HumanUptimes} |->
     IF v.is = "uptime"
     THEN IF HumanSeconds(v) = Overflow THEN Refused ELSE Number(HumanSeconds(v))
     ELSE IF v.is \in {"number", "digits"} THEN EitherUInt(U64Max)[v] ELSE Refused]

LeaseExpiration ==
  [v \in Generic \cup Numerals \cup {Text("infinity")} |->
     IF v = Text("infinity") THEN v
     ELSE IF v.is = "number" /\ v.n \in 0..U64Max THEN v ELSE Refused]

(* Seconds with up to nine digits of a fraction; the exponent would underflow. *)
Nanos(fraction, length) == IF length > 9 THEN Panics ELSE Number(fraction * 10^(9 - length))
Duration(whole, nanos) == [is |-> "duration", whole |-> whole, nanos |-> nanos]
DecimalDuration ==
  [v \in Generic \cup Numerals \cup {Decimal(w, 0, 0) : w \in Numbers}
           \cup {Decimal(w, f, n) : w \in Numbers, f \in {0, 9}, n \in {1, 2, 9, 10}} |->
     IF v.is = "digits" /\ v.n \in 0..U64Max
     THEN Duration(v.n, Number(0))
     ELSE IF v.is # "decimal" \/ v.whole \notin 0..U64Max \/ v.length > 9 THEN Refused
     ELSE IF Nanos(v.fraction, v.length) = Panics THEN Panics
     ELSE Duration(v.whole, Nanos(v.fraction, v.length))]

Pair(free, total) == [is |-> "pair", free |-> free, total |-> total]
MwsMemoryUsage ==
  [v \in Generic \cup {Pair(f, t) : f \in Numbers, t \in Numbers} |->
     IF v.is = "pair" /\ v.free \in 0..U64Max /\ v.total \in 0..U64Max /\ v.free <= v.total
     THEN v ELSE Refused]

(* A band of digits, one of "n" or "N" and digits, or any other text *)
Nr(n, letter) == [is |-> "nr", n |-> n, letter |-> letter]
RadioBand ==
  [v \in Generic \cup Numerals \cup {Nr(n, l) : n \in Numbers \cap Nat, l \in {"n", "N"}} |->
     IF v.is = "nr" /\ v.n <= 65535 THEN Nr(v.n, "n")
     ELSE IF IsText(v) THEN v ELSE Refused]

(* An f32: a JSON integer must fit its i32 or u32; its rounding is left out. *)
Real(n) == [is |-> "real", n |-> n]
NotFinite == {Float("huge")} \cup {Text(w) : w \in {"nan", "infinity", "1e39"}}
OptionalF32 ==
  [v \in Generic \cup Numerals \cup {Text("1.5")} \cup NotFinite |->
     IF v \in {Absent, Null, Text("")} THEN None
     ELSE IF v.is = "number"
     THEN IF v.n \in (-(U32Max \div 2) - 1)..U32Max THEN Real(v.n) ELSE Refused
     ELSE IF v.is = "digits" THEN Real(v.n)
     ELSE IF v \in {Text("1.5"), Float("fraction")} THEN Float("fraction")
     ELSE IF v \in NotFinite THEN Float("huge") ELSE Refused]

Finite == [v \in {Float("fraction"), Float("huge")} \cup {Real(n) : n \in Numbers \cup {1}} |->
             IF v = Float("huge") THEN Refused ELSE v]
CarrierBandwidth == [v \in DOMAIN Finite |->
             IF v.is = "real" /\ v.n <= 0 THEN Refused ELSE Finite[v]]
OptionalMeasurement(unit) ==
  [v \in DOMAIN OptionalF32 |->
     IF OptionalF32[v] \in {None, Refused} THEN OptionalF32[v] ELSE unit[OptionalF32[v]]]
Measurement(unit) ==
  [v \in DOMAIN OptionalF32 |->
     IF OptionalF32[v] = None THEN Refused ELSE OptionalMeasurement(unit)[v]]

-----------------------------------------------------------------------------
(* Interfaces and cells *)

Traits(words) == [is |-> "traits", words |-> words]
InterfaceTrait == {"Mobile", "UsbLte", "UsbQmi", "Ip", "Ip6"}
TraitList ==
  LET lists == {Traits({t}) : t \in InterfaceTrait \cup {"other", "mobile"}}
                 \cup {Traits({}), Traits({"Ip", "UsbLte"})}
  IN Accepting(lists, lists)

IsMobileBroadband(traits) == traits.words \cap {"Mobile", "UsbLte", "UsbQmi"} # {}

(* Mutant: the sector's width is not looked at. *)
EciAnySector(enb, sector) ==
  IF enb # None /\ sector # None /\ enb.n <= 1048575 THEN Number(enb.n * 256 + sector.n) ELSE None

Eci(enb, sector) ==
  IF enb # None /\ sector # None /\ enb.n <= 1048575 /\ sector.n <= 255
  THEN Number(enb.n * 256 + sector.n) ELSE None
=============================================================================

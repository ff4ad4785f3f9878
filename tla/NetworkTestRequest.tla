------------------------- MODULE NetworkTestRequest -------------------------
(***************************************************************************)
(* The network-test requests of src/request/network_test.rs.  A request is *)
(* built by a constructor and any sequence of setters; each checks its own *)
(* argument against what was set before.  A setter takes the request by    *)
(* value: when it refuses its argument the request is gone.                *)
(*                                                                         *)
(* Addresses are abstracted to their family, a host name being "name".     *)
(***************************************************************************)
EXTENDS Integers, Sequences

CONSTANTS
  Wide,      \* stands for the largest u32 and u64
  MaxCalls   \* bound: calls on one request, its constructor included

U8 == 255
U16 == 65535

ASSUME WideAssumption == Wide \in Nat /\ Wide > U16
ASSUME MaxCallsAssumption == MaxCalls \in Nat

VARIABLES
  request,    \* the request under construction, or Consumed
  attempted,  \* history: what the last call was asked for
  calls

vars == <<request, attempted, calls>>

Families == {"ipv4", "ipv6"}
Hosts == Families \cup {"name"}
Sources == Families \cup {"interface"}
Tools == {"ping", "ping6", "traceroute", "iperf3"}
Consumed == [tool |-> "none"]

(* The range a setter accepts, and the largest value of its argument's type. *)
Setting(min, max, top) == [min |-> min, max |-> max, top |-> top]

PingSettings ==
  [count |-> Setting(1, U16, U16), packetsize |-> Setting(28, U16, U16),
   sequence_id |-> Setting(0, U16, U16), tos |-> Setting(0, 63, U8),
   ttl |-> Setting(1, U8, U8)]

TracerouteSettings ==
  [count |-> Setting(1, 10, U8), interval |-> Setting(0, 15, U8),
   wait_time |-> Setting(1, 15, U8), max_ttl |-> Setting(1, U8, U8),
   port |-> Setting(1, U16, U16), tos |-> Setting(0, U8, U8)]

Iperf3Settings ==
  [port |-> Setting(1, U16, U16), bitrate |-> Setting(1, Wide, Wide),
   streams |-> Setting(1, U16, U16)]

Settings(tool) ==
  CASE tool \in {"ping", "ping6"} -> PingSettings
    [] tool = "traceroute" -> TracerouteSettings
    [] tool = "iperf3" -> Iperf3Settings

(* A setter's arguments, at the edges of what it accepts and of its type. *)
Edges(s) == {0, s.min - 1, s.min, s.max, s.max + 1, s.top} \cap 0..s.top
PacketSizes == {0, 27, 28, 51, 52, 53, U16}

(* The endpoint of a tool names the family it is bound to. *)
PingFamily(tool) == IF tool = "ping" THEN "ipv4" ELSE "ipv6"

EnsureRange(value, s) == value \in s.min..s.max
EnsureTargetFamily(host, family) == host \in Families => host = family
EnsureSourceFamily(source, family) == source \in Families => source = family

ValidatePacketSize(protocol, size) ==
  IF protocol = "tcp" THEN size = 52 ELSE EnsureRange(size, Setting(28, U16, U16))

-----------------------------------------------------------------------------
New(tool, host) ==
  [tool |-> tool, host |-> host, options |-> <<>>, source |-> "none",
   protocol |-> "none", version |-> "none", direction |-> "none",
   limit |-> [unit |-> "none", value |-> 0]]

With(options, name, value) ==
  [o \in DOMAIN options \cup {name} |-> IF o = name THEN value ELSE options[o]]

(* A call returns the candidate, or consumes the request with an error. *)
Attempt(candidate, accepted) ==
  /\ calls < MaxCalls
  /\ calls' = calls + 1
  /\ attempted' = candidate
  /\ request' = IF accepted THEN candidate ELSE Consumed

Init == request = Consumed /\ attempted = Consumed /\ calls = 0

NewPing ==
  /\ calls = 0
  /\ \E tool \in {"ping", "ping6"}, host \in Hosts :
       Attempt([New(tool, host) EXCEPT !.options = With(<<>>, "count", 5)],
               EnsureTargetFamily(host, PingFamily(tool)))

NewTraceroute ==
  /\ calls = 0
  /\ \E host \in Hosts :
       Attempt([New("traceroute", host) EXCEPT !.protocol = "udp"], TRUE)

(* IperfLimit::time, bytes *)
LimitAccepted(value) == value # 0

NewIperf3 ==
  /\ calls = 0
  /\ \E host \in Hosts, unit \in {"time", "bytes"}, value \in {0, 1, Wide} :
       Attempt([New("iperf3", host) EXCEPT
                  !.protocol = "tcp", !.direction = "upload",
                  !.version = IF host \in Families THEN host ELSE "ipv4",
                  !.limit = [unit |-> unit, value |-> value]],
               LimitAccepted(value))

SetOption ==
  /\ request # Consumed
  /\ \E o \in DOMAIN Settings(request.tool) :
       LET s == Settings(request.tool)[o]
       IN \E value \in Edges(s) :
            Attempt([request EXCEPT !.options = With(@, o, value)], EnsureRange(value, s))

(* Traceroute::packet_size *)
SetPacketSize ==
  /\ request # Consumed /\ request.tool = "traceroute"
  /\ \E size \in PacketSizes :
       Attempt([request EXCEPT !.options = With(@, "packetsize", size)],
               ValidatePacketSize(request.protocol, size))

(* Mutant: a host name is taken for an IPv4 target. *)
SourceFamilyResolved ==
  CASE request.tool = "iperf3" -> request.version
    [] request.tool = "traceroute" -> IF request.host = "name" THEN "ipv4" ELSE request.host
    [] OTHER -> PingFamily(request.tool)

(* The family a literal source must have; a traceroute to a name has none. *)
SourceFamily ==
  CASE request.tool = "iperf3" -> request.version
    [] request.tool = "traceroute" -> request.host
    [] OTHER -> PingFamily(request.tool)

SetSource ==
  /\ request # Consumed
  /\ \E source \in Sources :
       Attempt([request EXCEPT !.source = source],
               SourceFamily = "name" \/ EnsureSourceFamily(source, SourceFamily))

(* Traceroute::protocol checks a packet size set before. *)
SetProtocol ==
  /\ request # Consumed
  /\ \/ /\ request.tool = "traceroute"
        /\ \E protocol \in {"tcp", "udp", "icmp"} :
             Attempt([request EXCEPT !.protocol = protocol],
                     "packetsize" \in DOMAIN request.options =>
                       ValidatePacketSize(protocol, request.options["packetsize"]))
     \/ /\ request.tool = "iperf3"
        /\ \E protocol \in {"tcp", "udp"} :
             Attempt([request EXCEPT !.protocol = protocol], TRUE)

(* Mutant: a source set before is not looked at again. *)
SetVersionTargetOnly ==
  /\ request # Consumed /\ request.tool = "iperf3"
  /\ \E version \in Families :
       Attempt([request EXCEPT !.version = version],
               EnsureTargetFamily(request.host, version))

SetVersion ==
  /\ request # Consumed /\ request.tool = "iperf3"
  /\ \E version \in Families :
       Attempt([request EXCEPT !.version = version],
               /\ EnsureTargetFamily(request.host, version)
               /\ EnsureSourceFamily(request.source, version))

SetDirection ==
  /\ request # Consumed /\ request.tool = "iperf3"
  /\ \E direction \in {"upload", "download"} :
       Attempt([request EXCEPT !.direction = direction], TRUE)

Next ==
  \/ NewPing \/ NewTraceroute \/ NewIperf3
  \/ SetOption \/ SetPacketSize \/ SetSource \/ SetProtocol \/ SetVersion \/ SetDirection

Spec == Init /\ [][Next]_vars

-----------------------------------------------------------------------------
(* The JSON body: the entries in the order they are serialized. *)

Entry(key, value) == <<[key |-> key, value |-> value]>>
When(condition, entry) == IF condition THEN entry ELSE <<>>
Option(r, name) ==
  IF name \in DOMAIN r.options THEN Entry(name, r.options[name]) ELSE <<>>

PingBody(r) ==
  Entry("host", r.host) \o Option(r, "count") \o Option(r, "packetsize")
  \o Option(r, "sequence_id") \o When(r.source # "none", Entry("source", r.source))
  \o Option(r, "tos") \o Option(r, "ttl")

(* Mutant: the source of a test is always serialized as an address. *)
SourceBodyAddress(r) ==
  When(r.source # "none", Entry("source-address", r.source))

SourceBody(r) ==
  When(r.source \in Families, Entry("source-address", r.source))
  \o When(r.source = "interface", Entry("source-interface", r.source))

TracerouteBody(r) ==
  Entry("host", r.host) \o Option(r, "count") \o Option(r, "interval")
  \o Option(r, "wait_time") \o Option(r, "packetsize") \o Option(r, "max_ttl")
  \o Option(r, "port") \o SourceBody(r) \o Entry("type", r.protocol) \o Option(r, "tos")

Iperf3Body(r) ==
  Entry("host", r.host) \o Entry(r.version, "true") \o Entry(r.protocol, "true")
  \o When(r.direction = "download", Entry("reverse", "true"))
  \o Option(r, "port") \o Option(r, "bitrate") \o Option(r, "streams")
  \o Entry(r.limit.unit, r.limit.value) \o SourceBody(r)

Body(r) ==
  CASE r.tool \in {"ping", "ping6"} -> PingBody(r)
    [] r.tool = "traceroute" -> TracerouteBody(r)
    [] r.tool = "iperf3" -> Iperf3Body(r)

-----------------------------------------------------------------------------
(* Properties *)

(* What the router's commands require of a request as a whole: all literal   *)
(* addresses are of the family it is bound to, every option is in its range, *)
(* TCP probes have their fixed size, and the test is finite.                 *)
OneFamily(r) ==
  LET literals == {r.host, r.source} \cap Families
  IN literals \subseteq CASE r.tool = "ping" -> {"ipv4"}
                          [] r.tool = "ping6" -> {"ipv6"}
                          [] r.tool = "iperf3" -> {r.version}
                          [] OTHER -> IF r.host = "name" THEN Families ELSE {r.host}

InRange(r) ==
  \A o \in DOMAIN r.options \ {"packetsize"} :
    EnsureRange(r.options[o], Settings(r.tool)[o])

SizeFits(r) ==
  "packetsize" \in DOMAIN r.options =>
    /\ r.options["packetsize"] \in 28..U16
    /\ r.protocol = "tcp" /\ r.tool = "traceroute" => r.options["packetsize"] = 52

Finite(r) ==
  /\ r.tool = "iperf3" => r.limit.value > 0
  /\ r.tool \in {"ping", "ping6"} => "count" \in DOMAIN r.options /\ r.options["count"] > 0

Coherent(r) == OneFamily(r) /\ InRange(r) /\ SizeFits(r) /\ Finite(r)

(* Whatever the order of the setters, a request that can be sent is coherent. *)
RequestCoherent == request # Consumed => Coherent(request)

(* No call refuses what would have left the request coherent.                *)
RefusalJustified ==
  request = Consumed /\ attempted # Consumed => ~Coherent(attempted)

(* The body names each key once and leaves nothing to the router's choice:   *)
(* an iperf3 test has one IP version, one transport and one limit, a source  *)
(* is an address or an interface as it was given, and every option set is    *)
(* there with its value.                                                     *)
BodyUnambiguous ==
  request # Consumed =>
    LET body == Body(request)
        keys == {body[i].key : i \in DOMAIN body}
        Has(key, value) == \E i \in DOMAIN body : body[i].key = key /\ body[i].value = value
    IN /\ \A i, j \in DOMAIN body : body[i].key = body[j].key => i = j
       /\ \A o \in DOMAIN request.options : Has(o, request.options[o])
       /\ request.tool = "iperf3" =>
            /\ \E f \in Families : keys \cap Families = {f}
            /\ \E p \in {"tcp", "udp"} : keys \cap {"tcp", "udp"} = {p}
            /\ \E u \in {"time", "bytes"} : keys \cap {"time", "bytes"} = {u}
       /\ request.source # "none" =>
            Has(IF request.tool \in {"ping", "ping6"} THEN "source"
                ELSE IF request.source = "interface" THEN "source-interface"
                ELSE "source-address", request.source)
=============================================================================

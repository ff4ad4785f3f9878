----------------------- MODULE NetworkTestRequestProofs -----------------------
(***************************************************************************)
(* What NetworkTestRequest promises of a request, proved for any number of *)
(* setters in any order.  Every call Decides: it accepts its candidate if  *)
(* and only if the candidate, as a whole, is coherent, though the code only*)
(* looks at the argument and at one or two options set before.  That the   *)
(* rest is coherent is the invariant.                                      *)
(***************************************************************************)
EXTENDS NetworkTestRequest, TLAPS

(* What is known of a request besides its coherence *)
OptionNames(tool) ==
  DOMAIN Settings(tool) \cup IF tool = "traceroute" THEN {"packetsize"} ELSE {}
Options(tool) == UNION {[names -> Nat] : names \in SUBSET OptionNames(tool)}

Requests ==
  [tool: Tools, host: Hosts, options: UNION {Options(tool) : tool \in Tools},
   source: Sources \cup {"none"}, protocol: {"none", "tcp", "udp", "icmp"},
   version: Families \cup {"none"}, direction: {"none", "upload", "download"},
   limit: [unit: {"none", "time", "bytes"}, value: Nat]]

Formed(r) ==
  /\ r \in Requests /\ r.options \in Options(r.tool)
  /\ r.tool = "iperf3" =>
       /\ r.version \in Families /\ r.protocol \in {"tcp", "udp"}
       /\ r.limit.unit \in {"time", "bytes"}
  /\ r.tool = "traceroute" => r.protocol # "none"

Inv ==
  /\ request # Consumed => Formed(request) /\ Coherent(request)
  /\ request = Consumed /\ attempted # Consumed => ~Coherent(attempted)
  /\ request # Consumed => calls # 0
  /\ calls \in Nat

(* The settings the tools share, and those they do not *)
LEMMA SettingsOfTools ==
  /\ \A tool \in {"ping", "ping6"} :
       /\ "packetsize" \in DOMAIN Settings(tool) /\ "count" \in DOMAIN Settings(tool)
       /\ Settings(tool)["packetsize"].min = 28 /\ Settings(tool)["packetsize"].max = U16
       /\ Settings(tool)["count"].min = 1 /\ Settings(tool)["count"].max = U16
  /\ "packetsize" \notin DOMAIN Settings("traceroute")
  /\ "packetsize" \notin DOMAIN Settings("iperf3")
  BY DEF Settings, PingSettings, TracerouteSettings, Iperf3Settings, Setting

LEMMA SettingsAreNat ==
  ASSUME NEW tool \in Tools, NEW o \in DOMAIN Settings(tool)
  PROVE  Settings(tool)[o].top \in Nat
  BY WideAssumption DEF Settings, PingSettings, TracerouteSettings, Iperf3Settings, Setting, Tools,
     U8, U16

LEMMA WithOption ==
  ASSUME NEW tool \in Tools, NEW options \in Options(tool), NEW value \in Nat,
         NEW name \in OptionNames(tool)
  PROVE  /\ With(options, name, value) \in Options(tool)
         /\ DOMAIN With(options, name, value) = DOMAIN options \cup {name}
         /\ With(options, name, value)[name] = value
         /\ \A o \in DOMAIN options \ {name} : With(options, name, value)[o] = options[o]
<1>1. PICK names \in SUBSET OptionNames(tool) : options \in [names -> Nat]
  BY DEF Options
<1>2. With(options, name, value) \in [names \cup {name} -> Nat]
  BY <1>1 DEF With
<1>3. With(options, name, value) \in Options(tool)
  BY <1>2 DEF Options
<1> QED
  BY <1>3 DEF With

(* A call whose check is exactly the coherence of its candidate *)
LEMMA Decides ==
  ASSUME Inv, NEW candidate, NEW accepted \in BOOLEAN, Attempt(candidate, accepted),
         candidate # Consumed, Formed(candidate),
         accepted <=> Coherent(candidate)
  PROVE  Inv'
  BY DEF Inv, Attempt

LEMMA NotConsumed == \A r \in Requests : r # Consumed
  BY DEF Requests, Tools, Consumed

(* A request with one more option *)
LEMMA OptionSet ==
  ASSUME NEW r, Formed(r), NEW name \in OptionNames(r.tool),
         NEW value \in Nat
  PROVE  LET c == [r EXCEPT !.options = With(@, name, value)]
         IN /\ Formed(c) /\ c.options = With(r.options, name, value)
            /\ c.tool = r.tool /\ c.host = r.host /\ c.source = r.source
            /\ c.protocol = r.protocol /\ c.version = r.version /\ c.limit = r.limit
<1>1. With(r.options, name, value) \in Options(r.tool) /\ r.tool \in Tools
  BY WithOption DEF Formed, Requests
<1> QED
  BY <1>1 DEF Formed, Requests

(* Options are judged one by one: setting one is judged by its range alone. *)
LEMMA OptionJudged ==
  ASSUME NEW r, Formed(r), Coherent(r), NEW name \in DOMAIN Settings(r.tool), NEW value \in Nat,
         NEW c, c.options = With(r.options, name, value), c.tool = r.tool, c.host = r.host,
         c.source = r.source, c.protocol = r.protocol, c.version = r.version, c.limit = r.limit
  PROVE  EnsureRange(value, Settings(r.tool)[name]) <=> Coherent(c)
<1>1. r.tool \in Tools /\ r.options \in Options(r.tool)
  BY DEF Formed, Requests
<1>2. /\ DOMAIN c.options = DOMAIN r.options \cup {name} /\ c.options[name] = value
      /\ \A o \in DOMAIN r.options \ {name} : c.options[o] = r.options[o]
  <2>1. /\ DOMAIN With(r.options, name, value) = DOMAIN r.options \cup {name}
        /\ With(r.options, name, value)[name] = value
        /\ \A o \in DOMAIN r.options \ {name} : With(r.options, name, value)[o] = r.options[o]
    BY DEF With
  <2> QED
    BY <2>1
<1>3. OneFamily(c)
  BY DEF Coherent, OneFamily
<1>4. CASE name = "packetsize"
  <2>1. r.tool \in {"ping", "ping6"}
    BY <1>1, <1>4, SettingsOfTools DEF Tools
  <2>2. InRange(c) /\ Finite(c)
    BY <1>2, <1>4, <2>1 DEF Coherent, InRange, Finite
  <2>3. SizeFits(c) <=> EnsureRange(value, Settings(r.tool)[name])
    BY <1>2, <1>4, <2>1, SettingsOfTools DEF SizeFits, EnsureRange
  <2> QED
    BY <1>3, <2>2, <2>3 DEF Coherent
<1>5. CASE name # "packetsize"
  <2>1. InRange(c) <=> EnsureRange(value, Settings(r.tool)[name])
    BY <1>2, <1>5 DEF Coherent, InRange
  <2>2. SizeFits(c)
    BY <1>2, <1>5 DEF Coherent, SizeFits
  <2>3. EnsureRange(value, Settings(r.tool)[name]) => Finite(c)
    BY <1>2, SettingsOfTools DEF Coherent, Finite, EnsureRange
  <2> QED
    BY <1>3, <2>1, <2>2, <2>3 DEF Coherent
<1> QED
  BY <1>4, <1>5

-----------------------------------------------------------------------------
(* The constructors *)

LEMMA NewFormed ==
  ASSUME NEW tool \in Tools, NEW host \in Hosts
  PROVE  New(tool, host) \in Requests /\ <<>> \in Options(tool) /\ New(tool, host).options = <<>>
<1>1. <<>> \in [{} -> Nat] /\ {} \in SUBSET OptionNames(tool)
  OBVIOUS
<1>2. <<>> \in Options(tool)
  BY <1>1 DEF Options
<1> QED
  BY <1>2 DEF New, Requests

LEMMA NewPingDecides == ASSUME Inv, NewPing PROVE Inv'
<1>1. PICK tool \in {"ping", "ping6"}, host \in Hosts :
        Attempt([New(tool, host) EXCEPT !.options = With(<<>>, "count", 5)],
                EnsureTargetFamily(host, PingFamily(tool)))
  BY DEF NewPing
<1> DEFINE c == [New(tool, host) EXCEPT !.options = With(<<>>, "count", 5)]
<1>2. tool \in Tools /\ "count" \in DOMAIN Settings(tool)
  BY SettingsOfTools DEF Tools
<1>3. /\ With(<<>>, "count", 5) \in Options(tool) /\ DOMAIN With(<<>>, "count", 5) = {"count"}
      /\ With(<<>>, "count", 5)["count"] = 5
  <2>1. With(<<>>, "count", 5) \in Options(tool)
    <3>1. <<>> \in Options(tool) /\ "count" \in OptionNames(tool) /\ 5 \in Nat
      BY <1>2, NewFormed DEF OptionNames, Hosts
    <3> QED
      BY <1>2, <3>1, WithOption
  <2> QED
    BY <2>1 DEF With
<1>4. /\ c \in Requests /\ c.options = With(<<>>, "count", 5) /\ c.tool = tool /\ c.host = host
      /\ c.source = "none" /\ c.protocol = "none"
  BY <1>2, <1>3, NewFormed DEF New, Requests
<1> HIDE DEF c
<1>5. Formed(c)
  BY <1>3, <1>4 DEF Formed
<1>6. InRange(c) /\ SizeFits(c) /\ Finite(c)
  <2>1. EnsureRange(5, Settings(tool)["count"])
    BY SettingsOfTools DEF EnsureRange, U16
  <2> QED
    BY <1>3, <1>4, <2>1 DEF InRange, SizeFits, Finite
<1>7. OneFamily(c) <=> EnsureTargetFamily(host, PingFamily(tool))
  BY <1>4 DEF OneFamily, EnsureTargetFamily, PingFamily, Families
<1>8. EnsureTargetFamily(host, PingFamily(tool)) \in BOOLEAN
  BY DEF EnsureTargetFamily
<1>9. Attempt(c, EnsureTargetFamily(host, PingFamily(tool)))
  BY <1>1 DEF c
<1> QED
  BY <1>4, <1>5, <1>6, <1>7, <1>8, <1>9, Decides, NotConsumed DEF Coherent

LEMMA NewTracerouteDecides == ASSUME Inv, NewTraceroute PROVE Inv'
<1>1. PICK host \in Hosts : Attempt([New("traceroute", host) EXCEPT !.protocol = "udp"], TRUE)
  BY DEF NewTraceroute
<1> DEFINE c == [New("traceroute", host) EXCEPT !.protocol = "udp"]
<1>2. "traceroute" \in Tools
  BY DEF Tools
<1>3. /\ c \in Requests /\ c.options = <<>> /\ c.tool = "traceroute" /\ c.host = host
      /\ c.source = "none" /\ c.protocol = "udp"
  BY <1>2, NewFormed DEF New, Requests
<1> HIDE DEF c
<1>4. Formed(c)
  BY <1>2, <1>3, NewFormed DEF Formed
<1>5. Coherent(c)
  BY <1>3 DEF Coherent, OneFamily, InRange, SizeFits, Finite, Families, Hosts
<1> QED
  BY <1>1, <1>3, <1>4, <1>5, Decides, NotConsumed DEF c

LEMMA NewIperf3Decides == ASSUME Inv, NewIperf3 PROVE Inv'
<1>1. PICK host \in Hosts, unit \in {"time", "bytes"}, value \in {0, 1, Wide} :
        Attempt([New("iperf3", host) EXCEPT
                   !.protocol = "tcp", !.direction = "upload",
                   !.version = IF host \in Families THEN host ELSE "ipv4",
                   !.limit = [unit |-> unit, value |-> value]],
                LimitAccepted(value))
  BY DEF NewIperf3
<1> DEFINE c == [New("iperf3", host) EXCEPT
                   !.protocol = "tcp", !.direction = "upload",
                   !.version = IF host \in Families THEN host ELSE "ipv4",
                   !.limit = [unit |-> unit, value |-> value]]
<1>2. "iperf3" \in Tools /\ value \in Nat
  BY WideAssumption DEF Tools
<1>3. /\ c \in Requests /\ c.options = <<>> /\ c.tool = "iperf3" /\ c.host = host
      /\ c.source = "none" /\ c.version \in Families /\ c.protocol = "tcp"
      /\ c.limit.unit \in {"time", "bytes"} /\ c.limit.value = value
      /\ host \in Families => c.version = host
  BY <1>2, NewFormed DEF New, Requests, Families
<1> HIDE DEF c
<1>4. Formed(c)
  BY <1>2, <1>3, NewFormed DEF Formed
<1>5. OneFamily(c) /\ InRange(c) /\ SizeFits(c)
  BY <1>3 DEF OneFamily, InRange, SizeFits, Families, Hosts
<1>6. Finite(c) <=> LimitAccepted(value)
  BY <1>2, <1>3 DEF Finite, LimitAccepted
<1>7. LimitAccepted(value) \in BOOLEAN /\ Attempt(c, LimitAccepted(value))
  BY <1>1 DEF LimitAccepted, c
<1> QED
  BY <1>3, <1>4, <1>5, <1>6, <1>7, Decides, NotConsumed DEF Coherent

-----------------------------------------------------------------------------
(* The setters *)

LEMMA SetOptionDecides == ASSUME Inv, SetOption PROVE Inv'
<1>1. PICK o \in DOMAIN Settings(request.tool) :
        \E value \in Edges(Settings(request.tool)[o]) :
          Attempt([request EXCEPT !.options = With(@, o, value)],
                  EnsureRange(value, Settings(request.tool)[o]))
  BY DEF SetOption
<1>2. PICK value \in Edges(Settings(request.tool)[o]) :
        Attempt([request EXCEPT !.options = With(@, o, value)],
                EnsureRange(value, Settings(request.tool)[o]))
  BY <1>1
<1>3. Formed(request) /\ Coherent(request) /\ request.tool \in Tools
  BY DEF SetOption, Inv, Formed, Requests
<1>4. value \in Nat
  BY <1>3, SettingsAreNat DEF Edges
<1> DEFINE c == [request EXCEPT !.options = With(@, o, value)]
<1>5. /\ Formed(c) /\ c.options = With(request.options, o, value)
      /\ c.tool = request.tool /\ c.host = request.host /\ c.source = request.source
      /\ c.protocol = request.protocol /\ c.version = request.version /\ c.limit = request.limit
  BY <1>3, <1>4, OptionSet DEF OptionNames
<1>6. Attempt(c, EnsureRange(value, Settings(request.tool)[o]))
  BY <1>2
<1> HIDE DEF c
<1>7. EnsureRange(value, Settings(request.tool)[o]) <=> Coherent(c)
  BY <1>3, <1>4, <1>5, OptionJudged
<1>8. EnsureRange(value, Settings(request.tool)[o]) \in BOOLEAN
  BY DEF EnsureRange
<1> QED
  BY <1>5, <1>6, <1>7, <1>8, Decides, NotConsumed DEF Formed

LEMMA SetPacketSizeDecides == ASSUME Inv, SetPacketSize PROVE Inv'
<1>1. PICK size \in PacketSizes :
        Attempt([request EXCEPT !.options = With(@, "packetsize", size)],
                ValidatePacketSize(request.protocol, size))
  BY DEF SetPacketSize
<1>2. Formed(request) /\ Coherent(request) /\ request.tool = "traceroute"
  BY DEF SetPacketSize, Inv
<1>3. size \in Nat
  BY DEF PacketSizes, U16
<1> DEFINE c == [request EXCEPT !.options = With(@, "packetsize", size)]
<1>4. /\ Formed(c) /\ c.options = With(request.options, "packetsize", size)
      /\ c.tool = request.tool /\ c.host = request.host /\ c.source = request.source
      /\ c.protocol = request.protocol /\ c.version = request.version /\ c.limit = request.limit
  BY <1>2, <1>3, OptionSet DEF OptionNames
<1>5. Attempt(c, ValidatePacketSize(request.protocol, size))
  BY <1>1
<1> HIDE DEF c
<1>6. /\ DOMAIN c.options = DOMAIN request.options \cup {"packetsize"}
      /\ c.options["packetsize"] = size
      /\ \A o \in DOMAIN request.options \ {"packetsize"} : c.options[o] = request.options[o]
  BY <1>4 DEF With
<1>7. OneFamily(c) /\ InRange(c) /\ Finite(c)
  BY <1>2, <1>4, <1>6 DEF Coherent, OneFamily, InRange, Finite
<1>8. SizeFits(c) <=> ValidatePacketSize(request.protocol, size)
  <2>1. CASE request.protocol = "tcp"
    <3>1. ValidatePacketSize(request.protocol, size) <=> size = 52
      BY <2>1 DEF ValidatePacketSize
    <3>2. 52 \in 28..U16
      BY DEF U16
    <3> QED
      BY <1>2, <1>4, <1>6, <2>1, <3>1, <3>2 DEF SizeFits
  <2>2. CASE request.protocol # "tcp"
    <3>1. ValidatePacketSize(request.protocol, size) <=> size \in 28..U16
      BY <2>2 DEF ValidatePacketSize, EnsureRange, Setting
    <3> QED
      BY <1>2, <1>4, <1>6, <2>2, <3>1 DEF SizeFits
  <2> QED
    BY <2>1, <2>2
<1>9. ValidatePacketSize(request.protocol, size) \in BOOLEAN
  <2>1. CASE request.protocol = "tcp"
    BY <2>1 DEF ValidatePacketSize
  <2>2. CASE request.protocol # "tcp"
    BY <2>2 DEF ValidatePacketSize, EnsureRange
  <2> QED
    BY <2>1, <2>2
<1> QED
  BY <1>4, <1>5, <1>7, <1>8, <1>9, Decides, NotConsumed DEF Formed, Coherent

LEMMA SetSourceDecides == ASSUME Inv, SetSource PROVE Inv'
<1>1. PICK source \in Sources :
        Attempt([request EXCEPT !.source = source],
                SourceFamily = "name" \/ EnsureSourceFamily(source, SourceFamily))
  BY DEF SetSource
<1> DEFINE c == [request EXCEPT !.source = source]
           accepted == SourceFamily = "name" \/ EnsureSourceFamily(source, SourceFamily)
<1>2. Formed(request) /\ Coherent(request)
  BY DEF SetSource, Inv
<1>3. /\ Formed(c) /\ c.source = source
      /\ c.tool = request.tool /\ c.host = request.host /\ c.options = request.options
      /\ c.protocol = request.protocol /\ c.version = request.version /\ c.limit = request.limit
  BY <1>2 DEF Formed, Requests
<1>4. Attempt(c, accepted) /\ accepted \in BOOLEAN
  BY <1>1 DEF EnsureSourceFamily
<1> HIDE DEF c
<1>5. InRange(c) /\ SizeFits(c) /\ Finite(c)
  BY <1>2, <1>3 DEF Coherent, InRange, SizeFits, Finite
<1>6. accepted <=> OneFamily(c)
  <2>1. request.tool \in Tools /\ request.host \in Hosts /\ request.version \in Families \cup {"none"}
    BY <1>2 DEF Formed, Requests
  <2>2. request.tool = "iperf3" => request.version \in Families
    BY <1>2 DEF Formed
  <2>3. OneFamily(request)
    BY <1>2 DEF Coherent
  <2>4. CASE request.tool \in {"ping", "ping6"}
    BY <1>3, <2>1, <2>3, <2>4
       DEF OneFamily, EnsureSourceFamily, SourceFamily, PingFamily, Families, Sources
  <2>5. CASE request.tool = "traceroute"
    BY <1>3, <2>1, <2>5 DEF OneFamily, EnsureSourceFamily, SourceFamily, Families, Hosts
  <2>6. CASE request.tool = "iperf3"
    BY <1>3, <2>1, <2>2, <2>3, <2>6
       DEF OneFamily, EnsureSourceFamily, SourceFamily, Families, Sources
  <2> QED
    BY <2>1, <2>4, <2>5, <2>6 DEF Tools
<1> HIDE DEF accepted
<1> QED
  BY <1>3, <1>4, <1>5, <1>6, Decides, NotConsumed DEF Formed, Coherent

LEMMA SetProtocolDecides == ASSUME Inv, SetProtocol PROVE Inv'
<1>1. Formed(request) /\ Coherent(request)
  BY DEF SetProtocol, Inv
<1>2. ASSUME NEW protocol \in {"tcp", "udp", "icmp"}, NEW accepted \in BOOLEAN,
             NEW c, c = [request EXCEPT !.protocol = protocol], Attempt(c, accepted),
             accepted <=> SizeFits(c), request.tool = "iperf3" => protocol # "icmp"
      PROVE  Inv'
  <2>1. /\ Formed(c) /\ c.source = request.source
        /\ c.tool = request.tool /\ c.host = request.host /\ c.options = request.options
        /\ c.version = request.version /\ c.limit = request.limit
    BY <1>1, <1>2 DEF Formed, Requests
  <2>2. OneFamily(c) /\ InRange(c) /\ Finite(c)
    BY <1>1, <2>1 DEF Coherent, InRange, OneFamily, Finite
  <2> QED
    BY <1>2, <2>1, <2>2, Decides, NotConsumed DEF Formed, Coherent
<1>3. CASE request.tool = "traceroute"
  <2> DEFINE Checked(protocol) ==
        "packetsize" \in DOMAIN request.options =>
          ValidatePacketSize(protocol, request.options["packetsize"])
  <2>1. PICK protocol \in {"tcp", "udp", "icmp"} :
          Attempt([request EXCEPT !.protocol = protocol], Checked(protocol))
    BY <1>3 DEF SetProtocol
  <2>2. PICK c : c = [request EXCEPT !.protocol = protocol]
    OBVIOUS
  <2>3. /\ c.tool = "traceroute" /\ c.options = request.options /\ c.protocol = protocol
    BY <1>1, <1>3, <2>2 DEF Formed, Requests
  <2>4. ASSUME "packetsize" \in DOMAIN request.options
        PROVE  request.options["packetsize"] \in 28..U16
    BY <1>1, <2>4 DEF Coherent, SizeFits
  <2>5. SizeFits(c) <=> Checked(protocol)
    <3>1. CASE protocol = "tcp"
      BY <2>3, <2>4, <3>1 DEF SizeFits, ValidatePacketSize
    <3>2. CASE protocol # "tcp"
      BY <2>3, <2>4, <3>2 DEF SizeFits, ValidatePacketSize, EnsureRange, Setting
    <3> QED
      BY <3>1, <3>2
  <2>6. Checked(protocol) \in BOOLEAN /\ Attempt(c, Checked(protocol))
    BY <2>1, <2>2
  <2> HIDE DEF Checked
  <2> QED
    BY <1>2, <1>3, <2>2, <2>5, <2>6
<1>4. CASE request.tool = "iperf3"
  <2>1. PICK protocol \in {"tcp", "udp"} : Attempt([request EXCEPT !.protocol = protocol], TRUE)
    BY <1>4 DEF SetProtocol
  <2>2. PICK c : c = [request EXCEPT !.protocol = protocol]
    OBVIOUS
  <2>3. SizeFits(c)
    BY <1>1, <1>4, <2>2 DEF Formed, Requests, Coherent, SizeFits
  <2> QED
    BY <1>2, <2>1, <2>2, <2>3
<1> QED
  BY <1>3, <1>4 DEF SetProtocol

LEMMA SetVersionDecides == ASSUME Inv, SetVersion PROVE Inv'
<1> DEFINE Checked(version) ==
      /\ EnsureTargetFamily(request.host, version)
      /\ EnsureSourceFamily(request.source, version)
<1>1. PICK version \in Families : Attempt([request EXCEPT !.version = version], Checked(version))
  BY DEF SetVersion
<1>2. Formed(request) /\ Coherent(request) /\ request.tool = "iperf3"
  BY DEF SetVersion, Inv
<1>3. PICK c : c = [request EXCEPT !.version = version]
  OBVIOUS
<1>4. /\ Formed(c) /\ c.source = request.source /\ c.version = version
      /\ c.tool = request.tool /\ c.host = request.host /\ c.options = request.options
      /\ c.protocol = request.protocol /\ c.limit = request.limit
  BY <1>2, <1>3 DEF Formed, Requests
<1>5. InRange(c) /\ SizeFits(c) /\ Finite(c)
  BY <1>2, <1>4 DEF Coherent, InRange, SizeFits, Finite
<1>6. OneFamily(c) <=> Checked(version)
  BY <1>2, <1>4 DEF OneFamily, EnsureTargetFamily, EnsureSourceFamily, Families
<1>7. Checked(version) \in BOOLEAN /\ Attempt(c, Checked(version))
  BY <1>1, <1>3 DEF EnsureTargetFamily, EnsureSourceFamily
<1> HIDE DEF Checked
<1> QED
  BY <1>4, <1>5, <1>6, <1>7, Decides, NotConsumed DEF Formed, Coherent

LEMMA SetDirectionDecides == ASSUME Inv, SetDirection PROVE Inv'
<1>1. PICK direction \in {"upload", "download"} :
        Attempt([request EXCEPT !.direction = direction], TRUE)
  BY DEF SetDirection
<1>2. Formed(request) /\ Coherent(request)
  BY DEF SetDirection, Inv
<1>3. PICK c : c = [request EXCEPT !.direction = direction]
  OBVIOUS
<1>4. /\ Formed(c) /\ c.source = request.source /\ c.version = request.version
      /\ c.tool = request.tool /\ c.host = request.host /\ c.options = request.options
      /\ c.protocol = request.protocol /\ c.limit = request.limit
  BY <1>2, <1>3 DEF Formed, Requests
<1>5. Coherent(c)
  BY <1>2, <1>4 DEF Coherent, OneFamily, InRange, SizeFits, Finite
<1> QED
  BY <1>1, <1>3, <1>4, <1>5, Decides, NotConsumed DEF Formed

LEMMA Invariant == Spec => []Inv
<1>1. Init => Inv
  BY DEF Init, Inv
<1>2. Inv /\ [Next]_vars => Inv'
  <2>1. Inv /\ UNCHANGED vars => Inv'
    BY DEF Inv, vars
  <2> QED
    BY <2>1, NewPingDecides, NewTracerouteDecides, NewIperf3Decides, SetOptionDecides,
       SetPacketSizeDecides, SetSourceDecides, SetProtocolDecides, SetVersionDecides,
       SetDirectionDecides DEF Next
<1> QED
  BY <1>1, <1>2, PTL DEF Spec

-----------------------------------------------------------------------------
(* However many setters are called and in whatever order, a request that can *)
(* be sent is coherent as a whole.                                           *)
THEOREM RequestsAreCoherent == Spec => []RequestCoherent
<1>1. Inv => RequestCoherent
  BY DEF Inv, RequestCoherent
<1> QED
  BY <1>1, Invariant, PTL

(* However many setters came before, none refuses what would be coherent. *)
THEOREM RefusalsAreJustified == Spec => []RefusalJustified
<1>1. Inv => RefusalJustified
  BY DEF Inv, RefusalJustified
<1> QED
  BY <1>1, Invariant, PTL

-----------------------------------------------------------------------------
(* The body is joined from parts, and the names of no two parts meet. *)
Values == Nat \cup Hosts \cup Sources \cup {"tcp", "udp", "icmp", "true"}

Fits(s, names) ==
  /\ s \in Seq([key: names, value: Values])
  /\ \A i, j \in DOMAIN s : s[i].key = s[j].key => i = j

Pairs(s) == {s[i] : i \in DOMAIN s}
Pair(key, value) == [key |-> key, value |-> value]

LEMMA Joined ==
  ASSUME NEW s, NEW t, NEW K, NEW L, Fits(s, K), Fits(t, L), K \cap L = {}
  PROVE  Fits(s \o t, K \cup L) /\ Pairs(s \o t) = Pairs(s) \cup Pairs(t)
<1> DEFINE E == [key: K \cup L, value: Values]
<1>0. /\ s \in Seq([key: K, value: Values]) /\ t \in Seq([key: L, value: Values])
      /\ [key: K, value: Values] \subseteq E /\ [key: L, value: Values] \subseteq E
  BY DEF Fits
<1>1. s \in Seq(E) /\ t \in Seq(E)
  <2>1. \A S, T : S \subseteq T => Seq(S) \subseteq Seq(T)
    OBVIOUS
  <2> HIDE DEF E
  <2> QED
    BY <1>0, <2>1
<1>2. /\ s \o t \in Seq(E) /\ DOMAIN (s \o t) = 1..(Len(s) + Len(t))
      /\ DOMAIN s = 1..Len(s) /\ DOMAIN t = 1..Len(t) /\ Len(s) \in Nat /\ Len(t) \in Nat
      /\ \A i \in 1..Len(s) : (s \o t)[i] = s[i]
      /\ \A i \in 1..Len(t) : (s \o t)[Len(s) + i] = t[i]
  <2> HIDE DEF E
  <2> QED
    BY <1>1
<1>3. /\ \A i \in DOMAIN s : s[i].key \in K
      /\ \A i \in DOMAIN t : t[i].key \in L
  <2>1. \A S : \A u \in Seq(S) : \A i \in DOMAIN u : u[i] \in S
    OBVIOUS
  <2>2. /\ \A i \in DOMAIN s : s[i] \in [key: K, value: Values]
        /\ \A i \in DOMAIN t : t[i] \in [key: L, value: Values]
    BY <1>0, <2>1
  <2> QED
    BY <2>2
<1>4. ASSUME NEW i \in DOMAIN (s \o t)
      PROVE  \/ i \in DOMAIN s /\ (s \o t)[i] = s[i]
             \/ i - Len(s) \in DOMAIN t /\ (s \o t)[i] = t[i - Len(s)]
  <2>1. CASE i <= Len(s)
    BY <1>2, <1>4, <2>1
  <2>2. CASE i > Len(s)
    <3>1. i - Len(s) \in 1..Len(t) /\ i = Len(s) + (i - Len(s))
      BY <1>2, <1>4, <2>2
    <3> QED
      BY <1>2, <3>1
  <2> QED
    BY <1>2, <1>4, <2>1, <2>2
<1>5. ASSUME NEW i \in DOMAIN (s \o t), NEW j \in DOMAIN (s \o t),
             (s \o t)[i].key = (s \o t)[j].key
      PROVE  i = j
  <2>1. i \in Int /\ j \in Int /\ Len(s) \in Int
    BY <1>2
  <2>2. CASE i \in DOMAIN s /\ (s \o t)[i] = s[i]
    <3>1. j \in DOMAIN s /\ (s \o t)[j] = s[j]
      BY <1>3, <1>4, <1>5, <2>2
    <3> QED
      BY <1>5, <2>2, <3>1 DEF Fits
  <2>3. CASE i - Len(s) \in DOMAIN t /\ (s \o t)[i] = t[i - Len(s)]
    <3>1. j - Len(s) \in DOMAIN t /\ (s \o t)[j] = t[j - Len(s)]
      BY <1>3, <1>4, <1>5, <2>3
    <3>2. i - Len(s) = j - Len(s)
      BY <1>5, <2>3, <3>1 DEF Fits
    <3> QED
      BY <2>1, <3>2
  <2> QED
    BY <1>4, <2>2, <2>3
<1>6. Pairs(s \o t) \subseteq Pairs(s) \cup Pairs(t)
  BY <1>4 DEF Pairs
<1>7. Pairs(s) \subseteq Pairs(s \o t)
  BY <1>2 DEF Pairs
<1>8. Pairs(t) \subseteq Pairs(s \o t)
  <2>1. \A i \in DOMAIN t : Len(s) + i \in DOMAIN (s \o t)
    BY <1>2
  <2> QED
    BY <1>2, <2>1 DEF Pairs
<1> QED
  BY <1>2, <1>5, <1>6, <1>7, <1>8 DEF Fits

LEMMA Parts ==
  ASSUME NEW key, NEW value \in Values
  PROVE  /\ Fits(Entry(key, value), {key}) /\ Pairs(Entry(key, value)) = {Pair(key, value)}
         /\ Fits(<<>>, {key}) /\ Pairs(<<>>) = {}
  BY DEF Fits, Pairs, Pair, Entry

LEMMA OptionParts ==
  ASSUME NEW r, Formed(r), NEW name
  PROVE  /\ Fits(Option(r, name), {name})
         /\ Pairs(Option(r, name)) = {Pair(o, r.options[o]) : o \in DOMAIN r.options \cap {name}}
<1>1. \A o \in DOMAIN r.options : r.options[o] \in Values
  BY DEF Formed, Options, Values
<1>2. CASE name \in DOMAIN r.options
  <2>1. Option(r, name) = Entry(name, r.options[name])
    BY <1>2 DEF Option
  <2>2. {Pair(o, r.options[o]) : o \in DOMAIN r.options \cap {name}}
          = {Pair(name, r.options[name])}
    BY <1>2
  <2> QED
    BY <1>1, <1>2, <2>1, <2>2, Parts
<1>3. CASE name \notin DOMAIN r.options
  <2>1. Option(r, name) = <<>>
    BY <1>3 DEF Option
  <2>2. {Pair(o, r.options[o]) : o \in DOMAIN r.options \cap {name}} = {}
    BY <1>3
  <2>3. Fits(<<>>, {name}) /\ Pairs(<<>>) = {}
    BY DEF Fits, Pairs
  <2> QED
    BY <2>1, <2>2, <2>3
<1> QED
  BY <1>2, <1>3

LEMMA WhenParts ==
  ASSUME NEW condition \in BOOLEAN, NEW key, NEW value, condition => value \in Values
  PROVE  /\ Fits(When(condition, Entry(key, value)), {key})
         /\ Pairs(When(condition, Entry(key, value)))
              = IF condition THEN {Pair(key, value)} ELSE {}
<1>1. Fits(<<>>, {key}) /\ Pairs(<<>>) = {}
  BY DEF Fits, Pairs
<1>2. CASE condition
  BY <1>2, Parts DEF When
<1>3. CASE ~condition
  BY <1>1, <1>3 DEF When
<1> QED
  BY <1>2, <1>3

LEMMA SourceParts ==
  ASSUME NEW r, Formed(r)
  PROVE  /\ Fits(SourceBody(r), {"source-address", "source-interface"})
         /\ r.source \in Families => Pair("source-address", r.source) \in Pairs(SourceBody(r))
         /\ r.source = "interface" =>
              Pair("source-interface", r.source) \in Pairs(SourceBody(r))
<1> DEFINE a == When(r.source \in Families, Entry("source-address", r.source))
           b == When(r.source = "interface", Entry("source-interface", r.source))
<1>0. (r.source \in Families) \in BOOLEAN /\ (r.source = "interface") \in BOOLEAN
  OBVIOUS
<1>1. r.source \in Families => r.source \in Values
  BY DEF Values, Sources
<1>2. r.source = "interface" => r.source \in Values
  BY DEF Values, Sources
<1>3. /\ Fits(a, {"source-address"})
      /\ Pairs(a) = IF r.source \in Families THEN {Pair("source-address", r.source)} ELSE {}
  BY <1>0, <1>1, WhenParts
<1>4. /\ Fits(b, {"source-interface"})
      /\ Pairs(b) = IF r.source = "interface" THEN {Pair("source-interface", r.source)} ELSE {}
  BY <1>0, <1>2, WhenParts
<1>5. SourceBody(r) = a \o b
  BY DEF SourceBody
<1> HIDE DEF a, b
<1>6. {"source-address"} \cap {"source-interface"} = {}
  OBVIOUS
<1>7. /\ Fits(a \o b, {"source-address"} \cup {"source-interface"})
      /\ Pairs(a \o b) = Pairs(a) \cup Pairs(b)
  BY <1>3, <1>4, <1>6, Joined
<1>8. {"source-address"} \cup {"source-interface"} = {"source-address", "source-interface"}
  OBVIOUS
<1> QED
  BY <1>3, <1>4, <1>5, <1>7, <1>8

(* A body grows by its options; Unambiguous is what it must say of them. *)
Chosen(r, name) == {Pair(o, r.options[o]) : o \in DOMAIN r.options \cap {name}}

LEMMA OptionJoined ==
  ASSUME NEW r, Formed(r), NEW s, NEW K, NEW name, Fits(s, K), name \notin K
  PROVE  /\ Fits(s \o Option(r, name), K \cup {name})
         /\ Pairs(s \o Option(r, name)) = Pairs(s) \cup Chosen(r, name)
<1>1. K \cap {name} = {}
  OBVIOUS
<1>2. /\ Fits(Option(r, name), {name})
      /\ Pairs(Option(r, name)) = Chosen(r, name)
  BY OptionParts DEF Chosen
<1> QED
  BY <1>1, <1>2, Joined

LEMMA ValuesOf ==
  ASSUME NEW r, Formed(r)
  PROVE  /\ r.host \in Values /\ r.limit.value \in Values
         /\ r.protocol # "none" => r.protocol \in Values
         /\ r.source # "none" => r.source \in Values /\ r.source \in Sources
         /\ r.tool = "iperf3" =>
              /\ r.version \in Families /\ r.protocol \in {"tcp", "udp"}
              /\ r.limit.unit \in {"time", "bytes"}
         /\ r.tool = "traceroute" => r.protocol # "none"
         /\ "true" \in Values
  BY DEF Formed, Requests, Values, Hosts, Sources, Families

Source(r) ==
  IF r.tool \in {"ping", "ping6"} THEN "source"
  ELSE IF r.source = "interface" THEN "source-interface" ELSE "source-address"

Unambiguous(r, body) ==
  /\ \E names :
       /\ Fits(body, names)
       /\ r.tool = "iperf3" =>
            names \cap {"ipv4", "ipv6", "tcp", "udp", "time", "bytes"}
              \subseteq {r.version, r.protocol, r.limit.unit}
  /\ \A o \in DOMAIN r.options : Pair(o, r.options[o]) \in Pairs(body)
  /\ r.source # "none" => Pair(Source(r), r.source) \in Pairs(body)
  /\ r.tool = "iperf3" =>
       {r.version, r.protocol, r.limit.unit} \subseteq {p.key : p \in Pairs(body)}

LEMMA PingUnambiguous ==
  ASSUME NEW r, Formed(r), r.tool \in {"ping", "ping6"}
  PROVE  Unambiguous(r, PingBody(r))
<1> DEFINE b1 == Entry("host", r.host)
           b2 == b1 \o Option(r, "count")
           b3 == b2 \o Option(r, "packetsize")
           b4 == b3 \o Option(r, "sequence_id")
           b5 == b4 \o When(r.source # "none", Entry("source", r.source))
           b6 == b5 \o Option(r, "tos")
           b7 == b6 \o Option(r, "ttl")
           K1 == {"host"}
           K2 == K1 \cup {"count"}
           K3 == K2 \cup {"packetsize"}
           K4 == K3 \cup {"sequence_id"}
           K5 == K4 \cup {"source"}
           K6 == K5 \cup {"tos"}
           K7 == K6 \cup {"ttl"}
<1>1. Fits(b1, K1)
  BY Parts, ValuesOf
<1>2. Fits(b2, K2) /\ Pairs(b2) = Pairs(b1) \cup Chosen(r, "count")
  <2>1. "count" \notin K1
    BY ValuesOf DEF Families
  <2> HIDE DEF b1, K1
  <2> QED
    BY <1>1, <2>1, OptionJoined
<1>3. Fits(b3, K3) /\ Pairs(b3) = Pairs(b2) \cup Chosen(r, "packetsize")
  <2>1. "packetsize" \notin K2
    BY ValuesOf DEF Families
  <2> HIDE DEF b2, K2
  <2> QED
    BY <1>2, <2>1, OptionJoined
<1>4. Fits(b4, K4) /\ Pairs(b4) = Pairs(b3) \cup Chosen(r, "sequence_id")
  <2>1. "sequence_id" \notin K3
    BY ValuesOf DEF Families
  <2> HIDE DEF b3, K3
  <2> QED
    BY <1>3, <2>1, OptionJoined
<1>5. /\ Fits(b5, K5) /\ Pairs(b4) \subseteq Pairs(b5)
      /\ (r.source # "none" => Pair("source", r.source) \in Pairs(b5))
  <2> DEFINE e == When(r.source # "none", Entry("source", r.source))
  <2>1. (r.source # "none") \in BOOLEAN /\ (r.source # "none" => r.source \in Values)
    BY ValuesOf DEF Sources
  <2>2. /\ Fits(e, {"source"})
        /\ (r.source # "none" => Pair("source", r.source) \in Pairs(e))
    <3>1. /\ Fits(e, {"source"})
          /\ Pairs(e) = IF r.source # "none" THEN {Pair("source", r.source)} ELSE {}
      BY <2>1, WhenParts
    <3> QED
      BY <3>1
  <2>3. K4 \cap {"source"} = {}
    BY ValuesOf DEF Families
  <2> HIDE DEF b4, K4, e
  <2>4. b5 = b4 \o e /\ K5 = K4 \cup {"source"}
    BY DEF e
  <2>5. Fits(b4 \o e, K5) /\ Pairs(b4 \o e) = Pairs(b4) \cup Pairs(e)
    BY <1>4, <2>2, <2>3, Joined
  <2> QED
    BY <2>2, <2>4, <2>5
<1>6. Fits(b6, K6) /\ Pairs(b6) = Pairs(b5) \cup Chosen(r, "tos")
  <2>1. "tos" \notin K5
    BY ValuesOf DEF Families
  <2> HIDE DEF b5, K5
  <2> QED
    BY <1>5, <2>1, OptionJoined
<1>7. Fits(b7, K7) /\ Pairs(b7) = Pairs(b6) \cup Chosen(r, "ttl")
  <2>1. "ttl" \notin K6
    BY ValuesOf DEF Families
  <2> HIDE DEF b6, K6
  <2> QED
    BY <1>6, <2>1, OptionJoined
<1>8. PingBody(r) = b7
  BY DEF PingBody
<1> HIDE DEF b1, b2, b3, b4, b5, b6, b7, K7
<1>9. DOMAIN r.options \subseteq {"count", "packetsize", "sequence_id", "tos", "ttl"}
  BY DEF Formed, Options, OptionNames, Settings, PingSettings
<1>10. \A o \in DOMAIN r.options : Pair(o, r.options[o]) \in Pairs(b7)
  BY <1>2, <1>3, <1>4, <1>5, <1>6, <1>7, <1>9 DEF Chosen
<1>11. r.source # "none" => Pair("source", r.source) \in Pairs(b7)
  BY <1>5, <1>6, <1>7
<1>12. Source(r) = "source" /\ r.tool # "iperf3"
  BY DEF Source
<1> QED
  BY <1>7, <1>8, <1>10, <1>11, <1>12 DEF Unambiguous

LEMMA TracerouteUnambiguous ==
  ASSUME NEW r, Formed(r), r.tool = "traceroute"
  PROVE  Unambiguous(r, TracerouteBody(r))
<1> DEFINE b1 == Entry("host", r.host)
           b2 == b1 \o Option(r, "count")
           b3 == b2 \o Option(r, "interval")
           b4 == b3 \o Option(r, "wait_time")
           b5 == b4 \o Option(r, "packetsize")
           b6 == b5 \o Option(r, "max_ttl")
           b7 == b6 \o Option(r, "port")
           b8 == b7 \o SourceBody(r)
           b9 == b8 \o Entry("type", r.protocol)
           b10 == b9 \o Option(r, "tos")
           K1 == {"host"}
           K2 == K1 \cup {"count"}
           K3 == K2 \cup {"interval"}
           K4 == K3 \cup {"wait_time"}
           K5 == K4 \cup {"packetsize"}
           K6 == K5 \cup {"max_ttl"}
           K7 == K6 \cup {"port"}
           K8 == K7 \cup {"source-address", "source-interface"}
           K9 == K8 \cup {"type"}
           K10 == K9 \cup {"tos"}
<1>1. Fits(b1, K1)
  BY Parts, ValuesOf
<1>2. Fits(b2, K2) /\ Pairs(b2) = Pairs(b1) \cup Chosen(r, "count")
  <2>1. "count" \notin K1
    BY ValuesOf DEF Families
  <2> HIDE DEF b1, K1
  <2> QED
    BY <1>1, <2>1, OptionJoined
<1>3. Fits(b3, K3) /\ Pairs(b3) = Pairs(b2) \cup Chosen(r, "interval")
  <2>1. "interval" \notin K2
    BY ValuesOf DEF Families
  <2> HIDE DEF b2, K2
  <2> QED
    BY <1>2, <2>1, OptionJoined
<1>4. Fits(b4, K4) /\ Pairs(b4) = Pairs(b3) \cup Chosen(r, "wait_time")
  <2>1. "wait_time" \notin K3
    BY ValuesOf DEF Families
  <2> HIDE DEF b3, K3
  <2> QED
    BY <1>3, <2>1, OptionJoined
<1>5. Fits(b5, K5) /\ Pairs(b5) = Pairs(b4) \cup Chosen(r, "packetsize")
  <2>1. "packetsize" \notin K4
    BY ValuesOf DEF Families
  <2> HIDE DEF b4, K4
  <2> QED
    BY <1>4, <2>1, OptionJoined
<1>6. Fits(b6, K6) /\ Pairs(b6) = Pairs(b5) \cup Chosen(r, "max_ttl")
  <2>1. "max_ttl" \notin K5
    BY ValuesOf DEF Families
  <2> HIDE DEF b5, K5
  <2> QED
    BY <1>5, <2>1, OptionJoined
<1>7. Fits(b7, K7) /\ Pairs(b7) = Pairs(b6) \cup Chosen(r, "port")
  <2>1. "port" \notin K6
    BY ValuesOf DEF Families
  <2> HIDE DEF b6, K6
  <2> QED
    BY <1>6, <2>1, OptionJoined
<1>8. /\ Fits(b8, K8) /\ Pairs(b7) \subseteq Pairs(b8)
      /\ (r.source # "none" => Pair(Source(r), r.source) \in Pairs(b8))
  <2> DEFINE e == SourceBody(r)
  <2>1. r.source # "none" => r.source \in Families \cup {"interface"}
    BY ValuesOf DEF Sources
  <2>2. /\ Fits(e, {"source-address", "source-interface"})
        /\ (r.source # "none" => Pair(Source(r), r.source) \in Pairs(e))
    BY <2>1, SourceParts DEF Source, Families
  <2>3. K7 \cap {"source-address", "source-interface"} = {}
    BY ValuesOf DEF Families
  <2> HIDE DEF b7, K7, e
  <2>4. b8 = b7 \o e /\ K8 = K7 \cup {"source-address", "source-interface"}
    BY DEF e
  <2>5. Fits(b7 \o e, K8) /\ Pairs(b7 \o e) = Pairs(b7) \cup Pairs(e)
    BY <1>7, <2>2, <2>3, Joined
  <2> QED
    BY <2>2, <2>4, <2>5
<1>9. /\ Fits(b9, K9) /\ Pairs(b8) \subseteq Pairs(b9)
      /\ Pair("type", r.protocol) \in Pairs(b9)
  <2> DEFINE e == Entry("type", r.protocol)
  <2>1. r.protocol \in Values
    BY ValuesOf DEF Sources
  <2>2. /\ Fits(e, {"type"})
        /\ Pair("type", r.protocol) \in Pairs(e)
    BY <2>1, Parts
  <2>3. K8 \cap {"type"} = {}
    BY ValuesOf DEF Families
  <2> HIDE DEF b8, K8, e
  <2>4. b9 = b8 \o e /\ K9 = K8 \cup {"type"}
    BY DEF e
  <2>5. Fits(b8 \o e, K9) /\ Pairs(b8 \o e) = Pairs(b8) \cup Pairs(e)
    BY <1>8, <2>2, <2>3, Joined
  <2> QED
    BY <2>2, <2>4, <2>5
<1>10. Fits(b10, K10) /\ Pairs(b10) = Pairs(b9) \cup Chosen(r, "tos")
  <2>1. "tos" \notin K9
    BY ValuesOf DEF Families
  <2> HIDE DEF b9, K9
  <2> QED
    BY <1>9, <2>1, OptionJoined
<1>11. TracerouteBody(r) = b10
  BY DEF TracerouteBody
<1> HIDE DEF b1, b2, b3, b4, b5, b6, b7, b8, b9, b10, K10
<1>12. DOMAIN r.options \subseteq {"count", "interval", "wait_time", "packetsize", "max_ttl",
                                 "port", "tos"}
  BY DEF Formed, Options, OptionNames, Settings, TracerouteSettings
<1>13. \A o \in DOMAIN r.options : Pair(o, r.options[o]) \in Pairs(b10)
  BY <1>2, <1>3, <1>4, <1>5, <1>6, <1>7, <1>8, <1>9, <1>10, <1>12 DEF Chosen
<1>14. r.source # "none" => Pair(Source(r), r.source) \in Pairs(b10)
  BY <1>8, <1>9, <1>10
<1> QED
  BY <1>10, <1>11, <1>13, <1>14 DEF Unambiguous

LEMMA Iperf3Unambiguous ==
  ASSUME NEW r, Formed(r), r.tool = "iperf3"
  PROVE  Unambiguous(r, Iperf3Body(r))
<1> DEFINE b1 == Entry("host", r.host)
           b2 == b1 \o Entry(r.version, "true")
           b3 == b2 \o Entry(r.protocol, "true")
           b4 == b3 \o When(r.direction = "download", Entry("reverse", "true"))
           b5 == b4 \o Option(r, "port")
           b6 == b5 \o Option(r, "bitrate")
           b7 == b6 \o Option(r, "streams")
           b8 == b7 \o Entry(r.limit.unit, r.limit.value)
           b9 == b8 \o SourceBody(r)
           K1 == {"host"}
           K2 == K1 \cup {r.version}
           K3 == K2 \cup {r.protocol}
           K4 == K3 \cup {"reverse"}
           K5 == K4 \cup {"port"}
           K6 == K5 \cup {"bitrate"}
           K7 == K6 \cup {"streams"}
           K8 == K7 \cup {r.limit.unit}
           K9 == K8 \cup {"source-address", "source-interface"}
<1>1. Fits(b1, K1)
  BY Parts, ValuesOf
<1>2. /\ Fits(b2, K2) /\ Pairs(b1) \subseteq Pairs(b2)
      /\ Pair(r.version, "true") \in Pairs(b2)
  <2> DEFINE e == Entry(r.version, "true")
  <2>1. "true" \in Values
    BY ValuesOf DEF Sources
  <2>2. /\ Fits(e, {r.version})
        /\ Pair(r.version, "true") \in Pairs(e)
    BY <2>1, Parts
  <2>3. K1 \cap {r.version} = {}
    BY ValuesOf DEF Families
  <2> HIDE DEF b1, K1, e
  <2>4. b2 = b1 \o e /\ K2 = K1 \cup {r.version}
    BY DEF e
  <2>5. Fits(b1 \o e, K2) /\ Pairs(b1 \o e) = Pairs(b1) \cup Pairs(e)
    BY <1>1, <2>2, <2>3, Joined
  <2> QED
    BY <2>2, <2>4, <2>5
<1>3. /\ Fits(b3, K3) /\ Pairs(b2) \subseteq Pairs(b3)
      /\ Pair(r.protocol, "true") \in Pairs(b3)
  <2> DEFINE e == Entry(r.protocol, "true")
  <2>1. "true" \in Values
    BY ValuesOf DEF Sources
  <2>2. /\ Fits(e, {r.protocol})
        /\ Pair(r.protocol, "true") \in Pairs(e)
    BY <2>1, Parts
  <2>3. K2 \cap {r.protocol} = {}
    BY ValuesOf DEF Families
  <2> HIDE DEF b2, K2, e
  <2>4. b3 = b2 \o e /\ K3 = K2 \cup {r.protocol}
    BY DEF e
  <2>5. Fits(b2 \o e, K3) /\ Pairs(b2 \o e) = Pairs(b2) \cup Pairs(e)
    BY <1>2, <2>2, <2>3, Joined
  <2> QED
    BY <2>2, <2>4, <2>5
<1>4. /\ Fits(b4, K4) /\ Pairs(b3) \subseteq Pairs(b4)
  <2> DEFINE e == When(r.direction = "download", Entry("reverse", "true"))
  <2>1. (r.direction = "download") \in BOOLEAN /\ "true" \in Values
    BY ValuesOf DEF Sources
  <2>2. /\ Fits(e, {"reverse"})
    BY <2>1, WhenParts
  <2>3. K3 \cap {"reverse"} = {}
    BY ValuesOf DEF Families
  <2> HIDE DEF b3, K3, e
  <2>4. b4 = b3 \o e /\ K4 = K3 \cup {"reverse"}
    BY DEF e
  <2>5. Fits(b3 \o e, K4) /\ Pairs(b3 \o e) = Pairs(b3) \cup Pairs(e)
    BY <1>3, <2>2, <2>3, Joined
  <2> QED
    BY <2>2, <2>4, <2>5
<1>5. Fits(b5, K5) /\ Pairs(b5) = Pairs(b4) \cup Chosen(r, "port")
  <2>1. "port" \notin K4
    BY ValuesOf DEF Families
  <2> HIDE DEF b4, K4
  <2> QED
    BY <1>4, <2>1, OptionJoined
<1>6. Fits(b6, K6) /\ Pairs(b6) = Pairs(b5) \cup Chosen(r, "bitrate")
  <2>1. "bitrate" \notin K5
    BY ValuesOf DEF Families
  <2> HIDE DEF b5, K5
  <2> QED
    BY <1>5, <2>1, OptionJoined
<1>7. Fits(b7, K7) /\ Pairs(b7) = Pairs(b6) \cup Chosen(r, "streams")
  <2>1. "streams" \notin K6
    BY ValuesOf DEF Families
  <2> HIDE DEF b6, K6
  <2> QED
    BY <1>6, <2>1, OptionJoined
<1>8. /\ Fits(b8, K8) /\ Pairs(b7) \subseteq Pairs(b8)
      /\ Pair(r.limit.unit, r.limit.value) \in Pairs(b8)
  <2> DEFINE e == Entry(r.limit.unit, r.limit.value)
  <2>1. r.limit.value \in Values
    BY ValuesOf DEF Sources
  <2>2. /\ Fits(e, {r.limit.unit})
        /\ Pair(r.limit.unit, r.limit.value) \in Pairs(e)
    BY <2>1, Parts
  <2>3. K7 \cap {r.limit.unit} = {}
    BY ValuesOf DEF Families
  <2> HIDE DEF b7, K7, e
  <2>4. b8 = b7 \o e /\ K8 = K7 \cup {r.limit.unit}
    BY DEF e
  <2>5. Fits(b7 \o e, K8) /\ Pairs(b7 \o e) = Pairs(b7) \cup Pairs(e)
    BY <1>7, <2>2, <2>3, Joined
  <2> QED
    BY <2>2, <2>4, <2>5
<1>9. /\ Fits(b9, K9) /\ Pairs(b8) \subseteq Pairs(b9)
      /\ (r.source # "none" => Pair(Source(r), r.source) \in Pairs(b9))
  <2> DEFINE e == SourceBody(r)
  <2>1. r.source # "none" => r.source \in Families \cup {"interface"}
    BY ValuesOf DEF Sources
  <2>2. /\ Fits(e, {"source-address", "source-interface"})
        /\ (r.source # "none" => Pair(Source(r), r.source) \in Pairs(e))
    BY <2>1, SourceParts DEF Source, Families
  <2>3. K8 \cap {"source-address", "source-interface"} = {}
    BY ValuesOf DEF Families
  <2> HIDE DEF b8, K8, e
  <2>4. b9 = b8 \o e /\ K9 = K8 \cup {"source-address", "source-interface"}
    BY DEF e
  <2>5. Fits(b8 \o e, K9) /\ Pairs(b8 \o e) = Pairs(b8) \cup Pairs(e)
    BY <1>8, <2>2, <2>3, Joined
  <2> QED
    BY <2>2, <2>4, <2>5
<1>10. Iperf3Body(r) = b9
  BY DEF Iperf3Body
<1> HIDE DEF b1, b2, b3, b4, b5, b6, b7, b8, b9, K9
<1>11. DOMAIN r.options \subseteq {"port", "bitrate", "streams"}
  BY DEF Formed, Options, OptionNames, Settings, Iperf3Settings
<1>12. \A o \in DOMAIN r.options : Pair(o, r.options[o]) \in Pairs(b9)
  BY <1>5, <1>6, <1>7, <1>8, <1>9, <1>11 DEF Chosen
<1>13. r.source # "none" => Pair(Source(r), r.source) \in Pairs(b9)
  BY <1>9
<1>14. {r.version, r.protocol, r.limit.unit} \subseteq {p.key : p \in Pairs(b9)}
  BY <1>2, <1>3, <1>4, <1>5, <1>6, <1>7, <1>8, <1>9 DEF Pair
<1>15. r.version \in Families /\ r.protocol \in {"tcp", "udp"} /\ r.limit.unit \in {"time", "bytes"}
  BY DEF Formed
<1>16. \E names :
           /\ Fits(b9, names)
           /\ names \cap {"ipv4", "ipv6", "tcp", "udp", "time", "bytes"}
                \subseteq {r.version, r.protocol, r.limit.unit}
  BY <1>9, <1>15 DEF K9, Families
<1> QED
  BY <1>16, <1>10, <1>12, <1>13, <1>14 DEF Unambiguous

LEMMA BodiesAreUnambiguous ==
  ASSUME NEW r, Formed(r)
  PROVE  Unambiguous(r, Body(r))
<1>1. r.tool \in Tools
  BY DEF Formed, Requests
<1> QED
  BY <1>1, PingUnambiguous, TracerouteUnambiguous, Iperf3Unambiguous DEF Body, Tools

(* Whatever was set, the serialized request names each key once, has every    *)
(* option and the source as given, and leaves the router nothing to choose.   *)
THEOREM BodiesSayItOnce == Spec => []BodyUnambiguous
<1>1. Inv => BodyUnambiguous
  <2> SUFFICES ASSUME Formed(request)
               PROVE  BodyUnambiguous
    BY DEF Inv, BodyUnambiguous
  <2> DEFINE r == request
             body == Body(r)
             keys == {body[i].key : i \in DOMAIN body}
             Has(key, value) == \E i \in DOMAIN body : body[i].key = key /\ body[i].value = value
  <2>1. Unambiguous(r, body)
    BY BodiesAreUnambiguous
  <2> HIDE DEF body
  <2>2. \A i, j \in DOMAIN body : body[i].key = body[j].key => i = j
    BY <2>1 DEF Unambiguous, Fits
  <2>3. \A key, value : Pair(key, value) \in Pairs(body) => Has(key, value)
    BY DEF Pair, Pairs
  <2>4. keys = {p.key : p \in Pairs(body)}
    BY DEF Pairs
  <2>5. r.source # "none" => Has(Source(r), r.source)
    BY <2>1, <2>3 DEF Unambiguous
  <2>6. \A o \in DOMAIN r.options : Has(o, r.options[o])
    BY <2>1, <2>3 DEF Unambiguous
  <2>7. ASSUME r.tool = "iperf3"
        PROVE  /\ keys \cap Families = {r.version}
               /\ keys \cap {"tcp", "udp"} = {r.protocol}
               /\ keys \cap {"time", "bytes"} = {r.limit.unit}
    <3>1. r.version \in Families /\ r.protocol \in {"tcp", "udp"} /\ r.limit.unit \in {"time", "bytes"}
      BY <2>7, ValuesOf
    <3>2. {r.version, r.protocol, r.limit.unit} \subseteq keys
      BY <2>1, <2>4, <2>7 DEF Unambiguous
    <3>3. PICK names :
            /\ Fits(body, names)
            /\ names \cap {"ipv4", "ipv6", "tcp", "udp", "time", "bytes"}
                 \subseteq {r.version, r.protocol, r.limit.unit}
      BY <2>1, <2>7 DEF Unambiguous
    <3>4. \A S : \A u \in Seq(S) : \A i \in DOMAIN u : u[i] \in S
      OBVIOUS
    <3>5. \A i \in DOMAIN body : body[i] \in [key: names, value: Values]
      BY <3>3, <3>4 DEF Fits
    <3>6. keys \subseteq names
      BY <3>5
    <3> HIDE DEF keys
    <3> QED
      BY <3>1, <3>2, <3>3, <3>6 DEF Families
  <2>8. r.tool = "iperf3" =>
          /\ \E f \in Families : keys \cap Families = {f}
          /\ \E p \in {"tcp", "udp"} : keys \cap {"tcp", "udp"} = {p}
          /\ \E u \in {"time", "bytes"} : keys \cap {"time", "bytes"} = {u}
    BY <2>7, ValuesOf
  <2> QED
    BY <2>2, <2>5, <2>6, <2>8 DEF BodyUnambiguous, Source, body
<1> QED
  BY <1>1, Invariant, PTL
===============================================================================

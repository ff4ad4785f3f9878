------------------------------ MODULE Requests ------------------------------
(***************************************************************************)
(* The public methods of src/client.rs that send one request, over the     *)
(* typed requests of src/request.rs and the paths of RciPath: what each    *)
(* prepares when it is called and when its future is first polled, and     *)
(* what request its error names (RequestContext of src/error.rs).          *)
(*                                                                         *)
(* "data" is the name, query or body of a call, which the caller owns and  *)
(* may change while the future waits to be polled.                         *)
(***************************************************************************)
EXTENDS RciPath

CONSTANTS
  MaxCalled,  \* bound: symbols of a path that a request is sent to
  Data,       \* bound: what a caller passes
  Bad         \* bound: what of it cannot be serialized or is no valid name

ASSUME DataAssumption == MaxCalled \in Nat /\ Bad \subseteq Data /\ "none" \notin Data

VARIABLES
  data,     \* what the caller holds now
  call,     \* the call: what was asked of which method, and what it prepared
  phase,    \* of its future: "idle", "called", "sent", "returned", "dropped"
  sent,     \* the request the transport has been given
  outcome   \* what the call returned

callVars == <<data, call, phase, sent, outcome>>
allVars == <<value, result, callVars>>

Nothing == [is |-> "nothing"]

(* get_requests!: the endpoint of every typed GET *)
Endpoints ==
  [ShowVersion |-> "show/version", ShowSystem |-> "show/system",
   ShowInternetStatus |-> "show/internet/status", ShowInterfaces |-> "show/interface",
   ShowAssociations |-> "show/associations", ShowIpHotspotHosts |-> "show/ip/hotspot",
   ShowIdentification |-> "show/identification", ShowSystemMode |-> "show/system/mode",
   ShowIpArp |-> "show/ip/arp", ShowIpDhcpBindings |-> "show/ip/dhcp/bindings",
   ShowIpRoute |-> "show/ip/route", ShowIpv6Route |-> "show/ipv6/route",
   ShowPingCheck |-> "show/ping-check", ShowIpNameServers |-> "show/ip/name-server",
   ShowNtpStatus |-> "show/ntp/status", ShowMwsStatus |-> "show/mws/status",
   ShowMwsMembers |-> "show/mws/member", ShowUsb |-> "show/usb", ShowMedia |-> "show/media"]
Tools == {"tools/ping", "tools/ping6", "tools/traceroute", "tools/iperf3"}

Literal(endpoint) == IF endpoint = "" THEN <<>> ELSE <<Symbol(endpoint, FALSE)>>

-----------------------------------------------------------------------------
(* Preparing a request *)

(* RequestContext::new over endpoint(namespace, path): no query, no body *)
Context(method, namespace, path) ==
  [method |-> method, namespace |-> namespace, path |-> path]
AuthContext(method) == Context(method, "auth", <<>>)

Prepare(context, query, body) ==
  [is |-> "request", context |-> context, url |-> [namespace |-> context.namespace,
   path |-> context.path, query |-> query], body |-> body]

Serialization(context) == [is |-> "serialization error", context |-> context]

PrepareGet(namespace, path, query) == Prepare(Context("GET", namespace, path), query, "none")

(* post_at_path; Mutant: the error is made where only POST /rci/ is known. *)
PostAtPathUnnamed(path) ==
  IF data \in Bad THEN Serialization(Context("POST", "rci", <<>>))
  ELSE Prepare(Context("POST", "rci", path), "none", data)

PostAtPath(path) ==
  IF data \in Bad THEN Serialization(Context("POST", "rci", path))
  ELSE Prepare(Context("POST", "rci", path), "none", data)

(* "takes" is how a reply is read: as JSON or as text. *)
Begin(method, namespace, path, takes, prepared) ==
  /\ phase = "idle"
  /\ phase' = "called"
  /\ call' = [is |-> "call", asked |-> Context(method, namespace, path), given |-> data,
              takes |-> takes, prepared |-> prepared]
  /\ UNCHANGED <<value, result, data, sent, outcome>>

ParsedPath == result = "accepted" /\ Len(value) <= MaxCalled
NoPath == value = <<>> /\ result = "none"   \* the endpoint is the method's own

-----------------------------------------------------------------------------
(* The methods *)

Execute ==
  /\ NoPath
  /\ \E request \in DOMAIN Endpoints :
       LET path == Literal(Endpoints[request])
       IN Begin("GET", "rci", path, "json", PrepareGet("rci", path, "none"))

ExecuteInterfaceStat ==
  LET path == Literal("show/interface/stat")
  IN NoPath /\ data \notin Bad /\ Begin("GET", "rci", path, "json", PrepareGet("rci", path, data))

(* ShowInterface and ShowLteInterface, whose body is made with them *)
ExecuteInterface ==
  /\ NoPath /\ data \notin Bad
  /\ Begin("POST", "rci", <<>>, "json", Prepare(Context("POST", "rci", <<>>), "none", data))

StartNetworkTest ==
  /\ NoPath
  /\ \E tool \in Tools : Begin("POST", "rci", Literal(tool), "json", PostAtPath(Literal(tool)))

Get ==
  /\ ParsedPath
  /\ LET path == Canonical(value)
     IN \/ Begin("GET", "rci", path, "json", PrepareGet("rci", path, "none"))
        \/ Begin("GET", "rci", path, "text", PrepareGet("rci", path, "none"))
        \/ Begin("GET", "ci", path, "text", PrepareGet("ci", path, "none"))

GetWithQuery ==
  /\ ParsedPath
  /\ LET path == Canonical(value)
     IN Begin("GET", "rci", path, "json",
              IF data \in Bad THEN Serialization(Context("GET", "rci", path))
              ELSE PrepareGet("rci", path, data))

ExecuteCli ==
  /\ NoPath /\ data \notin Bad
  /\ Begin("POST", "rci", Literal("parse"), "json", PostAtPath(Literal("parse")))

Post == NoPath /\ Begin("POST", "rci", <<>>, "json", PostAtPath(<<>>))

PostAt ==
  ParsedPath /\ Begin("POST", "rci", Canonical(value), "json", PostAtPath(Canonical(value)))

-----------------------------------------------------------------------------
(* The future *)

Change ==
  /\ phase = "called" \/ (phase = "idle" /\ Len(value) <= MaxCalled)
  /\ \E d \in Data : data' = d
  /\ UNCHANGED <<value, result, call, phase, sent, outcome>>

(* Mutant: the data is serialized when the future is polled. *)
PollSerializing ==
  /\ phase = "called"
  /\ IF call.prepared.is = "request"
     THEN /\ phase' = "sent" /\ UNCHANGED outcome
          /\ sent' = [call.prepared EXCEPT !.body = IF @ = "none" THEN @ ELSE data]
     ELSE phase' = "returned" /\ outcome' = call.prepared /\ UNCHANGED sent
  /\ UNCHANGED <<value, result, data, call>>

Poll ==
  /\ phase = "called"
  /\ IF call.prepared.is = "request"
     THEN phase' = "sent" /\ sent' = call.prepared /\ UNCHANGED outcome
     ELSE phase' = "returned" /\ outcome' = call.prepared /\ UNCHANGED sent
  /\ UNCHANGED <<value, result, data, call>>

Drop ==
  /\ phase \in {"called", "sent"}
  /\ phase' = "dropped"
  /\ UNCHANGED <<value, result, data, call, sent, outcome>>

(* send_json, send_text and the exchanges with /auth under them *)
Failures ==
  {[is |-> kind, context |-> sent.context] :
     kind \in {"transport", "http"} \cup (IF call.takes = "json" THEN {"rci", "json", "type"} ELSE {})}
  \cup {[is |-> kind, context |-> AuthContext(method)] :
          kind \in {"transport", "http"}, method \in {"GET", "POST"}}
  \cup {[is |-> "authentication"]}

Return ==
  /\ phase = "sent"
  /\ phase' = "returned"
  /\ outcome' \in Failures \cup {[is |-> "reply"]}
  /\ UNCHANGED <<value, result, data, call, sent>>

Over == phase \in {"returned", "dropped"} /\ UNCHANGED allVars

CallInit ==
  /\ Init
  /\ data = CHOOSE d \in Data : TRUE
  /\ call = Nothing /\ sent = Nothing /\ outcome = Nothing /\ phase = "idle"

CallNext ==
  \/ Next /\ phase = "idle" /\ UNCHANGED callVars
  \/ Execute \/ ExecuteInterfaceStat \/ ExecuteInterface \/ StartNetworkTest
  \/ Get \/ GetWithQuery \/ ExecuteCli \/ Post \/ PostAt
  \/ Change \/ Poll \/ Drop \/ Return \/ Over

CallSpec == CallInit /\ [][CallNext]_allVars

-----------------------------------------------------------------------------
(* Properties *)

(* Whatever goes wrong, and whether or not anything was sent, an error names *)
(* the method and endpoint that were asked for, or /auth, without the query. *)
ErrorsNameTheRequest ==
  /\ outcome.is \in {"serialization error", "transport", "http", "rci", "json", "type"} =>
       outcome.context \in {call.asked, AuthContext("GET"), AuthContext("POST")}
  /\ outcome.is = "serialization error" => outcome.context = call.asked /\ sent = Nothing

(* What is sent goes to the endpoint that was asked for with what the caller *)
(* passed at the call, not what it holds when the future is polled; data     *)
(* that cannot be serialized is not sent.                                    *)
SentAsCalled ==
  sent # Nothing =>
    /\ Context(sent.context.method, sent.url.namespace, sent.url.path) = call.asked
    /\ {sent.url.query, sent.body} \subseteq {"none", call.given} \ Bad
=============================================================================

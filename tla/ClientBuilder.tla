---------------------------- MODULE ClientBuilder ----------------------------
(***************************************************************************)
(* KeeneticClientBuilder of src/client.rs: setters in any order, then      *)
(* build(), which validates what they left and normalizes the base URL.    *)
(* Setters take the builder by value and check nothing.                    *)
(*                                                                         *)
(* A base URL is abstracted to its parts as they are written: a scheme,    *)
(* user information, a host and the tail after the authority.  "http"      *)
(* stands for https too, "ftp" for any other scheme.  As the URL parser    *)
(* (external) reads such a URL, a backslash is a slash and dot segments    *)
(* are resolved; normalize_base_url also looks at the text.                *)
(***************************************************************************)
EXTENDS Naturals, FiniteSets

CONSTANT MaxCalls   \* bound: setters called on one builder

ASSUME MaxCallsAssumption == MaxCalls \in Nat

VARIABLES
  builder,   \* the options
  calls,
  built,     \* what build() returned: nothing yet, an error or a client
  asked      \* history: the setters called, and the last timeout of requests

vars == <<builder, calls, built, asked>>

(* Timeouts, and "absent": the caller's transport has none of its own. *)
Durations == {"zero", "short", "long"}
DefaultRequestTimeout == "long"
DefaultConnectTimeout == "short"
None == "none"

Backslashed == {"\\", "\\rci", "\\base\\.."}
Tails == {"", "/", "/rci", "/.", "/base/..", "?query", "/#fragment"} \cup Backslashed
BaseUrls ==
  [scheme: {"http", "ftp", None}, user: {None, "empty", "named"}, host: {"router"}, tail: Tails]
  \cup [scheme: {"http", "ftp"}, user: {None}, host: {""}, tail: {"", "/"}]
Logins == {"", "admin"}
Transports == {[timeout |-> t] : t \in {"absent", "short"}}
NoUrl == [scheme |-> "unset"]
NoTransport == [timeout |-> "unset"]

NothingYet == [status |-> "none"]
Refused(error) == [status |-> "error", error |-> error]

Init ==
  /\ builder = [baseUrl |-> NoUrl, login |-> None, transport |-> NoTransport,
                requestTimeout |-> DefaultRequestTimeout,
                connectTimeout |-> DefaultConnectTimeout, connectExplicit |-> FALSE]
  /\ calls = 0
  /\ built = NothingYet
  /\ asked = [setters |-> {}, requestTimeout |-> DefaultRequestTimeout]

-----------------------------------------------------------------------------
(* The setters *)

Call(name) ==
  /\ built = NothingYet /\ calls < MaxCalls
  /\ calls' = calls + 1
  /\ UNCHANGED built

Set(name, options) ==
  /\ Call(name)
  /\ builder' = options
  /\ asked' = [asked EXCEPT !.setters = @ \cup {name}]

BaseUrl == \E url \in BaseUrls : Set("base_url", [builder EXCEPT !.baseUrl = url])

SetCredentials ==
  \E login \in Logins : Set("credentials", [builder EXCEPT !.login = login])

HttpClient ==
  \E transport \in Transports :
    Set("http_client", [builder EXCEPT !.transport = transport])

RequestTimeout ==
  \E timeout \in Durations :
    /\ Call("request_timeout")
    /\ builder' = [builder EXCEPT !.requestTimeout = timeout]
    /\ asked' = [setters |-> asked.setters \cup {"request_timeout"}, requestTimeout |-> timeout]

(* Mutant: an explicit connect timeout is not remembered as such. *)
ConnectTimeoutImplicit ==
  \E timeout \in Durations :
    Set("connect_timeout", [builder EXCEPT !.connectTimeout = timeout])

ConnectTimeout ==
  \E timeout \in Durations :
    Set("connect_timeout",
        [builder EXCEPT !.connectTimeout = timeout, !.connectExplicit = TRUE])

-----------------------------------------------------------------------------
(* normalize_base_url *)

(* The authority ends at a slash, "?" or "#"; a backslash does not end it. *)
WrittenTail(url) == IF url.tail \in Backslashed THEN "" ELSE url.tail

(* Url::parse: does the URL parse, and what follows its authority then? *)
Parses(url) == url.scheme # None /\ url.host # ""
ParsedTail(url) ==
  CASE url.tail \in {"", "/", "/.", "/base/..", "\\", "\\base\\.."} -> "/"
    [] url.tail \in {"/rci", "\\rci"} -> "/rci"
    [] OTHER -> url.tail

(* Mutant: only the parsed path is looked at. *)
UrlErrorParsed(url) ==
  IF url.scheme = None THEN "InvalidBaseUrl"
  ELSE IF url.user # None THEN "EmbeddedCredentials"
  ELSE IF ~Parses(url) THEN "InvalidBaseUrl"
  ELSE IF url.scheme # "http" THEN "UnsupportedScheme"
  ELSE IF ParsedTail(url) # "/" THEN "NotAnOrigin"
  ELSE None

UrlError(url) ==
  IF url.scheme = None THEN "InvalidBaseUrl"
  ELSE IF url.user # None THEN "EmbeddedCredentials"
  ELSE IF WrittenTail(url) \notin {"", "/"} THEN "NotAnOrigin"
  ELSE IF ~Parses(url) THEN "InvalidBaseUrl"
  ELSE IF url.scheme # "http" THEN "UnsupportedScheme"
  ELSE IF ParsedTail(url) # "/" THEN "NotAnOrigin"
  ELSE None

(* build(): the first check that fails, in the code's order. *)
BuildError ==
  IF builder.requestTimeout = "zero" THEN "ZeroRequestTimeout"
  ELSE IF builder.connectTimeout = "zero" THEN "ZeroConnectTimeout"
  ELSE IF builder.transport # NoTransport /\ builder.connectExplicit THEN "ConnectTimeoutWithHttpClient"
  ELSE IF builder.login = "" THEN "EmptyLogin"
  ELSE IF builder.baseUrl = NoUrl THEN "MissingBaseUrl"
  ELSE UrlError(builder.baseUrl)

(* Mutant: the timeout is left to the transport, whose ever it is. *)
ClientTransportTimed ==
  [status |-> "client", base |-> [scheme |-> builder.baseUrl.scheme, host |-> builder.baseUrl.host],
   login |-> builder.login, requestTimeout |-> builder.requestTimeout, perRequest |-> FALSE,
   http |-> IF builder.transport # NoTransport
            THEN [timeout |-> builder.transport.timeout, connect |-> "callers"]
            ELSE [timeout |-> builder.requestTimeout, connect |-> builder.connectTimeout]]

(* A client on the caller's transport sets the timeout on each request; on   *)
(* its own transport it is set once, with the connect timeout.               *)
Client ==
  [status |-> "client", base |-> [scheme |-> builder.baseUrl.scheme, host |-> builder.baseUrl.host],
   login |-> builder.login, requestTimeout |-> builder.requestTimeout,
   perRequest |-> builder.transport # NoTransport,
   http |-> IF builder.transport # NoTransport
            THEN [timeout |-> builder.transport.timeout, connect |-> "callers"]
            ELSE [timeout |-> builder.requestTimeout, connect |-> builder.connectTimeout]]

Build ==
  /\ built = NothingYet
  /\ built' = IF BuildError = None THEN Client ELSE Refused(BuildError)
  /\ UNCHANGED <<builder, calls, asked>>

Built == built # NothingYet /\ UNCHANGED vars

Next ==
  \/ BaseUrl \/ SetCredentials \/ HttpClient \/ RequestTimeout \/ ConnectTimeout
  \/ Build \/ Built

Spec == Init /\ [][Next]_vars

(* send_once: a timeout on the request overrides that of the transport. *)
ExchangeTimeout(client) ==
  IF client.perRequest THEN client.requestTimeout ELSE client.http.timeout

-----------------------------------------------------------------------------
(* Properties *)

IsClient == built.status = "client"

(* "The timeout for every request": whichever transport it uses, each        *)
(* exchange of a client is bounded by the last request_timeout, or the       *)
(* default, which is not zero.  The fairness of KeeneticClient rests on it.  *)
ExchangesAreBounded ==
  IsClient => /\ ExchangeTimeout(built) = asked.requestTimeout
              /\ ExchangeTimeout(built) \notin {"absent", "zero"}

(* No option is ignored: a client has no connect timeout the caller chose    *)
(* for it but could not get, in whatever order the setters were called.      *)
NothingIsIgnored ==
  IsClient => ~({"connect_timeout", "http_client"} \subseteq asked.setters)

(* A client talks to an http origin, and the URL it was given had no user    *)
(* information, query or fragment that would have been dropped on the way.   *)
(* It had no path either, but for one of backslashes that resolves to        *)
(* nothing, which is dropped: see PathsAreRefused.                           *)
OriginsOnly ==
  IsClient =>
    /\ built.base.scheme = "http" /\ built.base.host # ""
    /\ builder.baseUrl.user = None
    /\ builder.baseUrl.tail \in {"", "/", "\\", "\\base\\.."}

(* "The base URL must not contain a path" (error.rs): not even one that      *)
(* resolves to nothing, which the tests refuse in "http://router/base/..".   *)
PathsAreRefused == IsClient => builder.baseUrl.tail \in {"", "/", "\\"}
=============================================================================

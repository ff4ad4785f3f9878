------------------------- MODULE ClientBuilderProofs -------------------------
(***************************************************************************)
(* What ClientBuilder promises of a client, proved for any number of       *)
(* setters called in any order.  Init and the setters establish Remembered,*)
(* the flags by which build() recognises what the caller asked for; build()*)
(* then turns it into Vouched, which says of every client what the         *)
(* properties need.                                                        *)
(***************************************************************************)
EXTENDS ClientBuilder, TLAPS

USE DEF Durations, DefaultRequestTimeout, DefaultConnectTimeout, None, Backslashed, Tails

Options ==
  [baseUrl: BaseUrls \cup {NoUrl}, login: Logins \cup {None},
   transport: Transports \cup {NoTransport}, requestTimeout: Durations,
   connectTimeout: Durations, connectExplicit: BOOLEAN]

(* What was asked for is what the options say, and none of it is forgotten.  *)
Remembered ==
  /\ builder \in Options
  /\ asked.requestTimeout = builder.requestTimeout
  /\ "connect_timeout" \in asked.setters => builder.connectExplicit = TRUE
  /\ "http_client" \in asked.setters => builder.transport # NoTransport

(* A client was built from options that no check of build() refuses. *)
Vouched == built.status = "client" => BuildError = None /\ built = Client

Inv == Remembered /\ Vouched

LEMMA Initially == Init => Inv
  BY DEF Init, Inv, Remembered, Vouched, Options, NothingYet, Durations

(* A setter leaves nothing built, so it only has to remember. *)
LEMMA SettersRemember ==
  ASSUME Inv, BaseUrl \/ SetCredentials \/ HttpClient \/ RequestTimeout \/ ConnectTimeout
  PROVE  Inv'
<1> USE DEF Inv, Remembered, Options, Set, Call
<1>1. Vouched'
  BY DEF BaseUrl, SetCredentials, HttpClient, RequestTimeout, ConnectTimeout, Vouched, NothingYet
<1>2. CASE BaseUrl
  BY <1>1, <1>2 DEF BaseUrl
<1>3. CASE SetCredentials
  BY <1>1, <1>3 DEF SetCredentials
<1>4. CASE HttpClient
  <2>1. PICK transport \in Transports :
          Set("http_client", [builder EXCEPT !.transport = transport])
    BY <1>4 DEF HttpClient
  <2>2. transport # NoTransport
    BY DEF Transports, NoTransport
  <2> QED
    BY <1>1, <2>1, <2>2
<1>5. CASE RequestTimeout
  BY <1>1, <1>5 DEF RequestTimeout
<1>6. CASE ConnectTimeout
  <2>1. PICK timeout \in Durations :
          /\ builder' = [builder EXCEPT !.connectTimeout = timeout, !.connectExplicit = TRUE]
          /\ asked' = [asked EXCEPT !.setters = @ \cup {"connect_timeout"}]
    BY <1>6 DEF ConnectTimeout
  <2>2. builder' \in Options /\ builder'.connectExplicit = TRUE
    BY <2>1
  <2>3. builder'.transport = builder.transport /\ builder'.requestTimeout = builder.requestTimeout
    BY <2>1
  <2> QED
    BY <1>1, <2>1, <2>2, <2>3
<1> QED
  BY <1>2, <1>3, <1>4, <1>5, <1>6

LEMMA BuildVouches == ASSUME Inv, Build PROVE Inv'
<1>1. Remembered'
  BY DEF Inv, Build, Remembered
<1>2. Vouched'
  <2>1. UNCHANGED builder
    BY DEF Build
  <2>2. CASE BuildError = None
    BY <2>1, <2>2 DEF Build, Vouched, BuildError, Client
  <2>3. CASE BuildError # None
    BY <2>3 DEF Build, Vouched, Refused
  <2> QED
    BY <2>2, <2>3
<1> QED
  BY <1>1, <1>2 DEF Inv

LEMMA Invariant == Spec => []Inv
<1>1. Inv /\ [Next]_vars => Inv'
  <2> SUFFICES ASSUME Inv, [Next]_vars PROVE Inv'
    OBVIOUS
  <2>1. CASE UNCHANGED vars
    BY <2>1 DEF vars, Inv, Remembered, Vouched, BuildError, Client
  <2>2. CASE Built
    BY <2>2 DEF Built, vars, Inv, Remembered, Vouched, BuildError, Client
  <2> QED
    BY <2>1, <2>2, SettersRemember, BuildVouches DEF Next
<1> QED
  BY <1>1, Initially, PTL DEF Spec

-----------------------------------------------------------------------------
(* Whichever setters were called, how often and in whatever order, a client  *)
(* bounds each exchange by the last request_timeout, which is not zero.      *)
THEOREM TimeoutsReachExchanges == Spec => []ExchangesAreBounded
<1>1. ASSUME Inv PROVE ExchangesAreBounded
  <2> SUFFICES ASSUME IsClient
               PROVE  /\ ExchangeTimeout(built) = asked.requestTimeout
                      /\ ExchangeTimeout(built) \notin {"absent", "zero"}
    BY DEF ExchangesAreBounded
  <2>1. BuildError = None /\ built = Client
    BY <1>1 DEF Inv, Vouched, IsClient
  <2>2. builder.requestTimeout \in Durations \ {"zero"}
    BY <1>1, <2>1 DEF BuildError, Inv, Remembered, Options
  <2>3. ExchangeTimeout(built) = builder.requestTimeout
    BY <2>1 DEF ExchangeTimeout, Client
  <2> QED
    BY <1>1, <2>2, <2>3 DEF Inv, Remembered
<1> QED
  BY <1>1, Invariant, PTL

(* In whatever order they were called, a connect timeout and an injected     *)
(* transport never end up in one client.                                     *)
THEOREM OptionsAreHonoured == Spec => []NothingIsIgnored
<1>1. ASSUME Inv PROVE NothingIsIgnored
  <2>1. BuildError = None => ~(builder.transport # NoTransport /\ builder.connectExplicit)
    BY DEF BuildError
  <2> QED
    BY <1>1, <2>1 DEF Inv, Remembered, Vouched, NothingIsIgnored, IsClient
<1> QED
  BY <1>1, Invariant, PTL

(* A client has an http origin.  What else a URL may have leads to a refusal *)
(* and is not dropped silently, except a path of backslashes that resolves   *)
(* to nothing.                                                               *)
THEOREM ClientsHaveOrigins == Spec => []OriginsOnly
<1>1. ASSUME Inv PROVE OriginsOnly
  <2> SUFFICES ASSUME IsClient
               PROVE  /\ built.base.scheme = "http" /\ built.base.host # ""
                      /\ builder.baseUrl.user = None
                      /\ builder.baseUrl.tail \in {"", "/", "\\", "\\base\\.."}
    BY DEF OriginsOnly
  <2> DEFINE url == builder.baseUrl
  <2>1. BuildError = None /\ built = Client /\ url \in BaseUrls \cup {NoUrl}
    BY <1>1 DEF Inv, Vouched, Remembered, Options, IsClient
  <2>2. url # NoUrl /\ UrlError(url) = None
    BY <2>1 DEF BuildError
  <2>3. url \in BaseUrls
    BY <2>1, <2>2
  <2>4. /\ url.user = None /\ url.scheme = "http" /\ Parses(url)
        /\ WrittenTail(url) \in {"", "/"} /\ ParsedTail(url) = "/"
    BY <2>2 DEF UrlError
  <2>5. url.tail \in Tails
    BY <2>3 DEF BaseUrls
  <2>6. url.tail \in {"", "/", "\\", "\\base\\.."}
    BY <2>4, <2>5 DEF WrittenTail, ParsedTail
  <2> QED
    BY <2>1, <2>4, <2>6 DEF Client, Parses
<1> QED
  BY <1>1, Invariant, PTL
=============================================================================

# Formal models of keenetic-rci

`keenetic-rci` is an asynchronous Rust client of the HTTP interface (RCI) of
Keenetic routers. This directory holds TLA+ models of what in it is hard to
test, TLC configurations that check them on small instances, and TLAPS proofs
that lift every safety result to every instance. `PROJECT.json` maps every
definition to the lines it translates; paths below are relative to the
repository.

## The system

| component | state | operations | interacts with | what makes it hard |
|---|---|---|---|---|
| request pipeline, `src/client.rs` 683-882 | `Inner`: cookie jar, `auth_generation`, `Mutex<AuthState>`; per call: the future | `send_json`, `send_text`, `send_authenticated`, `authenticate`, `send_once` | all public methods; the router over HTTP | many calls on many threads share one jar and one login; each await is a point of cancellation or timeout |
| network test session, `src/client.rs` 544-681 | `pending`, `continued`, `next_poll`; the test itself lives on the router | `start_network_test`, `next_chunk`, `collect`, `cancel`, drop | pipeline, timer, router | output is drained by reading it; a dropped future loses it |
| network test requests, `src/request/network_test.rs` | a request under construction | constructors, setters, serialization | session | checks between options set in any order |
| reply decoding, `src/client.rs` 897-992, 1060-1087 | none | `decode_json_response` | pipeline | a byte scan chooses between two decoders that must agree |
| paths, `src/path.rs` | none | `parse` for `RciPath`, `CiPath` | public methods | order of the checks, the decoding and the encoding |
| client index, `src/model/clients.rs` | a map by MAC address | `ClientIndex::new`, accessors | four replies taken at four moments | overlap, duplicates, precedence |
| builder and base URL, `src/client.rs` 37-173, 994-1023 | options | setters, `build` | reqwest | which timeout applies where |
| public methods, `src/request.rs`, `src/client.rs` 174-542 | the call's request, its future | `execute`, `get`, `post`, … | callers; paths; pipeline | what a call prepares at once and what when it is polled; the request an error names |
| values, `src/model/*.rs` | none | `FromStr`, `Deserialize`, checked arithmetic | replies | limits, units, and what is kept when parsing fails |
| replies, `src/model.rs`, `src/model/*.rs` | none | derived and manual deserialization | values; decoding | one declaration written twice, one member read by two types, routers that leave members out |
| secrets, exports | none | hashing, formatting | pipeline | little |

What makes each correct is said with its module below; `hazards` in
`PROJECT.json` lists, line by line, what can go wrong and which property would
notice.

## Modules

### KeeneticClient: the request pipeline

One task per request; `pc` is its place between awaits. An action is the code
between two points where another task can see a difference:

| code | actions |
|---|---|
| `send_authenticated` | `Begin` (the load of the generation), `SendTarget`, `ReceiveTarget`, `SendRetry`, `ReceiveRetry` |
| `send_successful`, `send_json`, `send_text` | `Deliver` inside the `Receive…` actions, `ReadBody` |
| `authenticate` | `ShareResult`, `BeginAttempt`, `Publish` (store of the generation, drop of the guard) |
| `perform_authentication` | `BeginAttempt`, `ReceiveChallenge`, `SendLogin`, `ReceiveLogin` |
| `send_once` | `Transmit` and `Absorb`, the halves of an exchange around its await |
| a transport error, a dropped future | `Timeout`, `Cancel` |
| the tokio mutex | `holder`, the FIFO queue `waiters`, `Acquire`, `Release`, `Withdraw` |
| the router (external) | `ServeTarget`, `FailTarget`, `RefuseTarget`, `ServeChallenge`, `ServeLogin`, `Expire` |

The router is an environment: it creates a session with a challenge, grants it
to the login that answers the challenge in that session, executes operations of
granted sessions, and may drop sessions. A success status is its word that it
executed the operation; an error status (`FailTarget`) may come before the
operation, with or without a session, as a redirect, a 404 or a 503 do in
`tests/protocol.rs:612`, or after it took effect. A request the client has stopped
listening to may still be executed, or never. Which faults occur is a constant,
a set of `FaultKinds`. The variables `attempts`, `published`, `past` and
`applied` are history; no guard reads them.

Abstracted: the body's content (`ReadBody` ends in success or in a decoding
error; RciDecode says which), request contents, and the hash of the login (an
answer is bound to its challenge).

Properties: `SingleFlight`, `NoRedundantAttempt`, `FreshResult`, `MutexExact`,
`SessionPresented`, `BlamelessRefusal`, `NoPanic`, `EveryCallReturns`, and
`KeepsPromise`, the refinement of **RciPromise**: an operation is executed at
most once; an answer with a success status means it was; an authentication error
means it was not and never will be. `Error::Http` leaves open whether it was, but
not whether it still will be; a transport error or a dropped future leaves both
open.

What these say is sometimes less than a reader may expect:

* `NoRedundantAttempt` speaks of the time the request was *sent*. A request
  that loaded the generation before, but was sent after an authentication by
  another task, repeats nothing: had it been refused, the session was gone.
  It holds until the counter has wrapped (2^64 attempts).
* If the refusal of an operation sets a cookie (`refusalCookie`), the reply to
  one request may replace the session another has just obtained, and the repeat
  ends with `UnauthorizedAfterAuthentication` though a further login would
  succeed. The same happens when the router drops the session in between.
  `SessionPresented` therefore excludes both. If refusals set no cookie, a dropped
  session is the only way, says `BlamelessRefusal`: `UnauthorizedAfterAuthentication`
  means that the router has dropped a session, `RejectedCredentials` that it
  rejects the credentials, and neither is the work of the other calls sharing the
  jar.

### NetworkTest: a session

One session from POST to its end: `Start`, `Open`, `Read` (`next_chunk` or
`collect`), `ReadPending`, `ReadEnd`, `Poll`, `ReceivePoll`, `Cancel`,
`ReceiveCancel`, and `Fail`, `Interrupt`, `Drop` for failed requests and dropped
futures and sessions. `Tick` is the clock `sleep_until` waits for. The router
prints numbered lines and a reply drains those unread. An exchange is abstracted
to what RciPromise leaves open: an abandoned request may be executed later
(`ServeStray`) and drain output nobody reads.

`Accounted`: every line is delivered, held, in flight, unread or known as lost,
and none is lost without a failure or a drop. `CompleteMeansAll`, `Stopped`,
`PollsAreSpaced` and `ReadReturns` are about the end, the poll interval and
termination. `IsStream` is the refinement of **TestOutput**: the caller observes
lines in the printed order, none twice, in non-empty chunks up to an end.

The interval is kept after replies only: after a failed poll `next_poll` lies in
the past and the next `next_chunk()` polls at once. Two sessions of one tool
share the router's endpoint; the source leaves arbitration to the router
(`client.rs:546`) and one session is modelled.

### NetworkTestRequest

A constructor and any sequence of setters for the four requests, and their
serialized entries. Arguments lie at the edges of each range and integer type.
`RequestCoherent`: whatever the order of calls, a request that can be sent has
one address family, options in range, the TCP probe size and a finite end.
`RefusalJustified`: no setter refuses what would have been coherent.
`BodyUnambiguous`: the body has no duplicate or contradictory key and no option
is dropped.

### RciDecode

A reply is composed from its parts, the innermost first: `Begin` writes a value
that holds nothing yet, `AddItem` puts the last value into a list and `AddMember`
into an object, a new one or the one begun before it. So every JSON value comes
about in some number of steps. With its text a value keeps what
`collect_rci_errors` makes of it; the recursion of the code is taken as the value
is composed (`WithItem`, `WithMember`), which is why no operator is recursive and
the module can be proved about. `reported` is history: whether an error object
was ever put into a list named `status`. The scan of the bytes
(`NeedsRciInspection`) and both decoding paths (`Decode`) are operators on the
finished text.

Words are two letters long, and an escape `\uXXXX` is one symbol; any other
escape is a backslash and a symbol. `Typed` returns a set of results because a
typed deserializer may find a misfit before it reaches the end of the text.
`JudgedByContent`: a whole reply is judged by its content, so no spelling of
`"status"` or `"error"` hides an error. A cut or trailed text is modelled, with
no property of its own: that neither path takes it for an answer is plain from
`Inspected` and `Typed`. A JSON object with one key twice is not modelled. **MCDecode**
has the strings TLC composes replies of.

### RciPath

A path is a sequence of symbols, each spelled plainly or percent-encoded.
`StaysBelow`: what a server reads of an accepted path are the segments that were
written, none of them empty, a dot segment or holding a separator.
`CanonicalIsFixed`: canonical paths are accepted and are their own canonical
form.

### Requests: the public methods

From a call to its outcome, over the paths of RciPath: a path is parsed, then
one of the methods is called on it (`Execute`, `ExecuteInterfaceStat`,
`ExecuteInterface`, `StartNetworkTest`, `Get`, `GetWithQuery`, `ExecuteCli`,
`Post`, `PostAt`), its future waits, is polled or is dropped (`Poll`, `Drop`),
and the pipeline answers (`Return`). `Change` is the caller changing its own
data while the future waits. A query or body is a value; some values cannot be
serialized.

`SentAsCalled`: what is sent goes where it was asked to go with the data of the
moment of the *call*, although an `async` body runs at the first poll only, and
what cannot be serialized is not sent. `ErrorsNameTheRequest`: whatever fails,
the error names the method and endpoint that were asked for, or `/auth`.

### RciValues, RciReplies, ReplyDecoding: what becomes of a reply

**RciValues** has a *kind* for every way a member of a reply is read: a function
from the forms the member may be written in to what is kept of it, or a refusal.
A form is a JSON value with its text reduced to what the code tells apart
(digits, blank, the layout of an address, of an uptime, of a decimal). Its
operators are the arithmetic: checked products and sums, units of rates, cell
identities, the IMEI checksum, slices of a hardware identifier.

**RciReplies** is the table of declarations in `src/model/`: for each reply and
nested record, its members and their kinds. **ReplyDecoding** takes any such
table. It starts with a full and a bare reply of each declaration, gives some
members another form (`Vary`, as many as the bound `Varied` allows) and decodes
(`Decode`). **MCReplies** puts the two together and gives values to the bounds.

* `MeaningKept`: two spellings are kept as one value exactly when they mean one,
  and amounts are kept in order. What a spelling means is stated independently
  of the code.
* `SameMember`: a member of one name means one thing, in one unit, in every
  reply that has it.
* `OneDeclaration`: the flat declaration of a mobile interface keeps and refuses
  what `Interface` and `MobileStatus` do together.
* `BeforeDetection`: what the router omits or leaves empty before it has
  detected the modem is absent, not an error.
* `IdentityIsKept`: an IMEI, IMSI or ICCID that cannot be parsed is kept as
  reported and costs nothing else; a misread digit is never taken for an IMEI.
* `CellIdentity`: an ECI fits 28 bits and names one cell.
* `NeverPanics`: no text makes a deserializer panic (slices are at character
  boundaries).

Two things they leave open, as the code does: a member of a wrong JSON type,
such as `roaming: ""`, refuses the whole mobile status, since it is not a text
the router may leave empty; and an empty `hw_id` of a mesh member becomes an
unrecognized identifier rather than an absent one.

### ClientBuilder

The setters in any order and `build`, with `normalize_base_url` on a URL
abstracted to its parts as they are written. `ExchangesAreBounded`: on either
transport each exchange has the last `request_timeout` given, which is not zero;
the fairness of KeeneticClient rests on it. `NothingIsIgnored`: a connect
timeout and an injected transport never end up together. `OriginsOnly`: a client
has an http origin, and nothing of the URL given is dropped on the way but a path
of backslashes that resolves to nothing.

One disagreement was found. `normalize_base_url` looks for a path in the text
with slashes only and then in the parsed URL, whose parser takes a backslash for
a slash and resolves dot segments. So `http://router\base\..` is accepted, while
the test at `client.rs:1115` requires `http://router/base/..` to be refused and
`error.rs:26` says a base URL must not contain a path. The client that comes of
it talks to `http://router/`. The run `builder_paths` shows it.

### ClientIndex

The four loops of `ClientIndex::new`, one record at a time, and `activity()`.
`IndexIsUnion` and `ActivityIsProven` relate the map to the replies. When the
hotspot reply lists one address twice only the last record counts: an active
record before an inactive one leaves the client inactive, although
`src/model/clients.rs:14` says without qualification that an active record proves
activity, and `clients.rs:16` that an inactive client carries no active evidence.
`ActivityIsProven` states what the code does.

## Runs

| run | asks | instance | why it is enough |
|---|---|---|---|
| `client_races` | single-flight, sharing, freshness, mutex, session | 3 requests (symmetric), timeouts, drops, one dropped session | one holder, one waiter and one latecomer is the smallest group with a queue that can lose its head or its tail; one lost session gives a second round of authentication |
| `client_faults` | RciPromise with credentials | 2 requests, all faults but `open` | the promise is per request; the second makes results shared and sessions replaced |
| `client_anonymous` | RciPromise without credentials | 2 requests, the router may serve openly | there is no authentication to race for |
| `client_returns` | termination, no panic, wrapping counter | 3 requests, counter modulo 2 | the counter wraps within the run |
| `network_test` | the session | 3 lines, interval 2, 1 late request per method | a chunk of two lines and another after it; the interval is longer than a step |
| `network_test_request` | requests | constructor and 3 setters | every check relates at most two options, so three setters include a repeat; a consumed request is at rest, hence no deadlock check. `Wide` = 100000 stands for the largest u32 and u64 |
| `decode` | decoding | replies of 7 steps; each word in two spellings, a longer name, a line break, a quoted word | an error takes four steps (text, member, list, member); three more put it deeper, beside others or under a second error |
| `requests` | paths and public methods | paths of 4 symbols; methods on those of up to 2; three values of data, one of them not serializable | `..` and the namespace need two symbols and a separator; a change of data needs two good values |
| `replies` | values and replies | every declaration; one member varied, two in four records | members are read independently except where a record combines two (`ServingCell`) or reads one as two types; the proofs have no bound here. Numbers lie on both sides of every width and unit |
| `client_index` | the join | 2 addresses, 2 records per reply | duplicates, overlap and absence in each reply |
| `client_builder` | the builder | 4 setters, then `build` | the checks relate at most two options, so four calls include overwriting both |
| `builder_paths` | does a path in the base URL always lead to a refusal? | as above; expected to fail | one setter is enough |

In `replies` the widths of u32 and u64 are scaled to 2000000000 and 2100000000,
as TLC's own integers have 32 bits; the edges of the human uptimes are computed
for that width (24305 days and 13:20:00). All 135 misreadings of one digit of an
IMEI are tried, and hardware identifiers with a character of two bytes across
each slice.

Client runs without a wrap use `GenModulus` 8, above the attempts three requests
can make. `client_races` uses symmetry, which is sound as it checks invariants
only.

### Fairness

`KeeneticClient`: the runtime polls a task that can move (`WF` of its own
steps), and an exchange or body read ends by a reply or by `request_timeout`,
which `build` always sets (`ExchangesAreBounded`), on the reqwest client or on
each request. The router and the callers are given none, so `EveryCallReturns` holds of a router that is
silent; that the wait for the mutex has no timeout of its own is why the
property needs checking. `NetworkTest` adds a clock that advances and a test that
ends by itself ("every supported request is finite").

## Proofs

The theorems hold for every value of the constants under the named assumptions
of the modules, and use nothing else. Almost none of the properties is
inductive; each proof module says which strengthening is, and why. Every
invariant and every refinement that a passing run checks is proved.

| module | theorem | establishes |
|---|---|---|
| `KeeneticClientProofs` | `TypeCorrect` | `TypeOK` |
| | `MutualExclusion` | `SingleFlight` |
| | `ResultRetained` | `NoPanic` |
| | `ResultsAreFresh` | `FreshResult` |
| | `AttemptsAreShared` | `NoRedundantAttempt` |
| | `PromiseKept` | `KeepsPromise`, the refinement of RciPromise: what each outcome says of the operation |
| | `MutexIsExact` | `MutexExact` |
| | `SessionIsPresented` | `SessionPresented` |
| | `RefusalsAreBlameless` | `BlamelessRefusal`, which supposes that refusals set no cookie |
| | `CallsAdvance` | every step of a call brings it closer to its return |
| | `QueueMovesUp` | who waits for the mutex moves up at every hand-over |
| | `NobodyIsStranded` | every call, or the holder it waits for, can move |
| `NetworkTestProofs` | `TypeCorrect` | `TypeOK` |
| | `LinesAreAccounted` | `Accounted` |
| | `EndsAreTrue` | `CompleteMeansAll` |
| | `TestsAreStopped` | `Stopped` |
| | `PollsKeepTheInterval` | `PollsAreSpaced` |
| | `SessionsAreStreams` | `IsStream`, the refinement of TestOutput |
| | `ReadsNearTheirEnd` | after the end of the test a reader has a bounded way to go |
| `NetworkTestRequestProofs` | `RequestsAreCoherent` | `RequestCoherent` |
| | `RefusalsAreJustified` | `RefusalJustified` |
| | `BodiesSayItOnce` | `BodyUnambiguous` |
| `RequestsProofs` | `PathsStayBelow` | `StaysBelow` |
| | `CanonicalIsCanonical` | `CanonicalIsFixed` |
| | `ErrorsAreNamed` | `ErrorsNameTheRequest` |
| | `SentIsAsked` | `SentAsCalled` |
| `ClientBuilderProofs` | `TimeoutsReachExchanges` | `ExchangesAreBounded` |
| | `OptionsAreHonoured` | `NothingIsIgnored` |
| | `ClientsHaveOrigins` | `OriginsOnly`: an http origin, and nothing dropped but a path of backslashes that resolves to nothing |
| `ClientIndexProofs` | `IndexIsTheUnion` | `IndexIsUnion` |
| | `ActivityHasEvidence` | `ActivityIsProven` |
| `DecodeProofs` | `RepliesAreJudged` | `JudgedByContent` |
| `ReplyProofs` | `RepliesAreTyped` | `TypeOK` |
| | `DecodingNeverPanics` | `NeverPanics` |
| | `MeaningsAreKept` | `MeaningKept` |
| | `MembersMeanOneThing` | `SameMember` |
| | `MobileIsOneDeclaration` | `OneDeclaration` |
| | `BlanksAreTolerated` | `BeforeDetection` |
| | `IdentitiesAreKept` | `IdentityIsKept` |
| | `CellsKeepTheirIdentity` | `CellIdentity` |
| | `UptimeIsExact` | six checked steps give the number of seconds, or refuse |
| | `CellsAreTold` | an ECI names one cell |
| | `MistypedImeiIsRefused` | the checksum notices any one digit |

**The pipeline**, for every set of requests and of faults, with or without
credentials and for every modulus of the counter above one. Proved step by step
from `TypeOK` and those before:

* `Guarded`: whoever talks to `/auth` or is about to publish holds the mutex.
* `Retained`: as long as no result is retained every generation, kept, stored or
  observed, is zero, so nobody can find it moved; and a task about to publish
  has one. The assignment of the result and the increment are one step under the
  lock, which is what makes this inductive.
* `Counted`: a generation read when so many attempts were completed *is* that
  number until the counter wraps, and equals the kept generation if no attempt
  was completed since; what a task observed, began and sent is ordered in time.
  Freshness holds at any wrap because it uses the second half only.
* `Settled`: for each place of a task, how often its operation may have been
  executed and may still be executed by a request in flight. This gives the step
  simulation of RciPromise.
* `Exact`: the tasks inside `authenticate` are the holder and those
  queued, *and no task is queued twice*. Were one, dropping its future would
  leave a dead entry, to which the lock would be handed and never come back.
* `Session`: what the jar is in step with. A challenge that is being answered came
  with the cookie in the jar (`Answered`), although replies to other tasks may set
  cookies at any time: only the holder of the mutex is given one, if refusals set
  none. While the last result is a success, or somebody is about to repeat an
  operation, the jar holds a granted session, nobody is in the middle of a login,
  and no challenge is on its way that would replace it (`Presented`); so an attempt
  that starts from a granted session is only told that it is. `Blamed` follows the
  refusals a call may return to the result they were shared from.

**A session**, for any number of lines, any interval and any number of abandoned
requests. A line is in one of six places: handed over, gathered by `collect`,
pending, in a reply, unread on the router, or lost. `Streamed` says that the
first five in this order are one ascending sequence, `Printed` that with the lost
ones they are all that was printed, `Ending` (with `Coherent` and `Unstarted`)
that whoever was told of an end was told the truth, and `Spaced` that the time
waited and the time to wait make an interval.

**The request of a session**, for any number of setters: every call *decides*,
that is, it accepts its candidate if and only if the candidate as a whole is
coherent, although the code looks at its argument and at one or two options set
before. That the rest is coherent already is the invariant. A body is joined
from parts that have no name in common.

**Paths and methods**, for paths of any length and any data: the canonical form of
an accepted path is accepted, decodes to the same segments and does not change
(`PathOK`); a call holds what it was given from the moment it was made
(`CallOK`).

**The builder**: `Remembered`, the flags from which `build` sees what was asked
for; `Vouched`, what is known of each client. **The index**, for replies of any
length: `Joined`, the map is the union of what the loops have `Seen` so far.

**Decoding**, for replies of any depth and width, composed of any strings: the
words an error is made of are in the text of the value that has it, whoever holds
that value. A string that spells a word is found by the scan in either of its
ways (`FoundWhereSpelled`), and what is found in a text is found in every text
around it (`FoundAround`), since the scan gives up at nothing. The invariant adds
to the properties that each value composed so far `Sees`: if the code would
collect an error from it, or could once it is put somewhere, its text makes the
code look. On the typed path there is then nothing to collect.

**Replies**, for the declarations of RciReplies (`Replies = Declarations`), every
width of u32 and u64 of at least 10^9, the one below the other
(`WidthAssumption`), every set of numbers, uptimes, IMEI digits and hardware
identifiers whose texts are UTF-8 (`BoundAssumption`), and any number of members
varied at once. Where the run takes numbers at the edges, the proof has all of
them. It goes up in three levels:

* `Plain`: a kind does right by each form (`Right`): it refuses it, or keeps what
  the form means, in the unit of a class of members, and never panics. Proved kind
  by kind, from the arithmetic: checked products and sums are exact or refused, a
  decimal keeps its order as nanoseconds, no slice of a hardware identifier cuts a
  character, no two cells share an ECI.
* `Sound`: a member of a declaration has a Plain kind, in the class that goes with
  its *name* whatever reply it stands in (this is what makes `SameMember` true of
  every two replies), or keeps each text as it was reported.
* `Inv`: a reply has a form for each member, the usual one where none was varied,
  and what is kept is what `Judge` made of it. `TypeOK`, `MeaningKept` and
  `NeverPanics` follow from the two; `OneDeclaration` compares the flat
  declaration with the two it is taken apart into, member by member, and
  `BeforeDetection` asks each kind of `MobileStatus` about a missing and a blank
  member.

**What returning rests on.** Liveness under fairness is out of TLAPS's reach, and
so is ENABLED: `EveryCallReturns` and `ReadReturns` are model-checked on small
instances only. What a proof by hand would take from the code is proved, for
every number of tasks and lines, as facts of states and of steps that no run
checks (the definitions are in the proof modules):

* `NobodyIsStranded`: a call that has begun has a step of its own to take, or an
  exchange under way, or it waits for the mutex and its *holder* has one of the
  two. It needs `Exact` (a lock that is awaited is held by a task inside
  `authenticate`) and `UnderWay`, the invariant that who listens has sent
  something and that a reply is of a kind its handler has a branch for. An
  exchange the router does not answer ends by the timeout; this is the fairness.
* `CallsAdvance`: each step of a call lowers `StepsLeft`, eleven at the start, so
  there is no retry to be caught in, whatever the router answers.
* `QueueMovesUp`: a task keeps its place in the queue or improves it, improves it
  whenever the lock changes hands, and leaves only as the holder or dropped. With
  the other two, each of those before it is gone after at most eleven steps.
* `ReadsNearTheirEnd`: once the test has ended, each step lowers the `Distance` of
  a reader, at most `Interval + 7`, or leaves it and the session alone; nothing
  starts the test again, a request that arrives late included (`Unstarted`: a
  late POST means that `start_*` has failed, and there is no session).

`PathsAreRefused` is refuted, by the run
`builder_paths`.

## Not modelled

* Hashing, MD5 and SHA-256, and the parsing of challenge headers
  (`src/auth.rs`, `client.rs:1029`): pure functions of text. A challenge is
  usable or not.
* TLS, redirects, proxies: reqwest's.
* Memory ordering weaker than sequential consistency: `auth_generation` is one
  atomic with release stores and acquire loads, and everything else it guards
  is also behind the mutex.
* Two sessions of one tool, which share one endpoint and drain each other's
  output: the source leaves the arbitration to the router.
* What only reads: the iterators of `ClientIndex`, the accessors of `Interfaces`
  and `CliReply`, `has_radio_identity_conflict`.
* In replies: the keys of maps (carriers, partitions), what is inside lists, the
  rounding of f32, serialization back to text except as the form values are
  compared by.

## What is left

Everything that changes state or decides is modelled, every safety property is
proved, and so are the facts the two liveness properties rest on. What could be
added are two sessions on one endpoint, once it is known how the router
arbitrates, and the liveness proofs themselves, with a prover that has ENABLED.

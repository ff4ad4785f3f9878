--------------------------- MODULE KeeneticClient ---------------------------
(***************************************************************************)
(* The request pipeline of src/client.rs: `Inner::send_json` over          *)
(* `send_successful`, `send_authenticated`, `authenticate`,                *)
(* `perform_authentication` and `send_once`.                               *)
(*                                                                         *)
(* A request is one call of the public API, run as a task of a             *)
(* multi-threaded runtime.  An action is the code between two points where *)
(* another task can observe a difference: an exchange with the router is   *)
(* split at the `send().await` of `send_once`, and the atomic load and     *)
(* store of `auth_generation` are steps of their own.  The router is the   *)
(* environment; it owes no fairness.                                       *)
(***************************************************************************)
EXTENDS Naturals, Sequences, FiniteSets

CONSTANTS
  Requests,      \* the requests issued on one client, each of them once
  Credentials,   \* BOOLEAN: were credentials given to the builder?
  GenModulus,    \* the generation counter wraps here (2^64 in the code)
  Faults,        \* what the environment may do, a subset of FaultKinds
  MaxExpiries,   \* bound: sessions the router drops on its own
  NoRequest      \* the mutex has no holder

FaultKinds ==
  { "timeout",      \* an exchange or a body read ends in a transport error
    "cancel",       \* the caller drops the future at one of its awaits
    "http",         \* the router answers with a status other than success and 401
    "malformed",    \* a 401 of /auth without a usable challenge
    "reject",       \* the router rejects the credentials
    "open",         \* the router may serve an operation without a session
    "refusalCookie" \* the 401 of a protected endpoint sets a session cookie
  }

ASSUME RequestsAssumption == NoRequest \notin Requests
ASSUME CredentialsAssumption == Credentials \in BOOLEAN
ASSUME GenModulusAssumption == GenModulus \in Nat /\ GenModulus > 1
ASSUME FaultsAssumption == Faults \subseteq FaultKinds
ASSUME MaxExpiriesAssumption == MaxExpiries \in Nat

VARIABLES
  \* `Inner`, shared by the tasks
  authGeneration, \* the AtomicU64
  auth,           \* the AuthState behind the mutex
  holder,         \* who holds the mutex, or has been handed it
  waiters,        \* the mutex's FIFO queue
  jar,            \* the session cookie of the jar
  \* one task per request
  pc,             \* where the task is
  observed,       \* observed_generation
  challenge,      \* the challenge parsed from the reply of GET /auth
  outcome,        \* what the call returned
  wire,           \* the task's exchange with the router
  \* the router
  issued,         \* sessions it has created: 1..issued
  granted,        \* those it has authenticated and not dropped
  dropped,        \* those it has dropped on its own
  \* history: recorded, never read by an action
  attempts,       \* authentications completed
  published,      \* those whose generation has been stored
  past,           \* per request, what its correctness is judged against
  applied         \* how often the router executed each request

mutex == <<holder, waiters>>
client == <<authGeneration, auth, holder, waiters>>
router == <<issued, granted, dropped>>
vars == <<authGeneration, auth, holder, waiters, jar, pc, observed, challenge,
          outcome, wire, issued, granted, dropped, attempts, published, past,
          applied>>

NoCookie == 0
NoResult == "None"
AuthErrors == {"AuthTransport", "AuthHttp", "BadChallenge", "RejectedCredentials"}
AuthResults == {"Ok"} \cup AuthErrors
Outcomes == AuthErrors \cup
  {"Success", "Decode", "Http", "Transport", "Required",
   "UnauthorizedAfterAuthentication", "Cancelled", "Panic"}

Attempting == {"challenge", "answer", "login"}
Awaiting == {"target", "lock", "challenge", "login", "retried", "body"}
Listening == {"target", "challenge", "login", "retried"}
Steps == {"idle", "ready", "retry", "publish", "done"} \cup Attempting \cup Awaiting

Quiet == [phase |-> "quiet", to |-> "target", cookie |-> NoCookie,
          challenge |-> NoCookie, status |-> "ok"]

TypeOK ==
  /\ authGeneration \in 0..GenModulus-1
  /\ auth \in [generation: 0..GenModulus-1, lastResult: AuthResults \cup {NoResult}]
  /\ holder \in Requests \cup {NoRequest}
  /\ waiters \in Seq(Requests)
  /\ jar \in Nat
  /\ pc \in [Requests -> Steps]
  /\ observed \in [Requests -> 0..GenModulus-1]
  /\ challenge \in [Requests -> Nat]
  /\ outcome \in [Requests -> Outcomes \cup {"pending"}]
  /\ wire \in [Requests -> [phase: {"quiet", "request", "reply"},
                            to: {"target", "challenge", "login"},
                            cookie: Nat, challenge: Nat,
                            status: {"ok", "unauthorized", "malformed", "error"}]]
  /\ issued \in Nat
  /\ granted \subseteq Nat
  /\ dropped \subseteq Nat
  /\ attempts \in Nat
  /\ published \in Nat
  /\ past \in [Requests -> [begunAt: Nat, sentAt: Nat, basis: Nat]]
  /\ applied \in [Requests -> Nat]

Init ==
  /\ authGeneration = 0
  /\ auth = [generation |-> 0, lastResult |-> NoResult]
  /\ holder = NoRequest /\ waiters = <<>>
  /\ jar = NoCookie
  /\ pc = [r \in Requests |-> "idle"]
  /\ observed = [r \in Requests |-> 0]
  /\ challenge = [r \in Requests |-> NoCookie]
  /\ outcome = [r \in Requests |-> "pending"]
  /\ wire = [r \in Requests |-> Quiet]
  /\ issued = 0 /\ granted = {} /\ dropped = {}
  /\ attempts = 0 /\ published = 0
  /\ past = [r \in Requests |-> [begunAt |-> 0, sentAt |-> 0, basis |-> 0]]
  /\ applied = [r \in Requests |-> 0]

-----------------------------------------------------------------------------
(* What the handlers share. *)

GoTo(r, step) == pc' = [pc EXCEPT ![r] = step] /\ UNCHANGED outcome

Finish(r, result) ==
  /\ pc' = [pc EXCEPT ![r] = "done"]
  /\ outcome' = [outcome EXCEPT ![r] = result]

(* The first half of send_once: the jar's cookie goes out with the request. *)
Transmit(r, to, answered) ==
  /\ wire' = [wire EXCEPT ![r] = [phase |-> "request", to |-> to, cookie |-> jar,
                                  challenge |-> answered, status |-> "ok"]]
  /\ UNCHANGED jar

(* Mutant: cookies are kept only from replies that are not refusals. *)
AbsorbUnlessRefused(r) ==
  /\ wire[r].phase = "reply"
  /\ jar' = IF wire[r].cookie = NoCookie \/ wire[r].status = "unauthorized"
            THEN jar ELSE wire[r].cookie
  /\ wire' = [wire EXCEPT ![r] = Quiet]

(* The second half: a reply of any status stores the cookie it sets. *)
Absorb(r) ==
  /\ wire[r].phase = "reply"
  /\ jar' = IF wire[r].cookie = NoCookie THEN jar ELSE wire[r].cookie
  /\ wire' = [wire EXCEPT ![r] = Quiet]

(* The client stops listening; a request already sent may still arrive. *)
Abandon(r) ==
  /\ wire' = IF wire[r].phase = "request" THEN wire ELSE [wire EXCEPT ![r] = Quiet]
  /\ UNCHANGED jar

(* The tokio Mutex is fair: it is handed to the tasks in the order they asked. *)
Acquire(r) ==
  IF holder = NoRequest
  THEN holder' = r /\ UNCHANGED waiters
  ELSE waiters' = Append(waiters, r) /\ UNCHANGED holder

(* Mutant: the guard is dropped without waking the next waiter. *)
ReleaseSilently == holder' = NoRequest /\ UNCHANGED waiters

Release ==
  IF waiters = <<>>
  THEN holder' = NoRequest /\ UNCHANGED waiters
  ELSE holder' = Head(waiters) /\ waiters' = Tail(waiters)

(* Mutant: a dropped waiter keeps its place in the queue. *)
WithdrawHolderOnly(r) ==
  \/ holder = r /\ Release
  \/ holder # r /\ UNCHANGED mutex

(* Dropping the future of a task that holds, or waits for, the mutex. *)
Withdraw(r) ==
  \/ holder = r /\ Release
  \/ \E i \in 1..Len(waiters) :
       /\ waiters[i] = r
       /\ waiters' = SubSeq(waiters, 1, i - 1) \o SubSeq(waiters, i + 1, Len(waiters))
       /\ UNCHANGED holder
  \/ /\ holder # r
     /\ \A i \in 1..Len(waiters) : waiters[i] # r
     /\ UNCHANGED mutex

(* authenticate() returns this result to send_authenticated. *)
Proceed(r, result) ==
  CASE result = "Ok" -> GoTo(r, "retry")
    [] result = NoResult -> Finish(r, "Panic")
    [] OTHER -> Finish(r, result)

(* Mutant: only a success is retained with its generation. *)
EndAttemptKeepSuccess(r, result) ==
  /\ auth' = [generation |-> (auth.generation + 1) % GenModulus,
              lastResult |-> IF result = "Ok" THEN result ELSE auth.lastResult]
  /\ attempts' = attempts + 1
  /\ past' = [past EXCEPT ![r].basis = attempts + 1]
  /\ GoTo(r, "publish")
  /\ UNCHANGED <<authGeneration, mutex, published>>

(* Mutant: the generation does not wrap. *)
EndAttemptNoWrap(r, result) ==
  /\ auth' = [generation |-> auth.generation + 1, lastResult |-> result]
  /\ attempts' = attempts + 1
  /\ past' = [past EXCEPT ![r].basis = attempts + 1]
  /\ GoTo(r, "publish")
  /\ UNCHANGED <<authGeneration, mutex, published>>

(* perform_authentication() has returned: the result is kept under the lock. *)
EndAttempt(r, result) ==
  /\ auth' = [generation |-> (auth.generation + 1) % GenModulus, lastResult |-> result]
  /\ attempts' = attempts + 1
  /\ past' = [past EXCEPT ![r].basis = attempts + 1]
  /\ GoTo(r, "publish")
  /\ UNCHANGED <<authGeneration, mutex, published>>

(* send_successful: an answer other than 401 is read, or is an HttpError. *)
Deliver(r) ==
  \/ wire[r].status = "ok" /\ GoTo(r, "body")
  \/ wire[r].status = "error" /\ Finish(r, "Http")

-----------------------------------------------------------------------------
(* send_authenticated *)

Begin(r) ==
  /\ pc[r] = "idle"
  /\ observed' = [observed EXCEPT ![r] = authGeneration]
  /\ past' = [past EXCEPT ![r].begunAt = published]
  /\ GoTo(r, "ready")
  /\ UNCHANGED <<client, jar, challenge, wire, router, attempts, published, applied>>

SendTarget(r) ==
  /\ pc[r] = "ready"
  /\ Transmit(r, "target", NoCookie)
  /\ past' = [past EXCEPT ![r].sentAt = published]
  /\ GoTo(r, "target")
  /\ UNCHANGED <<client, observed, challenge, router, attempts, published, applied>>

(* Mutant: the generation is read when the refusal arrives. *)
ReceiveTargetLateLoad(r) ==
  /\ pc[r] = "target"
  /\ Absorb(r)
  /\ \/ Deliver(r) /\ UNCHANGED <<mutex, observed>>
     \/ /\ wire[r].status = "unauthorized" /\ Credentials
        /\ observed' = [observed EXCEPT ![r] = authGeneration]
        /\ Acquire(r)
        /\ GoTo(r, "lock")
  /\ UNCHANGED <<authGeneration, auth, challenge, router, attempts, published,
                 past, applied>>

(* Mutant: the missing credentials are reported before the status is looked at. *)
ReceiveTargetCredentialsFirst(r) ==
  /\ pc[r] = "target"
  /\ Absorb(r)
  /\ IF ~Credentials THEN Finish(r, "Required") ELSE Deliver(r)
  /\ UNCHANGED <<client, observed, challenge, router, attempts, published, past, applied>>

ReceiveTarget(r) ==
  /\ pc[r] = "target"
  /\ Absorb(r)
  /\ \/ Deliver(r) /\ UNCHANGED mutex
     \/ /\ wire[r].status = "unauthorized" /\ ~Credentials
        /\ Finish(r, "Required")
        /\ UNCHANGED mutex
     \/ /\ wire[r].status = "unauthorized" /\ Credentials
        /\ Acquire(r)
        /\ GoTo(r, "lock")
  /\ UNCHANGED <<authGeneration, auth, observed, challenge, router, attempts,
                 published, past, applied>>

SendRetry(r) ==
  /\ pc[r] = "retry"
  /\ Transmit(r, "target", NoCookie)
  /\ GoTo(r, "retried")
  /\ UNCHANGED <<client, observed, challenge, router, attempts, published, past, applied>>

ReceiveRetry(r) ==
  /\ pc[r] = "retried"
  /\ Absorb(r)
  /\ \/ Deliver(r)
     \/ /\ wire[r].status = "unauthorized"
        /\ Finish(r, "UnauthorizedAfterAuthentication")
  /\ UNCHANGED <<client, observed, challenge, router, attempts, published, past, applied>>

(* send_json and send_text: the body is decoded, or it reports a router error. *)
ReadBody(r) ==
  /\ pc[r] = "body"
  /\ \E result \in {"Success", "Decode"} : Finish(r, result)
  /\ UNCHANGED <<client, jar, observed, challenge, wire, router, attempts,
                 published, past, applied>>

-----------------------------------------------------------------------------
(* authenticate and perform_authentication *)

(* Mutant: any retained result is shared, for ever. *)
ShareResultCached(r) ==
  /\ pc[r] = "lock" /\ holder = r
  /\ auth.lastResult # NoResult
  /\ Proceed(r, auth.lastResult)
  /\ Release
  /\ past' = [past EXCEPT ![r].basis = attempts]
  /\ UNCHANGED <<authGeneration, auth, jar, observed, challenge, wire, router,
                 attempts, published, applied>>

(* Another task completed an attempt since `observed`: its result is shared. *)
ShareResult(r) ==
  /\ pc[r] = "lock" /\ holder = r
  /\ auth.generation # observed[r]
  /\ Proceed(r, auth.lastResult)
  /\ Release
  /\ past' = [past EXCEPT ![r].basis = attempts]
  /\ UNCHANGED <<authGeneration, auth, jar, observed, challenge, wire, router,
                 attempts, published, applied>>

(* Mutant: the guard is dropped before the exchanges with /auth. *)
BeginAttemptUnguarded(r) ==
  /\ pc[r] = "lock" /\ holder = r
  /\ auth.generation = observed[r]
  /\ Transmit(r, "challenge", NoCookie)
  /\ GoTo(r, "challenge")
  /\ Release
  /\ UNCHANGED <<authGeneration, auth, observed, challenge, router, attempts,
                 published, past, applied>>

BeginAttempt(r) ==
  /\ pc[r] = "lock" /\ holder = r
  /\ auth.generation = observed[r]
  /\ Transmit(r, "challenge", NoCookie)
  /\ GoTo(r, "challenge")
  /\ UNCHANGED <<client, observed, challenge, router, attempts, published, past, applied>>

ReceiveChallenge(r) ==
  /\ pc[r] = "challenge"
  /\ Absorb(r)
  /\ \/ /\ wire[r].status = "unauthorized"
        /\ challenge' = [challenge EXCEPT ![r] = wire[r].challenge]
        /\ GoTo(r, "answer")
        /\ UNCHANGED <<client, attempts, published, past>>
     \/ /\ wire[r].status # "unauthorized"
        /\ EndAttempt(r, CASE wire[r].status = "ok" -> "Ok"
                           [] wire[r].status = "error" -> "AuthHttp"
                           [] OTHER -> "BadChallenge")
        /\ UNCHANGED challenge
  /\ UNCHANGED <<observed, router, applied>>

SendLogin(r) ==
  /\ pc[r] = "answer"
  /\ Transmit(r, "login", challenge[r])
  /\ GoTo(r, "login")
  /\ UNCHANGED <<client, observed, challenge, router, attempts, published, past, applied>>

ReceiveLogin(r) ==
  /\ pc[r] = "login"
  /\ Absorb(r)
  /\ EndAttempt(r, CASE wire[r].status = "ok" -> "Ok"
                     [] wire[r].status = "unauthorized" -> "RejectedCredentials"
                     [] OTHER -> "AuthHttp")
  /\ UNCHANGED <<observed, challenge, router, applied>>

(* The store of auth_generation, the drop of the guard and the return. *)
Publish(r) ==
  /\ pc[r] = "publish"
  /\ authGeneration' = auth.generation
  /\ published' = attempts
  /\ Release
  /\ Proceed(r, auth.lastResult)
  /\ UNCHANGED <<auth, jar, observed, challenge, wire, router, attempts, past, applied>>

-----------------------------------------------------------------------------
(* Failures on the client's side. *)

(* Mutant: an operation is repeated after a transport error. *)
TimeoutRetried(r) ==
  /\ "timeout" \in Faults
  /\ pc[r] = "target"
  /\ GoTo(r, "retry")
  /\ Abandon(r)
  /\ UNCHANGED <<client, attempts, published, past, observed, challenge, router, applied>>

(* request_timeout, or any other transport error, of the exchange under way. *)
Timeout(r) ==
  /\ "timeout" \in Faults
  /\ \/ /\ pc[r] \in {"target", "retried", "body"}
        /\ Finish(r, "Transport")
        /\ UNCHANGED <<client, attempts, published, past>>
     \/ /\ pc[r] \in {"challenge", "login"}
        /\ EndAttempt(r, "AuthTransport")
  /\ Abandon(r)
  /\ UNCHANGED <<observed, challenge, router, applied>>

(* The caller drops the future; a held mutex is released, nothing is recorded. *)
Cancel(r) ==
  /\ "cancel" \in Faults
  /\ pc[r] \in Awaiting
  /\ Finish(r, "Cancelled")
  /\ Withdraw(r)
  /\ Abandon(r)
  /\ UNCHANGED <<authGeneration, auth, observed, challenge, router, attempts,
                 published, past, applied>>

-----------------------------------------------------------------------------
(* The router, as far as the client relies on it: a session is a cookie it  *)
(* sets with a challenge and grants when a login answers that challenge.    *)

Reply(r, status, cookie, chal) ==
  wire' = [wire EXCEPT ![r] =
             IF pc[r] \in Listening
             THEN [phase |-> "reply", to |-> wire[r].to, cookie |-> cookie,
                   challenge |-> chal, status |-> status]
             ELSE Quiet]

NewSession == issued' = issued + 1

RouterKeeps == UNCHANGED <<client, jar, pc, observed, challenge, outcome, dropped,
                           attempts, published, past>>

Serves(r) == wire[r].cookie \in granted \/ "open" \in Faults

ServeTarget(r) ==
  /\ wire[r].phase = "request" /\ wire[r].to = "target"
  /\ Serves(r)
  /\ Reply(r, "ok", NoCookie, NoCookie)
  /\ applied' = [applied EXCEPT ![r] = @ + 1]
  /\ UNCHANGED <<issued, granted>>
  /\ RouterKeeps

(* An error status may come before the operation (a redirect, a missing      *)
(* path, a busy router), of whatever session, or after it took effect.       *)
FailTarget(r) ==
  /\ wire[r].phase = "request" /\ wire[r].to = "target"
  /\ "http" \in Faults
  /\ Reply(r, "error", NoCookie, NoCookie)
  /\ \/ UNCHANGED applied
     \/ Serves(r) /\ applied' = [applied EXCEPT ![r] = @ + 1]
  /\ UNCHANGED <<issued, granted>>
  /\ RouterKeeps

RefuseTarget(r) ==
  /\ wire[r].phase = "request" /\ wire[r].to = "target"
  /\ wire[r].cookie \notin granted
  /\ \/ Reply(r, "unauthorized", NoCookie, NoCookie) /\ UNCHANGED issued
     \/ /\ "refusalCookie" \in Faults
        /\ NewSession
        /\ Reply(r, "unauthorized", issued', NoCookie)
  /\ UNCHANGED <<granted, applied>>
  /\ RouterKeeps

ServeChallenge(r) ==
  /\ wire[r].phase = "request" /\ wire[r].to = "challenge"
  /\ \/ /\ wire[r].cookie \in granted
        /\ Reply(r, "ok", NoCookie, NoCookie)
        /\ UNCHANGED issued
     \/ /\ wire[r].cookie \notin granted
        /\ NewSession
        /\ Reply(r, "unauthorized", issued', issued')
     \/ /\ "http" \in Faults
        /\ Reply(r, "error", NoCookie, NoCookie)
        /\ UNCHANGED issued
     \/ /\ "malformed" \in Faults
        /\ Reply(r, "malformed", NoCookie, NoCookie)
        /\ UNCHANGED issued
  /\ UNCHANGED <<granted, applied>>
  /\ RouterKeeps

ServeLogin(r) ==
  /\ wire[r].phase = "request" /\ wire[r].to = "login"
  /\ \/ /\ wire[r].cookie = wire[r].challenge
        /\ granted' = granted \cup {wire[r].cookie}
        /\ Reply(r, "ok", NoCookie, NoCookie)
     \/ /\ wire[r].cookie # wire[r].challenge \/ "reject" \in Faults
        /\ Reply(r, "unauthorized", NoCookie, NoCookie)
        /\ UNCHANGED granted
     \/ /\ "http" \in Faults
        /\ Reply(r, "error", NoCookie, NoCookie)
        /\ UNCHANGED granted
  /\ UNCHANGED <<issued, applied>>
  /\ RouterKeeps

Expire ==
  /\ Cardinality(dropped) < MaxExpiries
  /\ \E s \in granted : granted' = granted \ {s} /\ dropped' = dropped \cup {s}
  /\ UNCHANGED <<client, jar, pc, observed, challenge, outcome, wire, issued,
                 attempts, published, past, applied>>

-----------------------------------------------------------------------------
(* The steps a running task takes of its own accord. *)
Run(r) ==
  \/ SendTarget(r) \/ SendRetry(r) \/ ReadBody(r)
  \/ ShareResult(r) \/ BeginAttempt(r) \/ SendLogin(r) \/ Publish(r)

Receive(r) ==
  ReceiveTarget(r) \/ ReceiveRetry(r) \/ ReceiveChallenge(r) \/ ReceiveLogin(r)

Serve(r) ==
  \/ ServeTarget(r) \/ FailTarget(r) \/ RefuseTarget(r)
  \/ ServeChallenge(r) \/ ServeLogin(r)

(* Every call has returned: the client may rest here. *)
Rest == (\A r \in Requests : pc[r] = "done") /\ UNCHANGED vars

Next ==
  \/ \E r \in Requests : Begin(r) \/ Run(r) \/ Receive(r) \/ Timeout(r)
                           \/ Cancel(r) \/ Serve(r)
  \/ Expire
  \/ Rest

Spec == Init /\ [][Next]_vars

(* The runtime polls a task that can move, and request_timeout bounds every *)
(* exchange and body read.  Neither the router nor the caller owes anything. *)
Fairness ==
  \A r \in Requests : WF_vars(Run(r)) /\ WF_vars(Receive(r) \/ Timeout(r))

FairSpec == Spec /\ Fairness

-----------------------------------------------------------------------------
(* Properties *)

(* The `expect` of authenticate ("a completed generation must retain its     *)
(* result") never fires: whoever finds the generation moved finds a result,  *)
(* at any wrap of the counter.                                               *)
NoPanic == \A r \in Requests : outcome[r] # "Panic"

(* Single-flight: only the holder of the mutex talks to /auth, and until it  *)
(* stores the generation nobody else decides anything from `auth`.           *)
SingleFlight ==
  \A r, q \in Requests :
    pc[r] \in Attempting \cup {"publish"} /\ q # r =>
      /\ holder = r
      /\ pc[q] \notin Attempting \cup {"publish"}

(* "Shared, not repeated": whoever runs an attempt sent its refused request  *)
(* after the last completed attempt, so no result it could share was missed. *)
(* Beyond GenModulus completed attempts the counter cannot tell.             *)
NoRedundantAttempt ==
  \A r \in Requests :
    pc[r] \in Attempting /\ attempts < GenModulus => past[r].sentAt = attempts

(* Results, errors above all, are not cached: a call only ever takes the     *)
(* result of an attempt that was published after the call began.             *)
FreshResult ==
  \A r \in Requests : past[r].basis # 0 => past[r].basis > past[r].begunAt

(* The mutex is held or awaited by exactly the tasks inside authenticate():  *)
(* cancellation at any await leaves neither a held lock nor a dead waiter.   *)
MutexExact ==
  LET inside == {r \in Requests : pc[r] \in Attempting \cup {"lock", "publish"}}
      queued == {waiters[i] : i \in 1..Len(waiters)}
  IN /\ inside = queued \cup ({holder} \ {NoRequest})
     /\ holder = NoRequest => waiters = <<>>
     /\ \A i \in 1..Len(waiters) : waiters[i] # holder /\ pc[waiters[i]] = "lock"

(* If refusals set no cookie: until the router has dropped a session, a      *)
(* repeated request presents one it has granted; and an answer goes out with *)
(* the cookie its challenge came with.                                       *)
SessionPresented ==
  "refusalCookie" \notin Faults =>
    \A r \in Requests :
      wire[r].phase = "request" =>
        /\ pc[r] = "retried" /\ dropped = {} => wire[r].cookie \in granted
        /\ pc[r] = "login" => wire[r].cookie = wire[r].challenge

(* If refusals set no cookie, "unauthorized after authentication" and        *)
(* "rejected credentials" are not the client's own doing, however many calls *)
(* share the jar: the router has dropped a session, or it rejects them.      *)
BlamelessRefusal ==
  "refusalCookie" \notin Faults =>
    \A r \in Requests :
      /\ outcome[r] = "UnauthorizedAfterAuthentication" => dropped # {}
      /\ outcome[r] = "RejectedCredentials" => "reject" \in Faults

(* An operation is put to the router again only after a refusal; see the     *)
(* abstract specification for what each outcome says of its execution.       *)
Promise == INSTANCE RciPromise WITH executions <- applied, report <- outcome
KeepsPromise == Promise!Spec

(* Every call returns: the wait for the mutex has no timeout of its own, but *)
(* every exchange under it has one, and the queue is served in order.        *)
EveryCallReturns == \A r \in Requests : pc[r] = "ready" ~> pc[r] = "done"
=============================================================================

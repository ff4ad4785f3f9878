------------------------ MODULE KeeneticClientProofs ------------------------
(***************************************************************************)
(* Theorems of KeeneticClient, for any set of requests, any wrap of the    *)
(* generation counter, any combination of faults, with and without         *)
(* credentials: first what authentication promises and what an outcome     *)
(* lets a caller conclude, then the mutex and the session the tasks share. *)
(***************************************************************************)
EXTENDS KeeneticClient, SequenceTheorems, TLAPS

LEMMA ModuloInRange ==
  ASSUME NEW n \in Nat
  PROVE  n % GenModulus \in 0..GenModulus-1
BY GenModulusAssumption

LEMMA ModuloBelow ==
  ASSUME NEW n \in Nat, n < GenModulus
  PROVE  n % GenModulus = n
BY GenModulusAssumption

(* Removing an element from a queue of requests leaves a queue of requests. *)
LEMMA RemovalType ==
  ASSUME NEW S, NEW q \in Seq(S), NEW i \in 1..Len(q)
  PROVE  SubSeq(q, 1, i - 1) \o SubSeq(q, i + 1, Len(q)) \in Seq(S)
<1>1. \A j \in 1..Len(q) : q[j] \in S
  BY ElementOfSeq
<1>2. Len(q) \in Nat
  BY LenProperties
<1>3. SubSeq(q, 1, i - 1) \in Seq(S)
  BY <1>1, <1>2, SubSeqProperties
<1>4. SubSeq(q, i + 1, Len(q)) \in Seq(S)
  BY <1>1, <1>2, SubSeqProperties
<1>5. QED BY <1>3, <1>4, ConcatProperties

(* The mutex stays with the requests whatever happens to it. *)
LEMMA MutexType ==
  ASSUME TypeOK, NEW r \in Requests, Acquire(r) \/ Release \/ Withdraw(r)
  PROVE  holder' \in Requests \cup {NoRequest} /\ waiters' \in Seq(Requests)
<1>1. holder \in Requests \cup {NoRequest} /\ waiters \in Seq(Requests)
  BY DEF TypeOK
<1>2. CASE Acquire(r)
  <2>1. Append(waiters, r) \in Seq(Requests)
    BY <1>1, AppendProperties
  <2>2. QED BY <1>1, <1>2, <2>1 DEF Acquire
<1>3. CASE Release
  <2>1. waiters # <<>> => Head(waiters) \in Requests /\ Tail(waiters) \in Seq(Requests)
    BY <1>1, HeadTailProperties
  <2>2. QED BY <1>1, <1>3, <2>1 DEF Release
<1>4. CASE \E i \in 1..Len(waiters) :
             /\ waiters' = SubSeq(waiters, 1, i - 1) \o SubSeq(waiters, i + 1, Len(waiters))
             /\ UNCHANGED holder
  <2>1. PICK i \in 1..Len(waiters) :
             waiters' = SubSeq(waiters, 1, i - 1) \o SubSeq(waiters, i + 1, Len(waiters))
    BY <1>4
  <2>2. waiters' \in Seq(Requests)
    BY ONLY <1>1, <2>1, RemovalType
  <2>3. QED BY <1>1, <1>4, <2>2
<1>5. CASE UNCHANGED mutex
  BY <1>1, <1>5 DEF mutex
<1>6. QED BY <1>2, <1>3, <1>4, <1>5 DEF Withdraw

LEMMA GoToType ==
  ASSUME TypeOK, NEW r, NEW step \in Steps, GoTo(r, step)
  PROVE  pc' \in [Requests -> Steps] /\ outcome' \in [Requests -> Outcomes \cup {"pending"}]
BY DEF TypeOK, GoTo

LEMMA FinishType ==
  ASSUME TypeOK, NEW r, NEW result \in Outcomes, Finish(r, result)
  PROVE  pc' \in [Requests -> Steps] /\ outcome' \in [Requests -> Outcomes \cup {"pending"}]
BY DEF TypeOK, Finish, Steps

LEMMA ProceedType ==
  ASSUME TypeOK, NEW r, Proceed(r, auth.lastResult)
  PROVE  pc' \in [Requests -> Steps] /\ outcome' \in [Requests -> Outcomes \cup {"pending"}]
<1>1. CASE auth.lastResult = "Ok" /\ GoTo(r, "retry")
  BY <1>1, GoToType DEF Steps
<1>2. CASE Finish(r, "Panic")
  BY <1>2, FinishType DEF Outcomes
<1>3. CASE Finish(r, auth.lastResult) /\ auth.lastResult # "Ok" /\ auth.lastResult # NoResult
  <2>1. auth.lastResult \in Outcomes
    BY <1>3 DEF TypeOK, Outcomes, AuthResults
  <2>2. QED BY <1>3, <2>1, FinishType
<1>4. QED BY <1>1, <1>2, <1>3 DEF Proceed

Exchange ==
  [phase: {"quiet", "request", "reply"}, to: {"target", "challenge", "login"},
   cookie: Nat, challenge: Nat,
   status: {"ok", "unauthorized", "malformed", "error"}]

LEMMA WireType ==
  ASSUME TypeOK, NEW r \in Requests,
         \/ Absorb(r)
         \/ Abandon(r)
         \/ Transmit(r, "target", NoCookie)
         \/ Transmit(r, "challenge", NoCookie)
         \/ Transmit(r, "login", challenge[r])
  PROVE  jar' \in Nat /\ wire' \in [Requests -> Exchange]
<1> USE DEF TypeOK, Exchange, NoCookie
<1>1. Quiet \in Exchange
  BY DEF Quiet
<1>2. CASE Absorb(r)
  BY <1>1, <1>2 DEF Absorb
<1>3. CASE Abandon(r)
  BY <1>1, <1>3 DEF Abandon
<1>4. ASSUME NEW to \in {"target", "challenge", "login"}, NEW answered \in Nat,
             Transmit(r, to, answered)
      PROVE  jar' \in Nat /\ wire' \in [Requests -> Exchange]
  BY <1>4 DEF Transmit
<1>5. challenge[r] \in Nat
  OBVIOUS
<1>6. QED BY <1>2, <1>3, <1>4, <1>5

LEMMA ReplyType ==
  ASSUME TypeOK, NEW r \in Requests, NEW cookie \in Nat, NEW chal \in Nat,
         NEW status \in {"ok", "unauthorized", "malformed", "error"},
         Reply(r, status, cookie, chal)
  PROVE  wire' \in [Requests -> Exchange]
<1>1. Quiet \in Exchange
  BY DEF Quiet, Exchange, NoCookie
<1>2. QED BY <1>1 DEF Reply, TypeOK, Exchange

LEMMA EndAttemptType ==
  ASSUME TypeOK, NEW r \in Requests, NEW result \in AuthResults, EndAttempt(r, result)
  PROVE  /\ auth' \in [generation: 0..GenModulus-1, lastResult: AuthResults \cup {NoResult}]
         /\ attempts' \in Nat
         /\ past' \in [Requests -> [begunAt: Nat, sentAt: Nat, basis: Nat]]
         /\ pc' \in [Requests -> Steps]
         /\ outcome' \in [Requests -> Outcomes \cup {"pending"}]
         /\ UNCHANGED <<authGeneration, holder, waiters, published>>
<1>1. auth.generation + 1 \in Nat
  <2>1. auth.generation \in 0..GenModulus-1
    BY DEF TypeOK
  <2>2. QED BY ONLY <2>1, GenModulusAssumption
<1>2. (auth.generation + 1) % GenModulus \in 0..GenModulus-1
  BY ONLY <1>1, ModuloInRange
<1>3. auth' \in [generation: 0..GenModulus-1, lastResult: AuthResults \cup {NoResult}]
  BY <1>2 DEF EndAttempt
<1>4. attempts' \in Nat /\ past' \in [Requests -> [begunAt: Nat, sentAt: Nat, basis: Nat]]
  <2>1. attempts + 1 \in Nat
    BY DEF TypeOK
  <2>2. past' = [past EXCEPT ![r].basis = attempts + 1] /\ attempts' = attempts + 1
    BY DEF EndAttempt
  <2>3. past \in [Requests -> [begunAt: Nat, sentAt: Nat, basis: Nat]]
    BY DEF TypeOK
  <2>4. QED BY ONLY <2>1, <2>2, <2>3, r \in Requests
<1>5. pc' \in [Requests -> Steps] /\ outcome' \in [Requests -> Outcomes \cup {"pending"}]
  BY GoToType DEF EndAttempt, Steps
<1>6. QED BY <1>3, <1>4, <1>5 DEF EndAttempt, mutex

LEMMA DeliverType ==
  ASSUME TypeOK, NEW r, Deliver(r)
  PROVE  pc' \in [Requests -> Steps] /\ outcome' \in [Requests -> Outcomes \cup {"pending"}]
BY GoToType, FinishType DEF Deliver, Steps, Awaiting, Outcomes

-----------------------------------------------------------------------------
(* One lemma per group of actions. *)

LEMMA RunType == ASSUME TypeOK, NEW r \in Requests, Run(r) PROVE TypeOK'
<1> USE DEF Exchange, Steps, Attempting, Awaiting
<1>1. CASE SendTarget(r)
  <2>1. past' \in [Requests -> [begunAt: Nat, sentAt: Nat, basis: Nat]]
    <3>1. past \in [Requests -> [begunAt: Nat, sentAt: Nat, basis: Nat]]
      BY DEF TypeOK
    <3>2. published \in Nat /\ attempts \in Nat
      BY DEF TypeOK
    <3>3. past' = [past EXCEPT ![r].sentAt = published]
      BY <1>1 DEF SendTarget
    <3>4. QED BY ONLY <3>1, <3>2, <3>3, r \in Requests
  <2>2. QED BY <1>1, <2>1, WireType, GoToType DEF SendTarget, TypeOK, client, router
<1>2. CASE SendRetry(r)
  BY <1>2, WireType, GoToType DEF SendRetry, TypeOK, client, router
<1>3. CASE ReadBody(r)
  BY <1>3, FinishType DEF ReadBody, TypeOK, client, router, Outcomes
<1>4. CASE ShareResult(r)
  <2>1. past' \in [Requests -> [begunAt: Nat, sentAt: Nat, basis: Nat]]
    <3>1. past \in [Requests -> [begunAt: Nat, sentAt: Nat, basis: Nat]]
      BY DEF TypeOK
    <3>2. published \in Nat /\ attempts \in Nat
      BY DEF TypeOK
    <3>3. past' = [past EXCEPT ![r].basis = attempts]
      BY <1>4 DEF ShareResult
    <3>4. QED BY ONLY <3>1, <3>2, <3>3, r \in Requests
  <2>2. QED BY <1>4, <2>1, MutexType, ProceedType DEF ShareResult, TypeOK, router
<1>5. CASE BeginAttempt(r)
  BY <1>5, WireType, GoToType DEF BeginAttempt, TypeOK, client, router
<1>6. CASE SendLogin(r)
  BY <1>6, WireType, GoToType DEF SendLogin, TypeOK, client, router
<1>7. CASE Publish(r)
  BY <1>7, MutexType, ProceedType DEF Publish, TypeOK, router
<1>8. QED BY <1>1, <1>2, <1>3, <1>4, <1>5, <1>6, <1>7 DEF Run

LEMMA ReceiveType == ASSUME TypeOK, NEW r \in Requests, Receive(r) PROVE TypeOK'
<1> USE DEF Exchange, Steps, Attempting, Awaiting
<1>1. CASE ReceiveTarget(r)
  <2>1. pc' \in [Requests -> Steps] /\ outcome' \in [Requests -> Outcomes \cup {"pending"}]
    BY <1>1, DeliverType, FinishType, GoToType DEF ReceiveTarget, Outcomes
  <2>2. holder' \in Requests \cup {NoRequest} /\ waiters' \in Seq(Requests)
    BY <1>1, MutexType DEF ReceiveTarget, TypeOK, mutex
  <2>3. QED BY <1>1, <2>1, <2>2, WireType DEF ReceiveTarget, TypeOK, router
<1>2. CASE ReceiveRetry(r)
  <2>1. pc' \in [Requests -> Steps] /\ outcome' \in [Requests -> Outcomes \cup {"pending"}]
    BY <1>2, DeliverType, FinishType DEF ReceiveRetry, Outcomes
  <2>2. QED BY <1>2, <2>1, WireType DEF ReceiveRetry, TypeOK, client, router
<1>3. CASE ReceiveChallenge(r)
  <2>1. CASE wire[r].status = "unauthorized"
    <3>1. challenge' \in [Requests -> Nat]
      BY <1>3, <2>1 DEF ReceiveChallenge, TypeOK
    <3>2. QED BY <1>3, <2>1, <3>1, WireType, GoToType
              DEF ReceiveChallenge, TypeOK, client, router
  <2>2. CASE wire[r].status # "unauthorized"
    <3>1. PICK result \in AuthResults : EndAttempt(r, result)
      BY <1>3, <2>2 DEF ReceiveChallenge, AuthResults, AuthErrors
    <3>2. QED BY <1>3, <2>2, <3>1, EndAttemptType, WireType
              DEF ReceiveChallenge, TypeOK, router
  <2>3. QED BY <2>1, <2>2
<1>4. CASE ReceiveLogin(r)
  <2>1. PICK result \in AuthResults : EndAttempt(r, result)
    BY <1>4 DEF ReceiveLogin, AuthResults, AuthErrors
  <2>2. QED BY <1>4, <2>1, EndAttemptType, WireType DEF ReceiveLogin, TypeOK, router
<1>5. QED BY <1>1, <1>2, <1>3, <1>4 DEF Receive

LEMMA FailureType ==
  ASSUME TypeOK, NEW r \in Requests, Timeout(r) \/ Cancel(r)
  PROVE  TypeOK'
<1> USE DEF Exchange
<1>1. CASE Timeout(r) /\ Finish(r, "Transport")
  BY <1>1, FinishType, WireType
  DEF Timeout, EndAttempt, GoTo, Finish, TypeOK, client, router, Outcomes
<1>2. CASE Timeout(r) /\ EndAttempt(r, "AuthTransport")
  BY <1>2, EndAttemptType, WireType DEF Timeout, TypeOK, router, AuthResults, AuthErrors
<1>3. CASE Cancel(r)
  BY <1>3, FinishType, MutexType, WireType DEF Cancel, TypeOK, router, Outcomes
<1>4. QED BY <1>1, <1>2, <1>3 DEF Timeout

LEMMA ServeType == ASSUME TypeOK, NEW r \in Requests, Serve(r) PROVE TypeOK'
<1>1. CASE ServeTarget(r)
  <2>1. wire' \in [Requests -> Exchange]
    BY <1>1, ReplyType DEF ServeTarget, NoCookie
  <2>2. applied' \in [Requests -> Nat]
    <3>1. applied \in [Requests -> Nat]
      BY DEF TypeOK
    <3>2. applied' = [applied EXCEPT ![r] = applied[r] + 1]
      BY <1>1 DEF ServeTarget
    <3>3. QED BY <3>1, <3>2
  <2>3. QED BY <1>1, <2>1, <2>2 DEF ServeTarget, RouterKeeps, client, TypeOK, Exchange
<1>2. CASE RefuseTarget(r)
  <2>1. issued' \in Nat
    <3>1. issued \in Nat
      BY DEF TypeOK
    <3>2. issued' = issued \/ issued' = issued + 1
      BY <1>2 DEF RefuseTarget, NewSession
    <3>3. QED BY <3>1, <3>2
  <2>2. wire' \in [Requests -> Exchange]
    BY <1>2, <2>1, ReplyType DEF RefuseTarget, NoCookie
  <2>3. QED BY <1>2, <2>1, <2>2 DEF RefuseTarget, RouterKeeps, client, TypeOK, Exchange
<1>3. CASE ServeChallenge(r)
  <2>1. issued' \in Nat
    <3>1. issued \in Nat
      BY DEF TypeOK
    <3>2. issued' = issued \/ issued' = issued + 1
      BY <1>3 DEF ServeChallenge, NewSession
    <3>3. QED BY <3>1, <3>2
  <2>2. wire' \in [Requests -> Exchange]
    BY <1>3, <2>1, ReplyType DEF ServeChallenge, NoCookie
  <2>3. QED BY <1>3, <2>1, <2>2 DEF ServeChallenge, RouterKeeps, client, TypeOK, Exchange
<1>4. CASE ServeLogin(r)
  <2>1. wire' \in [Requests -> Exchange]
    BY <1>4, ReplyType DEF ServeLogin, NoCookie
  <2>2. granted' \subseteq Nat
    <3>1. granted \subseteq Nat /\ wire[r].cookie \in Nat
      BY DEF TypeOK
    <3>2. granted' = granted \/ granted' = granted \cup {wire[r].cookie}
      BY <1>4 DEF ServeLogin
    <3>3. QED BY <3>1, <3>2
  <2>3. QED BY <1>4, <2>1, <2>2 DEF ServeLogin, RouterKeeps, client, TypeOK, Exchange
<1>5. CASE FailTarget(r)
  <2>1. wire' \in [Requests -> Exchange]
    BY <1>5, ReplyType DEF FailTarget, NoCookie
  <2>2. applied' \in [Requests -> Nat]
    <3>1. applied \in [Requests -> Nat]
      BY DEF TypeOK
    <3>2. applied' = applied \/ applied' = [applied EXCEPT ![r] = applied[r] + 1]
      BY <1>5 DEF FailTarget
    <3>3. QED BY <3>1, <3>2
  <2>3. QED BY <1>5, <2>1, <2>2 DEF FailTarget, RouterKeeps, client, TypeOK, Exchange
<1>6. QED BY <1>1, <1>2, <1>3, <1>4, <1>5 DEF Serve

LEMMA StepType == ASSUME TypeOK, [Next]_vars PROVE TypeOK'
<1>1. ASSUME NEW r \in Requests, Begin(r) PROVE TypeOK'
  BY <1>1 DEF Begin, GoTo, TypeOK, client, router, Steps
<1>2. CASE Expire
  BY <1>2 DEF Expire, TypeOK, client
<1>3. CASE UNCHANGED vars
  BY <1>3 DEF vars, TypeOK
<1>4. QED BY <1>1, <1>2, <1>3, RunType, ReceiveType, FailureType, ServeType DEF Next, Rest

(* Every variable keeps its type, in any interleaving and at any wrap. *)
THEOREM TypeCorrect == Spec => []TypeOK
<1>1. Init => TypeOK
  BY GenModulusAssumption
  DEF Init, TypeOK, Steps, Attempting, Awaiting, Outcomes, Quiet, NoCookie
<1>2. TypeOK /\ [Next]_vars => TypeOK'
  BY StepType
<1>3. QED BY <1>1, <1>2, PTL DEF Spec

-----------------------------------------------------------------------------
(* Mutual exclusion in authenticate(). *)

(* Whoever is past the lock, up to the store of the generation, holds it. *)
Guarded == \A r \in Requests : pc[r] \in Attempting \cup {"publish"} => holder = r

LEMMA GuardedStep == ASSUME TypeOK, Guarded, [Next]_vars PROVE Guarded'
<1> USE RequestsAssumption DEF Guarded, Attempting
<1>1. pc \in [Requests -> Steps]
  BY DEF TypeOK
<1>2. ASSUME NEW r \in Requests, Begin(r) PROVE Guarded'
  BY <1>1, <1>2 DEF Begin, GoTo, client
<1>3. ASSUME NEW r \in Requests, Run(r) PROVE Guarded'
  <2>1. CASE SendTarget(r) \/ SendRetry(r) \/ ReadBody(r)
    BY <1>1, <2>1 DEF SendTarget, SendRetry, ReadBody, GoTo, Finish, client
  <2>2. CASE BeginAttempt(r) \/ SendLogin(r)
    BY <1>1, <2>2 DEF BeginAttempt, SendLogin, GoTo, client
  <2>3. ASSUME holder = r, Proceed(r, auth.lastResult) PROVE Guarded'
    BY <1>1, <2>3 DEF Proceed, GoTo, Finish
  <2>4. QED BY <1>3, <2>1, <2>2, <2>3 DEF Run, ShareResult, Publish
<1>4. ASSUME NEW r \in Requests, Receive(r) PROVE Guarded'
  <2>1. CASE ReceiveTarget(r)
    BY <1>1, <2>1 DEF ReceiveTarget, Acquire, Deliver, GoTo, Finish, mutex
  <2>2. CASE ReceiveRetry(r)
    BY <1>1, <2>2 DEF ReceiveRetry, Deliver, GoTo, Finish, client
  <2>3. CASE ReceiveChallenge(r)
    BY <1>1, <2>3 DEF ReceiveChallenge, EndAttempt, GoTo, client, mutex
  <2>4. CASE ReceiveLogin(r)
    BY <1>1, <2>4 DEF ReceiveLogin, EndAttempt, GoTo, mutex
  <2>5. QED BY <1>4, <2>1, <2>2, <2>3, <2>4 DEF Receive
<1>5. ASSUME NEW r \in Requests, Timeout(r) PROVE Guarded'
  BY <1>1, <1>5 DEF Timeout, EndAttempt, GoTo, Finish, client, mutex
<1>6. ASSUME NEW r \in Requests, Cancel(r) PROVE Guarded'
  <2>1. \A q \in Requests : pc'[q] = IF q = r THEN "done" ELSE pc[q]
    BY <1>1, <1>6 DEF Cancel, Finish
  <2>2. holder = r \/ holder' = holder
    BY <1>6 DEF Cancel, Withdraw, mutex
  <2>3. QED BY <2>1, <2>2
<1>7. ASSUME NEW r \in Requests, Serve(r) PROVE Guarded'
  BY <1>7
     DEF Serve, ServeTarget, FailTarget, RefuseTarget, ServeChallenge, ServeLogin,
         RouterKeeps, client
<1>8. CASE Expire
  BY <1>8 DEF Expire, client
<1>9. CASE UNCHANGED vars
  BY <1>9 DEF vars
<1>10. QED BY <1>2, <1>3, <1>4, <1>5, <1>6, <1>7, <1>8, <1>9 DEF Next, Rest

(* At most one task at a time talks to /auth or completes an attempt, and it *)
(* holds the mutex: cancellation and timeouts included.                      *)
THEOREM MutualExclusion == Spec => []SingleFlight
<1>1. Init => Guarded
  BY DEF Init, Guarded, Attempting
<1>2. TypeOK /\ Guarded /\ [Next]_vars => Guarded'
  BY GuardedStep
<1>3. Guarded => SingleFlight
  BY DEF Guarded, SingleFlight
<1>4. QED BY <1>1, <1>2, <1>3, TypeCorrect, PTL DEF Spec

-----------------------------------------------------------------------------
(* The `expect` of authenticate() is unreachable. *)

(* Until a result is retained, nobody can have seen a generation but zero. *)
Retained ==
  /\ auth.lastResult = NoResult =>
       /\ auth.generation = 0 /\ authGeneration = 0
       /\ \A r \in Requests : observed[r] = 0
  /\ \A r \in Requests : pc[r] = "publish" => auth.lastResult # NoResult
  /\ NoPanic

LEMMA EndAttemptRetains ==
  ASSUME TypeOK, Retained, NEW r \in Requests, NEW result \in AuthResults,
         EndAttempt(r, result), UNCHANGED observed
  PROVE  Retained'
<1>1. auth'.lastResult # NoResult
  BY DEF EndAttempt, AuthResults, AuthErrors, NoResult
<1>2. UNCHANGED outcome
  BY DEF EndAttempt, GoTo
<1>3. QED BY <1>1, <1>2 DEF Retained, NoPanic

LEMMA ProceedRetains ==
  ASSUME TypeOK, Retained, NEW r \in Requests, Proceed(r, auth.lastResult),
         auth.lastResult # NoResult, UNCHANGED <<auth, observed>>
  PROVE  Retained'
<1>1. auth.lastResult # "Panic"
  BY DEF TypeOK, AuthResults, AuthErrors, NoResult
<1>2. NoPanic'
  BY <1>1 DEF Proceed, GoTo, Finish, Retained, NoPanic, TypeOK
<1>3. QED BY <1>2 DEF Retained

LEMMA RetainedStep == ASSUME TypeOK, Retained, [Next]_vars PROVE Retained'
<1> USE DEF Retained, NoPanic
<1>1. pc \in [Requests -> Steps] /\ outcome \in [Requests -> Outcomes \cup {"pending"}]
  BY DEF TypeOK
<1>2. ASSUME NEW r \in Requests, Begin(r) PROVE Retained'
  <2>1. \A q \in Requests : observed'[q] = IF q = r THEN authGeneration ELSE observed[q]
    BY <1>2 DEF Begin, TypeOK
  <2>2. QED BY <1>1, <1>2, <2>1 DEF Begin, GoTo, client
<1>3. ASSUME NEW r \in Requests, Run(r) PROVE Retained'
  <2>1. CASE SendTarget(r) \/ SendRetry(r)
    BY <1>1, <2>1 DEF SendTarget, SendRetry, GoTo, client
  <2>2. CASE ReadBody(r)
    BY <1>1, <2>2 DEF ReadBody, Finish, client
  <2>3. CASE BeginAttempt(r) \/ SendLogin(r)
    BY <1>1, <2>3 DEF BeginAttempt, SendLogin, GoTo, client
  <2>4. CASE ShareResult(r)
    BY <2>4, ProceedRetains DEF ShareResult
  <2>5. CASE Publish(r)
    BY <2>5, ProceedRetains DEF Publish
  <2>6. QED BY <1>3, <2>1, <2>2, <2>3, <2>4, <2>5 DEF Run
<1>4. ASSUME NEW r \in Requests, Receive(r) PROVE Retained'
  <2>1. CASE ReceiveTarget(r)
    BY <1>1, <2>1 DEF ReceiveTarget, Deliver, GoTo, Finish
  <2>2. CASE ReceiveRetry(r)
    BY <1>1, <2>2 DEF ReceiveRetry, Deliver, GoTo, Finish, client
  <2>3. CASE ReceiveChallenge(r) /\ wire[r].status = "unauthorized"
    BY <1>1, <2>3 DEF ReceiveChallenge, GoTo, client
  <2>4. CASE ReceiveChallenge(r) /\ wire[r].status # "unauthorized"
    BY <2>4, EndAttemptRetains DEF ReceiveChallenge, AuthResults, AuthErrors
  <2>5. CASE ReceiveLogin(r)
    BY <2>5, EndAttemptRetains DEF ReceiveLogin, AuthResults, AuthErrors
  <2>6. QED BY <1>4, <2>1, <2>2, <2>3, <2>4, <2>5 DEF Receive
<1>5. ASSUME NEW r \in Requests, Timeout(r) PROVE Retained'
  <2>1. CASE EndAttempt(r, "AuthTransport")
    BY <1>5, <2>1, EndAttemptRetains DEF Timeout, AuthResults, AuthErrors
  <2>2. CASE Finish(r, "Transport") /\ UNCHANGED client
    BY <1>1, <1>5, <2>2 DEF Timeout, Finish, client
  <2>3. QED BY <1>5, <2>1, <2>2 DEF Timeout
<1>6. ASSUME NEW r \in Requests, Cancel(r) PROVE Retained'
  BY <1>1, <1>6 DEF Cancel, Finish
<1>7. ASSUME NEW r \in Requests, Serve(r) PROVE Retained'
  BY <1>7
     DEF Serve, ServeTarget, FailTarget, RefuseTarget, ServeChallenge, ServeLogin,
         RouterKeeps, client
<1>8. CASE Expire
  BY <1>8 DEF Expire, client
<1>9. CASE UNCHANGED vars
  BY <1>9 DEF vars
<1>10. QED BY <1>2, <1>3, <1>4, <1>5, <1>6, <1>7, <1>8, <1>9 DEF Next, Rest

(* A generation other than the observed one always comes with its result. *)
THEOREM ResultRetained == Spec => []NoPanic
<1>1. Init => Retained
  BY DEF Init, Retained, NoPanic
<1>2. TypeOK /\ Retained /\ [Next]_vars => Retained'
  BY RetainedStep
<1>3. Retained => NoPanic
  BY DEF Retained
<1>4. QED BY <1>1, <1>2, <1>3, TypeCorrect, PTL DEF Spec

-----------------------------------------------------------------------------
(* What the generation counter says about the attempts it counts. *)

(* `auth` counts attempts, `auth_generation` those published and `observed`  *)
(* those published when the call began: equal counts have equal generations, *)
(* and below the wrap the generation is the count.                           *)
Stands(count, generation) ==
  /\ count = attempts => generation = auth.generation
  /\ count < GenModulus => generation = count

Counted ==
  /\ Stands(attempts, auth.generation)
  /\ Stands(published, authGeneration)
  /\ published <= attempts
  /\ \A r \in Requests :
       /\ Stands(past[r].begunAt, observed[r])
       /\ past[r].begunAt <= published
       /\ pc[r] = "idle" => past[r].basis = 0
       /\ pc[r] \notin {"idle", "ready"} =>
            past[r].begunAt <= past[r].sentAt /\ past[r].sentAt <= published
  /\ FreshResult
  /\ NoRedundantAttempt

(* The types Counted is about, apart from those it is not. *)
CountTypes ==
  /\ auth.generation \in Nat /\ authGeneration \in Nat
  /\ attempts \in Nat /\ published \in Nat
  /\ pc \in [Requests -> Steps]
  /\ observed \in [Requests -> Nat]
  /\ past \in [Requests -> [begunAt: Nat, sentAt: Nat, basis: Nat]]

LEMMA TypesOfCounts == ASSUME TypeOK PROVE CountTypes
<1>1. 0..GenModulus-1 \subseteq Nat
  BY GenModulusAssumption
<1>2. observed \in [Requests -> Nat]
  BY <1>1 DEF TypeOK
<1>3. auth.generation \in 0..GenModulus-1 /\ authGeneration \in 0..GenModulus-1
  BY DEF TypeOK
<1>4. QED BY <1>1, <1>2, <1>3 DEF TypeOK, CountTypes

(* A step that moves only the pc of one task, and not into an attempt. *)
LEMMA CountedFrame ==
  ASSUME TypeOK, Counted, NEW r \in Requests, NEW step,
         pc' = [pc EXCEPT ![r] = step],
         pc[r] \notin {"idle", "ready"}, step \notin {"idle", "ready"},
         step \in Attempting => pc[r] \in Attempting,
         UNCHANGED <<auth, authGeneration, observed, attempts, published, past>>
  PROVE  Counted'
BY TypesOfCounts DEF Counted, CountTypes, Stands, FreshResult, NoRedundantAttempt, Attempting

LEMMA CountedEndAttempt ==
  ASSUME TypeOK, Guarded, Counted, NEW r \in Requests, NEW result,
         pc[r] \in Attempting, EndAttempt(r, result), UNCHANGED observed
  PROVE  Counted'
<1>1. CountTypes /\ holder = r
  BY TypesOfCounts DEF Guarded
<1>2. /\ attempts' = attempts + 1 /\ auth'.generation = (auth.generation + 1) % GenModulus
      /\ past' = [past EXCEPT ![r].basis = attempts + 1]
      /\ pc' = [pc EXCEPT ![r] = "publish"]
      /\ UNCHANGED <<authGeneration, published, observed>>
  BY DEF EndAttempt, GoTo
<1>3. ASSUME attempts + 1 < GenModulus PROVE auth'.generation = attempts + 1
  <2>1. auth.generation = attempts
    BY <1>1, <1>3, GenModulusAssumption DEF Counted, Stands, CountTypes
  <2>2. (attempts + 1) % GenModulus = attempts + 1
    BY <1>1, <1>3, ModuloBelow DEF CountTypes
  <2>3. QED BY <1>2, <2>1, <2>2
<1>4. \A q \in Requests \ {r} : pc[q] \notin Attempting
  BY <1>1, RequestsAssumption DEF Guarded
<1>5. \A q \in Requests :
        /\ past'[q].begunAt = past[q].begunAt /\ past'[q].sentAt = past[q].sentAt
        /\ past'[q].basis = IF q = r THEN attempts + 1 ELSE past[q].basis
        /\ pc'[q] = IF q = r THEN "publish" ELSE pc[q]
  BY <1>1, <1>2 DEF CountTypes
<1>6. QED
  BY <1>1, <1>2, <1>3, <1>4, <1>5
  DEF Counted, CountTypes, Stands, FreshResult, NoRedundantAttempt, Attempting

LEMMA CountedStep == ASSUME TypeOK, Guarded, Counted, [Next]_vars PROVE Counted'
<1> USE DEF Attempting
<1>1. CountTypes
  BY TypesOfCounts
<1>2. ASSUME NEW r \in Requests, Begin(r) PROVE Counted'
  <2>1. \A q \in Requests :
          /\ observed'[q] = IF q = r THEN authGeneration ELSE observed[q]
          /\ past'[q].begunAt = IF q = r THEN published ELSE past[q].begunAt
          /\ past'[q].sentAt = past[q].sentAt /\ past'[q].basis = past[q].basis
          /\ pc'[q] = IF q = r THEN "ready" ELSE pc[q]
    BY <1>1, <1>2 DEF CountTypes, Begin, GoTo
  <2>2. QED
    BY <1>1, <1>2, <2>1
    DEF Begin, Counted, CountTypes, Stands, FreshResult, NoRedundantAttempt, client
<1>3. ASSUME NEW r \in Requests, SendTarget(r) PROVE Counted'
  <2>1. \A q \in Requests :
          /\ past'[q].sentAt = IF q = r THEN published ELSE past[q].sentAt
          /\ past'[q].begunAt = past[q].begunAt /\ past'[q].basis = past[q].basis
          /\ pc'[q] = IF q = r THEN "target" ELSE pc[q]
    BY <1>1, <1>3 DEF CountTypes, SendTarget, GoTo
  <2>2. QED
    BY <1>1, <1>3, <2>1
    DEF SendTarget, Counted, CountTypes, Stands, FreshResult, NoRedundantAttempt, client
<1>4. ASSUME NEW r \in Requests, ShareResult(r) PROVE Counted'
  <2>1. PICK step \in {"retry", "done"} : pc' = [pc EXCEPT ![r] = step]
    BY <1>4 DEF ShareResult, Proceed, GoTo, Finish
  <2>2. \A q \in Requests :
          /\ past'[q].begunAt = past[q].begunAt /\ past'[q].sentAt = past[q].sentAt
          /\ past'[q].basis = IF q = r THEN attempts ELSE past[q].basis
          /\ pc'[q] = IF q = r THEN step ELSE pc[q]
    BY <1>1, <1>4, <2>1 DEF CountTypes, ShareResult
  <2>3. past[r].begunAt # attempts
    BY <1>4 DEF ShareResult, Counted, Stands
  <2>4. past[r].begunAt < attempts
    <3>1. past[r].begunAt <= published /\ published <= attempts
      BY DEF Counted
    <3>2. past[r].begunAt \in Nat /\ published \in Nat /\ attempts \in Nat
      BY <1>1 DEF CountTypes
    <3>3. QED BY <2>3, <3>1, <3>2
  <2>5. FreshResult' /\ NoRedundantAttempt'
    BY <1>1, <1>4, <2>2, <2>4 DEF ShareResult, Counted, FreshResult, NoRedundantAttempt
  <2>6. pc[r] = "lock" /\ UNCHANGED <<auth, authGeneration, observed, attempts, published>>
    BY <1>4 DEF ShareResult
  <2>7. QED
    BY <1>1, <2>1, <2>2, <2>5, <2>6 DEF Counted, CountTypes, Stands
<1>5. ASSUME NEW r \in Requests, BeginAttempt(r) PROVE Counted'
  <2>1. attempts < GenModulus => past[r].begunAt = attempts
    BY <1>1, <1>5, GenModulusAssumption DEF BeginAttempt, Counted, CountTypes, Stands
  <2>2. \A q \in Requests : pc'[q] = IF q = r THEN "challenge" ELSE pc[q]
    BY <1>1, <1>5 DEF CountTypes, BeginAttempt, GoTo
  <2>3. pc[r] = "lock"
    BY <1>5 DEF BeginAttempt
  <2>4. QED
    BY <1>1, <1>5, <2>1, <2>2, <2>3
    DEF BeginAttempt, Counted, CountTypes, Stands, FreshResult, NoRedundantAttempt, client
<1>6. ASSUME NEW r \in Requests, Publish(r) PROVE Counted'
  <2>1. PICK step \in {"retry", "done"} : pc' = [pc EXCEPT ![r] = step]
    BY <1>6 DEF Publish, Proceed, GoTo, Finish
  <2>2. \A q \in Requests : pc'[q] = IF q = r THEN step ELSE pc[q]
    BY <1>1, <2>1 DEF CountTypes
  <2>3. QED
    BY <1>1, <1>6, <2>2
    DEF Publish, Counted, CountTypes, Stands, FreshResult, NoRedundantAttempt
<1>7. ASSUME NEW r \in Requests, SendRetry(r) \/ SendLogin(r) \/ ReadBody(r) PROVE Counted'
  BY <1>7, CountedFrame DEF SendRetry, SendLogin, ReadBody, GoTo, Finish, client
<1>8. ASSUME NEW r \in Requests, Receive(r) PROVE Counted'
  <2>1. CASE ReceiveTarget(r)
    BY <2>1, CountedFrame DEF ReceiveTarget, Deliver, GoTo, Finish
  <2>2. CASE ReceiveRetry(r)
    BY <2>2, CountedFrame DEF ReceiveRetry, Deliver, GoTo, Finish, client
  <2>3. CASE ReceiveChallenge(r) /\ wire[r].status = "unauthorized"
    BY <2>3, CountedFrame DEF ReceiveChallenge, GoTo, client
  <2>4. CASE ReceiveChallenge(r) /\ wire[r].status # "unauthorized"
    BY <2>4, CountedEndAttempt DEF ReceiveChallenge
  <2>5. CASE ReceiveLogin(r)
    BY <2>5, CountedEndAttempt DEF ReceiveLogin
  <2>6. QED BY <1>8, <2>1, <2>2, <2>3, <2>4, <2>5 DEF Receive
<1>9. ASSUME NEW r \in Requests, Timeout(r) PROVE Counted'
  <2>1. CASE EndAttempt(r, "AuthTransport") /\ pc[r] \in {"challenge", "login"}
    <3>1. pc[r] \in Attempting
      BY <2>1 DEF Attempting
    <3>2. UNCHANGED observed
      BY <1>9 DEF Timeout
    <3> QED
      BY <2>1, <3>1, <3>2, CountedEndAttempt
  <2>2. CASE Finish(r, "Transport") /\ pc[r] \in {"target", "retried", "body"} /\ UNCHANGED client
    BY <1>9, <2>2, CountedFrame DEF Timeout, Finish, EndAttempt, client
  <2>3. QED BY <1>9, <2>1, <2>2 DEF Timeout
<1>10. ASSUME NEW r \in Requests, Cancel(r) PROVE Counted'
  BY <1>10, CountedFrame DEF Cancel, Finish, Awaiting
<1>11. ASSUME UNCHANGED <<auth, authGeneration, observed, attempts, published, past, pc>>
       PROVE  Counted'
  BY <1>11 DEF Counted, Stands, FreshResult, NoRedundantAttempt
<1>12. ASSUME NEW r \in Requests, Serve(r) PROVE Counted'
  BY <1>11, <1>12
  DEF Serve, ServeTarget, FailTarget, RefuseTarget, ServeChallenge, ServeLogin, RouterKeeps, client
<1>13. CASE Expire \/ UNCHANGED vars
  BY <1>11, <1>13 DEF Expire, client, vars
<1>14. QED
  BY <1>2, <1>3, <1>4, <1>5, <1>6, <1>7, <1>8, <1>9, <1>10, <1>12, <1>13
  DEF Next, Run, Rest

LEMMA CountedInvariant == Spec => []Counted
<1>1. Init => Guarded /\ Counted
  BY GenModulusAssumption
  DEF Init, Guarded, Counted, Stands, FreshResult, NoRedundantAttempt, Attempting
<1>2. TypeOK /\ Guarded /\ Counted /\ [Next]_vars => Guarded' /\ Counted'
  BY GuardedStep, CountedStep
<1>3. QED BY <1>1, <1>2, TypeCorrect, PTL DEF Spec

(* A call never takes the result of an attempt that was over when it began:  *)
(* a failed authentication is shared with those who waited for it and with   *)
(* nobody after them.  This holds at any wrap of the counter.                *)
THEOREM ResultsAreFresh == Spec => []FreshResult
<1>1. Counted => FreshResult
  BY DEF Counted
<1>2. QED BY <1>1, CountedInvariant, PTL

(* Below the wrap of the counter nobody repeats an attempt whose result it   *)
(* could have shared.                                                        *)
THEOREM AttemptsAreShared == Spec => []NoRedundantAttempt
<1>1. Counted => NoRedundantAttempt
  BY DEF Counted
<1>2. QED BY <1>1, CountedInvariant, PTL

-----------------------------------------------------------------------------
(* The client implements its promise. *)

(* Where a call stands, its exchange, and what the router has executed. *)
Settled ==
  \A r \in Requests :
    /\ applied[r] \in {0, 1}
    /\ wire[r].phase = "request" /\ wire[r].to = "target" =>
         /\ applied[r] = 0
         /\ pc[r] \in {"target", "retried", "done"}
         /\ outcome[r] \in {"pending", "Transport", "Cancelled"}
    /\ pc[r] \in {"target", "retried"} =>
         /\ wire[r].phase = "request" => wire[r].to = "target"
         /\ wire[r].phase = "reply" =>
              /\ wire[r].status = "ok" => applied[r] = 1
              /\ wire[r].status \notin {"ok", "error"} => applied[r] = 0
    /\ pc[r] \notin {"target", "retried", "body", "done"} => applied[r] = 0
    /\ pc[r] = "body" => applied[r] = 1
    /\ outcome[r] \in Promise!NeverExecuted => applied[r] = 0
    /\ pc[r] = "done" <=> outcome[r] # "pending"

(* The part of TypeOK that Settled is about. *)
CallTypes ==
  /\ pc \in [Requests -> Steps]
  /\ outcome \in [Requests -> Outcomes \cup {"pending"}]
  /\ wire \in [Requests -> Exchange]
  /\ applied \in [Requests -> Nat]

LEMMA TypesOfCalls == TypeOK => CallTypes
BY DEF TypeOK, CallTypes, Exchange

(* What a call may return at the point where it stands. *)
Justified(r, result) ==
  /\ result \in Promise!Answered => applied[r] = 1
  /\ result \in Promise!NeverExecuted =>
       applied[r] = 0 /\ ~(wire'[r].phase = "request" /\ wire'[r].to = "target")

(* A return at one await or another, seen by the abstract specification. *)
LEMMA ReturnStep ==
  ASSUME CallTypes, Settled, NEW r \in Requests, pc[r] # "done",
         NEW result \in Outcomes \ {"Panic"}, Finish(r, result), UNCHANGED applied,
         Justified(r, result)
  PROVE  Promise!Return(r)
<1>1. outcome[r] = "pending"
  BY DEF Settled
<1>2. result \in Promise!Answered \cup Promise!ErrorStatus \cup Promise!NeverExecuted
                 \cup Promise!Unknown
  BY DEF Outcomes, AuthErrors, Promise!Answered, Promise!ErrorStatus, Promise!NeverExecuted,
         Promise!Unknown
<1>3. outcome' = [outcome EXCEPT ![r] = result]
  BY DEF Finish
<1>4. QED BY <1>1, <1>2, <1>3 DEF Promise!Return, Justified

(* The same return leaves Settled true, once the exchange is accounted for. *)
LEMMA ReturnSettled ==
  ASSUME CallTypes, CallTypes', Settled, NEW r \in Requests,
         NEW result \in Outcomes, Finish(r, result), UNCHANGED applied,
         Justified(r, result),
         wire' = [wire EXCEPT ![r] = wire'[r]],
         wire'[r].phase = "quiet" \/ (wire'[r] = wire[r] /\ result \in Promise!Unknown)
           \/ wire'[r].to # "target"
  PROVE  Settled'
<1>1. \A q \in Requests :
        /\ pc'[q] = IF q = r THEN "done" ELSE pc[q]
        /\ outcome'[q] = IF q = r THEN result ELSE outcome[q]
        /\ q # r => wire'[q] = wire[q]
  BY DEF CallTypes, Finish
<1>2. result # "pending"
  BY DEF Outcomes, AuthErrors
<1>3. QED
  BY <1>1, <1>2 DEF Settled, Justified, Promise!Unknown

(* A step inside a call, its exchange with it: nothing is executed, nothing  *)
(* is returned, and the call stands where the router has not executed it.    *)
LEMMA MoveSettled ==
  ASSUME CallTypes, CallTypes', Settled, NEW r \in Requests, NEW step \in Steps \ {"done"},
         pc[r] # "done", GoTo(r, step), UNCHANGED applied,
         wire' = [wire EXCEPT ![r] = wire'[r]],
         applied[r] = IF step = "body" THEN 1 ELSE 0,
         \/ wire'[r].phase = "quiet"
         \/ wire'[r].to # "target" /\ step \notin {"target", "retried"}
         \/ /\ wire'[r].phase = "request" /\ wire'[r].to = "target"
            /\ step \in {"target", "retried"}
  PROVE  Settled' /\ UNCHANGED <<applied, outcome>>
<1>1. \A q \in Requests :
        /\ pc'[q] = IF q = r THEN step ELSE pc[q]
        /\ q # r => wire'[q] = wire[q]
  BY DEF CallTypes, GoTo
<1>2. outcome[r] = "pending" /\ UNCHANGED outcome
  BY DEF Settled, GoTo
<1>3. QED BY <1>1, <1>2 DEF Settled, Promise!NeverExecuted

LEMMA AbsorbWire ==
  ASSUME CallTypes, NEW r \in Requests, Absorb(r)
  PROVE  /\ wire' = [wire EXCEPT ![r] = wire'[r]]
         /\ wire'[r].phase = "quiet"
         /\ wire[r].phase = "reply"
BY DEF CallTypes, Absorb, Quiet

LEMMA TransmitWire ==
  ASSUME CallTypes, NEW r \in Requests, NEW to, NEW answered, Transmit(r, to, answered)
  PROVE  /\ wire' = [wire EXCEPT ![r] = wire'[r]]
         /\ wire'[r].phase = "request" /\ wire'[r].to = to
BY DEF CallTypes, Transmit

LEMMA AbandonWire ==
  ASSUME CallTypes, NEW r \in Requests, Abandon(r)
  PROVE  /\ wire' = [wire EXCEPT ![r] = wire'[r]]
         /\ wire'[r].phase = "quiet" \/ wire'[r] = wire[r]
BY DEF CallTypes, Abandon, Quiet

(* What is proved of every step. *)
Settles == Settled' /\ [Promise!Next]_<<applied, outcome>>

LEMMA ReturnSettles ==
  ASSUME CallTypes, CallTypes', Settled, NEW r \in Requests, pc[r] # "done",
         NEW result \in Outcomes \ {"Panic"}, Finish(r, result), UNCHANGED applied,
         Justified(r, result),
         wire' = [wire EXCEPT ![r] = wire'[r]],
         wire'[r].phase = "quiet" \/ (wire'[r] = wire[r] /\ result \in Promise!Unknown)
           \/ wire'[r].to # "target"
  PROVE  Settles
BY ReturnStep, ReturnSettled DEF Settles, Promise!Next

LEMMA DeliverSettles ==
  ASSUME CallTypes, CallTypes', Settled, NEW r \in Requests, pc[r] \in {"target", "retried"},
         Absorb(r), Deliver(r), UNCHANGED applied
  PROVE  Settles
<1>1. wire[r].status = "ok" => applied[r] = 1
  BY AbsorbWire DEF Settled
<1>2. CASE wire[r].status = "ok" /\ GoTo(r, "body")
  BY <1>1, <1>2, AbsorbWire, MoveSettled DEF Settles, Steps, Awaiting
<1>3. CASE Finish(r, "Http")
  <2>1. Justified(r, "Http")
    BY DEF Justified, Promise!Answered, Promise!NeverExecuted
  <2>2. QED BY <1>3, <2>1, AbsorbWire, ReturnSettles DEF Outcomes
<1>4. QED BY <1>2, <1>3 DEF Deliver

(* The result of an attempt, handed on to the call. *)
LEMMA ProceedSettles ==
  ASSUME TypeOK, CallTypes', Settled, NEW r \in Requests, pc[r] \in {"lock", "publish"},
         auth.lastResult # NoResult, Proceed(r, auth.lastResult),
         UNCHANGED <<wire, applied>>
  PROVE  Settles
<1>1. CallTypes /\ wire' = [wire EXCEPT ![r] = wire'[r]]
  BY TypesOfCalls DEF CallTypes
<1>2. applied[r] = 0 /\ ~(wire[r].phase = "request" /\ wire[r].to = "target")
  BY DEF Settled
<1>3. CASE GoTo(r, "retry")
  <2>1. \A q \in Requests : pc'[q] = IF q = r THEN "retry" ELSE pc[q]
    BY <1>1, <1>3 DEF CallTypes, GoTo
  <2>2. QED BY <1>2, <1>3, <2>1 DEF Settles, Settled, GoTo
<1>4. CASE Finish(r, auth.lastResult) /\ auth.lastResult \in AuthErrors
  <2>1. Justified(r, auth.lastResult)
    BY <1>2, <1>4 DEF Justified, AuthErrors, Promise!Answered
  <2>2. Promise!Return(r)
    BY <1>1, <1>4, <2>1, ReturnStep DEF Outcomes, AuthErrors
  <2>3. \A q \in Requests :
          /\ pc'[q] = IF q = r THEN "done" ELSE pc[q]
          /\ outcome'[q] = IF q = r THEN auth.lastResult ELSE outcome[q]
    BY <1>1, <1>4 DEF CallTypes, Finish
  <2>4. auth.lastResult # "pending"
    BY <1>4 DEF AuthErrors
  <2>5. Settled'
    BY <1>2, <2>3, <2>4 DEF Settled
  <2>6. QED BY <2>2, <2>5 DEF Settles, Promise!Next
<1>5. QED BY <1>3, <1>4 DEF Proceed, TypeOK, AuthResults

LEMMA EndAttemptSettles ==
  ASSUME CallTypes, CallTypes', Settled, NEW r \in Requests, NEW result,
         pc[r] \in {"challenge", "login"}, EndAttempt(r, result), UNCHANGED applied,
         wire' = [wire EXCEPT ![r] = wire'[r]],
         wire'[r].phase = "quiet" \/ wire'[r] = wire[r]
  PROVE  Settles
<1>1. GoTo(r, "publish")
  BY DEF EndAttempt
<1>2. \A q \in Requests :
        /\ pc'[q] = IF q = r THEN "publish" ELSE pc[q]
        /\ q # r => wire'[q] = wire[q]
  BY <1>1 DEF CallTypes, GoTo
<1>3. QED BY <1>1, <1>2 DEF Settles, Settled, GoTo

LEMMA RunSettles ==
  ASSUME TypeOK, CallTypes', Retained, Settled, NEW r \in Requests, Run(r)
  PROVE  Settles
<1> USE TypesOfCalls DEF Steps, Attempting, Awaiting
<1>1. CASE SendTarget(r) \/ SendRetry(r)
  <2>1. applied[r] = 0 /\ pc[r] # "done"
    BY <1>1 DEF SendTarget, SendRetry, Settled
  <2>2. QED BY <1>1, <2>1, TransmitWire, MoveSettled DEF SendTarget, SendRetry, Settles
<1>2. CASE BeginAttempt(r) \/ SendLogin(r)
  <2>1. applied[r] = 0 /\ pc[r] # "done"
    BY <1>2 DEF BeginAttempt, SendLogin, Settled
  <2>2. QED BY <1>2, <2>1, TransmitWire, MoveSettled DEF BeginAttempt, SendLogin, Settles
<1>3. CASE ReadBody(r)
  <2>1. applied[r] = 1 /\ ~(wire[r].phase = "request" /\ wire[r].to = "target")
    BY <1>3 DEF ReadBody, Settled
  <2>2. PICK result \in {"Success", "Decode"} : Finish(r, result)
    BY <1>3 DEF ReadBody
  <2>3. Justified(r, result) /\ CallTypes
    BY <2>1 DEF Justified, Promise!NeverExecuted
  <2>4. Promise!Return(r)
    BY <1>3, <2>2, <2>3, ReturnStep DEF ReadBody, Outcomes
  <2>5. \A q \in Requests :
          /\ pc'[q] = IF q = r THEN "done" ELSE pc[q]
          /\ outcome'[q] = IF q = r THEN result ELSE outcome[q]
    BY <2>2, <2>3 DEF CallTypes, Finish
  <2>6. Settled'
    BY <1>3, <2>1, <2>5 DEF ReadBody, Settled, Promise!NeverExecuted
  <2>7. QED BY <2>4, <2>6 DEF Settles, Promise!Next
<1>4. CASE ShareResult(r)
  BY <1>4, ProceedSettles DEF ShareResult, Retained
<1>5. CASE Publish(r)
  BY <1>5, ProceedSettles DEF Publish, Retained
<1>6. QED BY <1>1, <1>2, <1>3, <1>4, <1>5 DEF Run

LEMMA ReceiveSettles ==
  ASSUME CallTypes, CallTypes', Settled, NEW r \in Requests, Receive(r)
  PROVE  Settles
<1> USE AbsorbWire DEF Steps, Attempting, Awaiting
<1>1. CASE ReceiveTarget(r)
  <2>1. CASE Deliver(r)
    BY <1>1, <2>1, DeliverSettles DEF ReceiveTarget
  <2>2. CASE wire[r].status = "unauthorized"
    <3>1. applied[r] = 0 /\ pc[r] = "target" /\ wire'[r].phase = "quiet"
      BY <1>1, <2>2 DEF ReceiveTarget, Settled
    <3>2. CASE Finish(r, "Required")
      <4>1. Justified(r, "Required")
        BY <3>1 DEF Justified, Promise!Answered
      <4>2. QED BY <1>1, <3>1, <3>2, <4>1, ReturnSettles DEF ReceiveTarget, Outcomes
    <3>3. CASE GoTo(r, "lock")
      BY <1>1, <3>1, <3>3, MoveSettled DEF ReceiveTarget, Settles
    <3>4. QED BY <1>1, <2>2, <3>2, <3>3 DEF ReceiveTarget, Deliver
  <2>3. QED BY <1>1, <2>1, <2>2 DEF ReceiveTarget
<1>2. CASE ReceiveRetry(r)
  <2>1. CASE Deliver(r)
    BY <1>2, <2>1, DeliverSettles DEF ReceiveRetry
  <2>2. CASE wire[r].status = "unauthorized" /\ Finish(r, "UnauthorizedAfterAuthentication")
    <3>1. applied[r] = 0 /\ pc[r] = "retried" /\ wire'[r].phase = "quiet"
      BY <1>2, <2>2 DEF ReceiveRetry, Settled
    <3>2. Justified(r, "UnauthorizedAfterAuthentication")
      BY <3>1 DEF Justified, Promise!Answered
    <3>3. QED BY <1>2, <2>2, <3>1, <3>2, ReturnSettles DEF ReceiveRetry, Outcomes
  <2>3. QED BY <1>2, <2>1, <2>2 DEF ReceiveRetry
<1>3. CASE ReceiveChallenge(r) /\ wire[r].status = "unauthorized"
  <2>1. applied[r] = 0 /\ pc[r] = "challenge" /\ wire'[r].phase = "quiet"
    BY <1>3 DEF ReceiveChallenge, Settled
  <2>2. QED BY <1>3, <2>1, MoveSettled DEF ReceiveChallenge, Settles
<1>4. CASE ReceiveChallenge(r) /\ wire[r].status # "unauthorized"
  BY <1>4, EndAttemptSettles DEF ReceiveChallenge
<1>5. CASE ReceiveLogin(r)
  BY <1>5, EndAttemptSettles DEF ReceiveLogin
<1>6. QED BY <1>1, <1>2, <1>3, <1>4, <1>5 DEF Receive

LEMMA FailureSettles ==
  ASSUME CallTypes, CallTypes', Settled, NEW r \in Requests, Timeout(r) \/ Cancel(r)
  PROVE  Settles
<1>1. Abandon(r) /\ UNCHANGED applied
  BY DEF Timeout, Cancel
<1>2. CASE Timeout(r) /\ EndAttempt(r, "AuthTransport") /\ pc[r] \in {"challenge", "login"}
  BY <1>1, <1>2, AbandonWire, EndAttemptSettles
<1>3. ASSUME NEW result \in {"Transport", "Cancelled"}, Finish(r, result), pc[r] \in Awaiting
      PROVE  Settles
  <2>1. Justified(r, result) /\ result \in Promise!Unknown /\ pc[r] # "done"
    BY <1>3 DEF Justified, Awaiting, Promise!Answered, Promise!NeverExecuted, Promise!Unknown
  <2>2. QED BY <1>1, <1>3, <2>1, AbandonWire, ReturnSettles DEF Outcomes
<1>4. QED BY <1>2, <1>3 DEF Timeout, Cancel, Awaiting

LEMMA ServeSettles ==
  ASSUME CallTypes, CallTypes', Settled, NEW r \in Requests, Serve(r)
  PROVE  Settles
<1>1. wire[r].phase = "request" /\ UNCHANGED <<pc, outcome>>
  BY DEF Serve, ServeTarget, FailTarget, RefuseTarget, ServeChallenge, ServeLogin, RouterKeeps
<1>2. ASSUME wire[r].to = "target", applied' = [applied EXCEPT ![r] = @ + 1],
             NEW status \in {"ok", "error"}, Reply(r, status, NoCookie, NoCookie)
      PROVE  Settles
  <2>1. applied[r] = 0 /\ outcome[r] \in {"pending", "Transport", "Cancelled"}
    BY <1>1, <1>2 DEF Settled
  <2>2. \A q \in Requests : applied'[q] = IF q = r THEN 1 ELSE applied[q]
    BY <1>2, <2>1 DEF CallTypes
  <2>3. Promise!Execute(r)
    <3>1. applied' = [applied EXCEPT ![r] = 1]
      BY <1>2, <2>1
    <3>2. QED BY <1>1, <2>1, <3>1 DEF Promise!Execute, Promise!Unknown
  <2>4. /\ \A q \in Requests \ {r} : wire'[q] = wire[q]
        /\ IF pc[r] \in Listening
           THEN wire'[r].phase = "reply" /\ wire'[r].status \in {"ok", "error"}
           ELSE wire'[r].phase = "quiet"
    BY <1>2 DEF Reply, CallTypes, Quiet
  <2>5. pc[r] \in {"target", "retried", "done"}
    BY <1>1, <1>2 DEF Settled
  <2>6. Settled'
    BY <1>1, <2>1, <2>2, <2>4, <2>5
    DEF Settled, Listening, Promise!NeverExecuted
  <2>7. QED BY <2>3, <2>6 DEF Settles, Promise!Next
<1>3. ASSUME UNCHANGED applied,
             \E status, cookie, chal :
               Reply(r, status, cookie, chal)
                 /\ (wire[r].to = "target" => status \in {"unauthorized", "error"})
      PROVE  Settles
  <2>1. PICK status, cookie, chal :
               Reply(r, status, cookie, chal)
                 /\ (wire[r].to = "target" => status \in {"unauthorized", "error"})
    BY <1>3
  <2>2. /\ \A q \in Requests \ {r} : wire'[q] = wire[q]
        /\ \/ wire'[r].phase = "reply" /\ wire'[r].status = status
           \/ wire'[r].phase = "quiet"
    BY <2>1 DEF Reply, CallTypes, Quiet
  <2>3. pc[r] \in {"target", "retried"} =>
          wire[r].to = "target" /\ status # "ok" /\ applied[r] = 0
    BY <1>1, <2>1 DEF Settled
  <2>4. Settled'
    BY <1>1, <1>3, <2>2, <2>3 DEF Settled
  <2>5. QED BY <1>1, <1>3, <2>4 DEF Settles
<1>4. CASE RefuseTarget(r)
  BY <1>3, <1>4 DEF RefuseTarget
<1>5. CASE ServeChallenge(r)
  BY <1>3, <1>5 DEF ServeChallenge
<1>6. CASE ServeLogin(r)
  BY <1>3, <1>6 DEF ServeLogin
<1>7. CASE ServeTarget(r)
  BY <1>2, <1>7 DEF ServeTarget
<1>8. CASE FailTarget(r)
  BY <1>2, <1>3, <1>8 DEF FailTarget
<1>9. QED BY <1>4, <1>5, <1>6, <1>7, <1>8 DEF Serve

LEMMA StepSettles ==
  ASSUME TypeOK, TypeOK', Retained, Settled, [Next]_vars
  PROVE  Settles
<1>1. CallTypes /\ CallTypes'
  BY TypesOfCalls DEF TypeOK, CallTypes, Exchange
<1>2. ASSUME NEW r \in Requests, Begin(r) PROVE Settles
  <2>1. applied[r] = 0 /\ outcome[r] = "pending" /\ UNCHANGED <<wire, applied, outcome>>
    BY <1>2 DEF Begin, Settled, GoTo
  <2>2. \A q \in Requests : pc'[q] = IF q = r THEN "ready" ELSE pc[q]
    BY <1>1, <1>2 DEF Begin, GoTo, CallTypes
  <2>3. pc[r] = "idle"
    BY <1>2 DEF Begin
  <2>4. QED BY <2>1, <2>2, <2>3 DEF Settles, Settled
<1>3. CASE Expire \/ UNCHANGED vars
  BY <1>3 DEF Expire, vars, Settles, Settled
<1>4. QED
  BY <1>1, <1>2, <1>3, RunSettles, ReceiveSettles, FailureSettles, ServeSettles
  DEF Next, Rest

(* The router executes an operation at most once.  A success status means    *)
(* that it did, a failed authentication that it never will; after an error   *)
(* status it may have, but no longer will, and only a transport error or a   *)
(* dropped future leave even that open.                                      *)
THEOREM PromiseKept == Spec => KeepsPromise
<1>1. Init => Retained /\ Settled /\ Promise!Init
  BY DEF Init, Retained, NoPanic, Settled, Promise!Init, Promise!NeverExecuted, Quiet, NoCookie
<1>2. TypeOK /\ TypeOK' /\ Retained /\ Settled /\ [Next]_vars => Retained' /\ Settles
  BY RetainedStep, StepSettles
<1>3. Settles => Settled' /\ [Promise!Next]_<<applied, outcome>>
  BY DEF Settles
<1>4. QED
  BY <1>1, <1>2, <1>3, TypeCorrect, PTL DEF Spec, KeepsPromise, Promise!Spec

-----------------------------------------------------------------------------
(* What the tasks of a client share besides the result of the last attempt   *)
(* is in order for any number of tasks, whichever of them time out or are    *)
(* dropped, and wherever: the mutex of authenticate(), which is held or      *)
(* awaited by the tasks inside it and by no others, and the session in the   *)
(* cookie jar, which they present to the router.                             *)

(* The mutex is exact.  The invariant adds to the property that no task is   *)
(* queued twice: were one, dropping its future would leave a dead entry to   *)
(* hand the lock to.                                                         *)

Inside(r) == pc[r] \in Attempting \cup {"lock", "publish"}
Queued(r) == \E i \in 1..Len(waiters) : waiters[i] = r

Exact ==
  /\ \A r \in Requests : Inside(r) <=> r = holder \/ Queued(r)
  /\ holder = NoRequest => waiters = <<>>
  /\ \A i \in 1..Len(waiters) : waiters[i] # holder /\ pc[waiters[i]] = "lock"
  /\ \A i, j \in 1..Len(waiters) : waiters[i] = waiters[j] => i = j

(* What the operations on the queue leave where. *)
LEMMA TailOf ==
  ASSUME NEW q \in Seq(Requests), q # <<>>
  PROVE  /\ Head(q) = q[1] /\ Len(q) \in Nat /\ Len(q) > 0
         /\ Len(Tail(q)) = Len(q) - 1
         /\ \A i \in 1..Len(q) - 1 : Tail(q)[i] = q[i + 1]
  OBVIOUS

LEMMA AppendOf ==
  ASSUME NEW q \in Seq(Requests), NEW r \in Requests
  PROVE  /\ Len(q) \in Nat /\ Len(Append(q, r)) = Len(q) + 1
         /\ Append(q, r)[Len(q) + 1] = r
         /\ \A i \in 1..Len(q) : Append(q, r)[i] = q[i]
  OBVIOUS

LEMMA RemovalOf ==
  ASSUME NEW q \in Seq(Requests), NEW k \in 1..Len(q), NEW u,
         u = SubSeq(q, 1, k - 1) \o SubSeq(q, k + 1, Len(q))
  PROVE  /\ Len(q) \in Nat /\ Len(u) = Len(q) - 1
         /\ \A i \in 1..Len(q) - 1 : u[i] = IF i < k THEN q[i] ELSE q[i + 1]
<1>0. Len(q) \in Nat /\ k \in Nat /\ \A j \in 1..Len(q) : q[j] \in Requests
  OBVIOUS
<1>1. PICK a : a = SubSeq(q, 1, k - 1)
  OBVIOUS
<1>2. PICK b : b = SubSeq(q, k + 1, Len(q))
  OBVIOUS
<1>3. a \in Seq(Requests) /\ Len(a) = k - 1 /\ \A i \in 1..k - 1 : a[i] = q[i]
  BY <1>0, <1>1, SubSeqProperties
<1>4. b \in Seq(Requests) /\ Len(b) = Len(q) - k /\ \A i \in 1..Len(q) - k : b[i] = q[k + i]
  BY <1>0, <1>2, SubSeqProperties
<1>5. u = a \o b
  BY <1>1, <1>2
<1>6. /\ Len(u) = Len(a) + Len(b)
      /\ \A i \in 1..Len(a) + Len(b) : u[i] = IF i <= Len(a) THEN a[i] ELSE b[i - Len(a)]
  BY ONLY <1>3, <1>4, <1>5, ConcatProperties
<1>7. Len(u) = Len(q) - 1
  BY ONLY <1>0, <1>3, <1>4, <1>6
<1>8. ASSUME NEW i \in 1..Len(q) - 1
      PROVE  u[i] = IF i < k THEN q[i] ELSE q[i + 1]
  <2>1. i \in 1..Len(a) + Len(b) /\ (i <= Len(a) <=> i < k)
    BY ONLY <1>0, <1>3, <1>4, i \in 1..Len(q) - 1
  <2>2. CASE i < k
    BY ONLY <1>0, <1>3, <1>6, <2>1, <2>2, i \in 1..Len(q) - 1
  <2>3. CASE ~(i < k)
    <3>1. i - Len(a) \in 1..Len(q) - k /\ k + (i - Len(a)) = i + 1
      BY ONLY <1>0, <1>3, <2>3, i \in 1..Len(q) - 1
    <3>2. u[i] = b[i - Len(a)]
      BY <1>6, <2>1, <2>3
    <3> QED
      BY <1>4, <2>3, <3>1, <3>2
  <2> QED
    BY <2>2, <2>3
<1> QED
  BY <1>0, <1>7, <1>8

(* A task moves and lets the mutex be. *)
LEMMA MovePast ==
  ASSUME TypeOK, Exact, NEW r \in Requests, NEW step, pc' = [pc EXCEPT ![r] = step],
         UNCHANGED mutex,
         step \in Attempting \cup {"lock", "publish"} <=> Inside(r),
         pc[r] = "lock" => holder = r
  PROVE  Exact'
<1>1. pc \in [Requests -> Steps] /\ holder' = holder /\ waiters' = waiters
  BY DEF TypeOK, mutex
<1>2. \A q \in Requests : pc'[q] = IF q = r THEN step ELSE pc[q]
  BY <1>1
<1>3. \A q \in Requests : Inside(q)' <=> Inside(q)
  BY <1>2 DEF Inside
<1>4. \A i \in 1..Len(waiters) : waiters[i] # r
  BY DEF Exact, Inside
<1>5. \A i \in 1..Len(waiters) : waiters[i] \in Requests
  BY DEF TypeOK
<1> QED
  BY <1>1, <1>2, <1>3, <1>4, <1>5 DEF Exact, Queued

(* A task outside comes in. *)
LEMMA AcquireExact ==
  ASSUME TypeOK, Exact, NEW r \in Requests, ~Inside(r), Acquire(r), pc' = [pc EXCEPT ![r] = "lock"]
  PROVE  Exact'
<1>1. /\ pc \in [Requests -> Steps] /\ waiters \in Seq(Requests)
      /\ \A q \in Requests : pc'[q] = IF q = r THEN "lock" ELSE pc[q]
  BY DEF TypeOK
<1>2. \A q \in Requests : Inside(q)' <=> q = r \/ Inside(q)
  BY <1>1 DEF Inside
<1>3. r # holder /\ ~Queued(r) /\ r # NoRequest
  BY RequestsAssumption DEF Exact
<1>4. CASE holder = NoRequest
  <2>1. holder' = r /\ waiters' = waiters /\ waiters = <<>>
    BY <1>4 DEF Acquire, Exact
  <2>2. Len(waiters) = 0
    BY <2>1
  <2>3. \A q \in Requests : Inside(q) <=> q = holder \/ Queued(q)
    BY DEF Exact
  <2>4. \A q \in Requests : ~Queued(q) /\ ~Queued(q)' /\ q # holder
    BY <1>4, <2>1, <2>2, RequestsAssumption DEF Queued
  <2> QED
    BY <1>2, <1>3, <2>1, <2>2, <2>3, <2>4 DEF Exact
<1>5. CASE holder # NoRequest
  <2>1. waiters' = Append(waiters, r) /\ holder' = holder
    BY <1>5 DEF Acquire
  <2>2. /\ Len(waiters) \in Nat /\ Len(waiters') = Len(waiters) + 1
        /\ waiters'[Len(waiters) + 1] = r
        /\ \A i \in 1..Len(waiters) : waiters'[i] = waiters[i]
    BY <1>1, <2>1, AppendOf
  <2>3. \A i \in 1..Len(waiters') : i \in 1..Len(waiters) \/ i = Len(waiters) + 1
    BY <2>2
  <2>4. \A q \in Requests : Queued(q)' <=> q = r \/ Queued(q)
    BY <2>2, <2>3 DEF Queued
  <2>5. \A i \in 1..Len(waiters) : waiters[i] \in Requests /\ waiters[i] # r
    BY <1>1, <1>3 DEF Queued
  <2>6. \A q \in Requests : Inside(q)' <=> q = holder' \/ Queued(q)'
    BY <1>2, <2>1, <2>4 DEF Exact
  <2>7. \A i \in 1..Len(waiters') : waiters'[i] # holder' /\ pc'[waiters'[i]] = "lock"
    BY <1>1, <1>3, <2>1, <2>2, <2>3, <2>5 DEF Exact
  <2>8. \A i, j \in 1..Len(waiters') : waiters'[i] = waiters'[j] => i = j
    BY <2>2, <2>3, <2>5 DEF Exact
  <2> QED
    BY <1>5, <2>1, <2>6, <2>7, <2>8 DEF Exact
<1> QED
  BY <1>4, <1>5

(* The holder goes out, and the first of the queue is the holder. *)
LEMMA ReleaseExact ==
  ASSUME TypeOK, Exact, NEW r \in Requests, holder = r, Release, NEW step,
         pc' = [pc EXCEPT ![r] = step], step \notin Attempting \cup {"lock", "publish"}
  PROVE  Exact'
<1>1. /\ pc \in [Requests -> Steps] /\ waiters \in Seq(Requests)
      /\ \A q \in Requests : pc'[q] = IF q = r THEN step ELSE pc[q]
  BY DEF TypeOK
<1>2. \A q \in Requests : Inside(q)' <=> q # r /\ Inside(q)
  BY <1>1 DEF Inside
<1>3. \A i \in 1..Len(waiters) : waiters[i] \in Requests /\ waiters[i] # r
  BY <1>1 DEF Exact
<1>4. CASE waiters = <<>>
  <2>1. holder' = NoRequest /\ waiters' = waiters /\ Len(waiters) = 0
    BY <1>4 DEF Release
  <2>2. \A q \in Requests : ~Queued(q) /\ ~Queued(q)'
    BY <2>1 DEF Queued
  <2>3. \A q \in Requests : Inside(q)' <=> q = holder' \/ Queued(q)'
    BY <1>2, <2>1, <2>2, RequestsAssumption DEF Exact
  <2> QED
    BY <1>4, <2>1, <2>3 DEF Exact
<1>5. CASE waiters # <<>>
  <2>1. /\ holder' = waiters[1] /\ Len(waiters) \in Nat /\ Len(waiters) > 0
        /\ Len(waiters') = Len(waiters) - 1
        /\ \A i \in 1..Len(waiters) - 1 : waiters'[i] = waiters[i + 1]
    <3>1. holder' = Head(waiters) /\ waiters' = Tail(waiters)
      BY <1>5 DEF Release
    <3> QED
      BY <1>1, <1>5, <3>1, TailOf
  <2>2. \A q \in Requests : Queued(q) <=> q = waiters[1] \/ Queued(q)'
    <3>1. \A i \in 1..Len(waiters) : i = 1 \/ i - 1 \in 1..Len(waiters) - 1
      BY <2>1
    <3>2. \A i \in 1..Len(waiters) - 1 : i + 1 \in 1..Len(waiters)
      BY <2>1
    <3>3. 1 \in 1..Len(waiters)
      BY <2>1
    <3>4. \A i \in 1..Len(waiters) : i # 1 => waiters'[i - 1] = waiters[i]
      BY <2>1
    <3> QED
      BY <2>1, <3>1, <3>2, <3>3, <3>4 DEF Queued
  <2>3. \A q \in Requests : Inside(q)' <=> q = holder' \/ Queued(q)'
    <3>1. \A q \in Requests : Inside(q) <=> q = r \/ q = waiters[1] \/ Queued(q)'
      BY <2>2 DEF Exact
    <3>2. waiters[1] # r
      BY <1>3, <2>1
    <3>3. ~Queued(r)'
      BY <1>3, <2>2 DEF Queued
    <3> QED
      BY <1>2, <2>1, <3>1, <3>2, <3>3
  <2>4. \A i \in 1..Len(waiters') : waiters'[i] # holder' /\ pc'[waiters'[i]] = "lock"
    <3> SUFFICES ASSUME NEW i \in 1..Len(waiters')
                 PROVE  waiters'[i] # holder' /\ pc'[waiters'[i]] = "lock"
      OBVIOUS
    <3>1. i + 1 \in 1..Len(waiters) /\ i + 1 # 1 /\ waiters'[i] = waiters[i + 1]
      BY <2>1
    <3>2. waiters[i + 1] # waiters[1] /\ pc[waiters[i + 1]] = "lock"
      BY <2>1, <3>1 DEF Exact
    <3> QED
      BY <1>1, <1>3, <2>1, <3>1, <3>2
  <2>5. \A i, j \in 1..Len(waiters') : waiters'[i] = waiters'[j] => i = j
    <3> SUFFICES ASSUME NEW i \in 1..Len(waiters'), NEW j \in 1..Len(waiters'),
                        waiters'[i] = waiters'[j]
                 PROVE  i = j
      OBVIOUS
    <3>1. /\ i + 1 \in 1..Len(waiters) /\ j + 1 \in 1..Len(waiters)
          /\ waiters[i + 1] = waiters[j + 1]
      BY <2>1
    <3>2. i + 1 = j + 1
      BY <3>1 DEF Exact
    <3> QED
      BY <3>2
  <2>6. holder' # NoRequest
    BY <1>3, <2>1, RequestsAssumption
  <2> QED
    BY <2>3, <2>4, <2>5, <2>6 DEF Exact
<1> QED
  BY <1>4, <1>5

(* A queued task leaves the queue from wherever it stands. *)
LEMMA RemovalExact ==
  ASSUME TypeOK, Exact, NEW r \in Requests, NEW k \in 1..Len(waiters), waiters[k] = r,
         waiters' = SubSeq(waiters, 1, k - 1) \o SubSeq(waiters, k + 1, Len(waiters)),
         holder' = holder, pc' = [pc EXCEPT ![r] = "done"]
  PROVE  Exact'
<1>1. /\ pc \in [Requests -> Steps] /\ waiters \in Seq(Requests)
      /\ \A q \in Requests : pc'[q] = IF q = r THEN "done" ELSE pc[q]
  BY DEF TypeOK
<1>2. \A q \in Requests : Inside(q)' <=> q # r /\ Inside(q)
  BY <1>1 DEF Inside, Attempting
<1>3. /\ Len(waiters) \in Nat /\ Len(waiters') = Len(waiters) - 1
      /\ \A i \in 1..Len(waiters) - 1 :
           waiters'[i] = IF i < k THEN waiters[i] ELSE waiters[i + 1]
  BY ONLY <1>1, k \in 1..Len(waiters), RemovalOf,
     waiters' = SubSeq(waiters, 1, k - 1) \o SubSeq(waiters, k + 1, Len(waiters))
<1>0. k \in 1..Len(waiters)
  OBVIOUS
<1> DEFINE From(i) == IF i < k THEN i ELSE i + 1
<1>4. \A i \in 1..Len(waiters') :
        /\ From(i) \in 1..Len(waiters) \ {k} /\ waiters'[i] = waiters[From(i)]
  BY ONLY <1>0, <1>3
<1>5. \A i, j \in 1..Len(waiters') : From(i) = From(j) => i = j
  BY ONLY <1>0, <1>3
<1>6. \A i \in 1..Len(waiters) \ {k} :
        \E j \in 1..Len(waiters') : From(j) = i
  <2> SUFFICES ASSUME NEW i \in 1..Len(waiters) \ {k}
               PROVE  \E j \in 1..Len(waiters') : From(j) = i
    OBVIOUS
  <2>1. CASE i < k
    BY ONLY <1>0, <1>3, <2>1, i \in 1..Len(waiters) \ {k}
  <2>2. CASE i > k
    <3>1. i - 1 \in 1..Len(waiters') /\ From(i - 1) = i
      BY ONLY <1>0, <1>3, <2>2, i \in 1..Len(waiters) \ {k}
    <3> QED
      BY <3>1
  <2> QED
    BY ONLY <1>0, <1>3, <2>1, <2>2, i \in 1..Len(waiters) \ {k}
<1> HIDE DEF From
<1>7. \A i \in 1..Len(waiters) : waiters[i] \in Requests /\ (i # k => waiters[i] # r)
  BY <1>1 DEF Exact
<1>8. \A q \in Requests : Queued(q)' <=> q # r /\ Queued(q)
  <2> SUFFICES ASSUME NEW q \in Requests PROVE Queued(q)' <=> q # r /\ Queued(q)
    OBVIOUS
  <2>1. ASSUME Queued(q)' PROVE q # r /\ Queued(q)
    <3>1. PICK i \in 1..Len(waiters') : waiters'[i] = q
      BY <2>1 DEF Queued
    <3>2. From(i) \in 1..Len(waiters) /\ From(i) # k /\ waiters[From(i)] = q
      BY <1>4, <3>1
    <3> QED
      BY <1>7, <3>2 DEF Queued
  <2>2. ASSUME q # r, Queued(q) PROVE Queued(q)'
    <3>1. PICK i \in 1..Len(waiters) : waiters[i] = q
      BY <2>2 DEF Queued
    <3>2. i # k
      BY <2>2, <3>1
    <3>3. PICK j \in 1..Len(waiters') : From(j) = i
      BY <1>6, <3>2
    <3>4. waiters'[j] = q
      BY <1>4, <3>1, <3>3
    <3> QED
      BY <3>4 DEF Queued
  <2> QED
    BY <2>1, <2>2
<1>9. \A q \in Requests : Inside(q)' <=> q = holder' \/ Queued(q)'
  <2>1. r # holder
    BY DEF Exact
  <2> QED
    BY <1>2, <1>8, <2>1 DEF Exact
<1>10. \A i \in 1..Len(waiters') : waiters'[i] # holder' /\ pc'[waiters'[i]] = "lock"
  <2> SUFFICES ASSUME NEW i \in 1..Len(waiters')
               PROVE  waiters'[i] # holder' /\ pc'[waiters'[i]] = "lock"
    OBVIOUS
  <2>1. PICK j \in 1..Len(waiters) : j # k /\ waiters'[i] = waiters[j]
    BY <1>4
  <2>2. waiters[j] # holder /\ pc[waiters[j]] = "lock" /\ waiters[j] # r /\ waiters[j] \in Requests
    BY <1>7, <2>1 DEF Exact
  <2>3. pc'[waiters[j]] = "lock"
    BY <1>1, <2>2
  <2> QED
    BY <2>1, <2>2, <2>3
<1>11. \A i, j \in 1..Len(waiters') : waiters'[i] = waiters'[j] => i = j
  <2> SUFFICES ASSUME NEW i \in 1..Len(waiters'), NEW j \in 1..Len(waiters'),
                      waiters'[i] = waiters'[j]
               PROVE  i = j
    OBVIOUS
  <2>1. /\ From(i) \in 1..Len(waiters) /\ From(j) \in 1..Len(waiters)
        /\ waiters[From(i)] = waiters[From(j)]
    BY <1>4
  <2>2. From(i) = From(j)
    BY <2>1 DEF Exact
  <2> QED
    BY <1>5, <2>2
<1>12. holder' # NoRequest
  BY <1>3 DEF Exact
<1> QED
  BY <1>9, <1>10, <1>11, <1>12 DEF Exact

(* A step outside authenticate(), or of a task that keeps its place there *)
LEMMA StayExact ==
  ASSUME TypeOK, Exact, UNCHANGED <<holder, waiters, pc>>
  PROVE  Exact'
  BY DEF Exact, Inside, Queued

LEMMA ProceedExact ==
  ASSUME TypeOK, Exact, NEW r \in Requests, holder = r, Release, Proceed(r, auth.lastResult)
  PROVE  Exact'
<1>1. PICK step \in {"retry", "done"} : pc' = [pc EXCEPT ![r] = step]
  BY DEF Proceed, GoTo, Finish
<1> QED
  BY <1>1, ReleaseExact DEF Attempting

LEMMA RunExact == ASSUME TypeOK, Guarded, Exact, NEW r \in Requests, Run(r) PROVE Exact'
<1> USE DEF Inside, Attempting
<1>1. CASE SendTarget(r)
  BY <1>1, MovePast DEF SendTarget, GoTo, client, mutex
<1>2. CASE SendRetry(r)
  BY <1>2, MovePast DEF SendRetry, GoTo, client, mutex
<1>3. CASE ReadBody(r)
  BY <1>3, MovePast DEF ReadBody, Finish, client, mutex
<1>4. CASE BeginAttempt(r)
  BY <1>4, MovePast DEF BeginAttempt, GoTo, client, mutex
<1>5. CASE SendLogin(r)
  BY <1>5, MovePast DEF SendLogin, GoTo, client, mutex
<1>6. CASE ShareResult(r)
  BY <1>6, ProceedExact DEF ShareResult
<1>7. CASE Publish(r)
  BY <1>7, ProceedExact DEF Publish, Guarded
<1> QED
  BY <1>1, <1>2, <1>3, <1>4, <1>5, <1>6, <1>7 DEF Run

LEMMA ReceiveExact == ASSUME TypeOK, Exact, NEW r \in Requests, Receive(r) PROVE Exact'
<1> USE DEF Inside, Attempting
<1>1. CASE ReceiveTarget(r)
  <2>1. ASSUME UNCHANGED mutex, Deliver(r) \/ Finish(r, "Required") PROVE Exact'
    <3>1. PICK step \in {"body", "done"} : pc' = [pc EXCEPT ![r] = step]
      BY <2>1 DEF Deliver, GoTo, Finish
    <3> QED
      BY <1>1, <2>1, <3>1, MovePast DEF ReceiveTarget
  <2>2. ASSUME Acquire(r), GoTo(r, "lock") PROVE Exact'
    BY <1>1, <2>2, AcquireExact DEF ReceiveTarget, GoTo
  <2> QED
    BY <1>1, <2>1, <2>2 DEF ReceiveTarget
<1>2. CASE ReceiveRetry(r)
  <2>1. PICK step \in {"body", "done"} : pc' = [pc EXCEPT ![r] = step]
    BY <1>2 DEF ReceiveRetry, Deliver, GoTo, Finish
  <2> QED
    BY <1>2, <2>1, MovePast DEF ReceiveRetry, client, mutex
<1>3. CASE ReceiveChallenge(r)
  <2>1. PICK step \in {"answer", "publish"} : pc' = [pc EXCEPT ![r] = step]
    BY <1>3 DEF ReceiveChallenge, EndAttempt, GoTo
  <2> QED
    BY <1>3, <2>1, MovePast DEF ReceiveChallenge, EndAttempt, client, mutex
<1>4. CASE ReceiveLogin(r)
  BY <1>4, MovePast DEF ReceiveLogin, EndAttempt, GoTo
<1> QED
  BY <1>1, <1>2, <1>3, <1>4 DEF Receive

LEMMA FailureExact ==
  ASSUME TypeOK, Exact, NEW r \in Requests, Timeout(r) \/ Cancel(r)
  PROVE  Exact'
<1> USE DEF Inside, Attempting
<1>1. CASE Timeout(r)
  <2>1. CASE pc[r] \in {"target", "retried", "body"} /\ Finish(r, "Transport") /\ UNCHANGED client
    BY <2>1, MovePast DEF Finish, client, mutex
  <2>2. CASE pc[r] \in {"challenge", "login"} /\ EndAttempt(r, "AuthTransport")
    BY <2>2, MovePast DEF EndAttempt, GoTo
  <2> QED
    BY <1>1, <2>1, <2>2 DEF Timeout, client
<1>2. CASE Cancel(r)
  <2>1. pc' = [pc EXCEPT ![r] = "done"] /\ Withdraw(r)
    BY <1>2 DEF Cancel, Finish
  <2>2. CASE holder = r /\ Release
    BY <2>1, <2>2, ReleaseExact
  <2>3. ASSUME NEW k \in 1..Len(waiters), waiters[k] = r,
               waiters' = SubSeq(waiters, 1, k - 1) \o SubSeq(waiters, k + 1, Len(waiters)),
               UNCHANGED holder
        PROVE  Exact'
    BY <2>1, <2>3, RemovalExact
  <2>4. CASE holder # r /\ (\A i \in 1..Len(waiters) : waiters[i] # r) /\ UNCHANGED mutex
    <3>1. ~Inside(r)
      BY <2>4 DEF Exact, Queued
    <3> QED
      BY <2>1, <2>4, <3>1, MovePast
  <2> QED
    BY <2>1, <2>2, <2>3, <2>4 DEF Withdraw
<1> QED
  BY <1>1, <1>2

LEMMA StepExact == ASSUME TypeOK, Guarded, Exact, [Next]_vars PROVE Exact'
<1>1. ASSUME NEW r \in Requests, Begin(r) PROVE Exact'
  BY <1>1, MovePast DEF Begin, GoTo, client, mutex, Inside, Attempting
<1>2. ASSUME NEW r \in Requests, Serve(r) PROVE Exact'
  BY <1>2, StayExact
     DEF Serve, ServeTarget, FailTarget, RefuseTarget, ServeChallenge, ServeLogin, RouterKeeps,
         client
<1>3. CASE Expire
  BY <1>3, StayExact DEF Expire, client
<1>4. CASE UNCHANGED vars
  BY <1>4, StayExact DEF vars
<1> QED
  BY <1>1, <1>2, <1>3, <1>4, RunExact, ReceiveExact, FailureExact DEF Next, Rest

LEMMA ExactInvariant == Spec => [](Guarded /\ Exact)
<1>1. Init => Guarded
  BY DEF Init, Guarded, Attempting
<1>2. Init => Exact
  BY RequestsAssumption DEF Init, Exact, Inside, Queued, Attempting
<1>3. TypeOK /\ Guarded /\ Exact /\ [Next]_vars => Guarded' /\ Exact'
  BY GuardedStep, StepExact
<1> QED
  BY <1>1, <1>2, <1>3, TypeCorrect, PTL DEF Spec

(* Cancelled, timed out or answered, at any await: the mutex is never left   *)
(* held by a task that is gone, nor queued for one.                          *)
THEOREM MutexIsExact == Spec => []MutexExact
<1>1. TypeOK /\ Exact => MutexExact
  <2> SUFFICES ASSUME TypeOK, Exact PROVE MutexExact
    OBVIOUS
  <2>1. \A i \in 1..Len(waiters) : waiters[i] \in Requests
    BY DEF TypeOK
  <2>2. holder \in Requests \cup {NoRequest}
    BY DEF TypeOK
  <2>3. {r \in Requests : Inside(r)}
          = {waiters[i] : i \in 1..Len(waiters)} \cup ({holder} \ {NoRequest})
    BY <2>1, <2>2, RequestsAssumption DEF Exact, Queued
  <2> QED
    BY <2>3 DEF Exact, MutexExact, Inside
<1> QED
  BY <1>1, ExactInvariant, TypeCorrect, PTL

-----------------------------------------------------------------------------
(* The session in the jar.  The client knows nothing of sessions: that a     *)
(* cookie is granted follows from what was answered to whom, and that it     *)
(* stays in the jar from whoever attempts being alone.                       *)

(* A reply is what its task listens for. *)
Matched ==
  \A r \in Requests :
    LET w == wire[r]
    IN /\ w.phase = "reply" => pc[r] \in Listening
       /\ pc[r] \in Listening /\ w.phase # "quiet" =>
            w.to = IF pc[r] = "retried" THEN "target" ELSE pc[r]

(* Only a challenge sets a cookie, and what goes on with it goes on in its   *)
(* session.                                                                  *)
Answered ==
  \A r \in Requests :
    LET w == wire[r]
    IN /\ w.phase = "reply" =>
            IF w.to = "challenge" /\ w.status = "unauthorized"
            THEN w.cookie = w.challenge /\ w.cookie # NoCookie
            ELSE w.cookie = NoCookie
       /\ pc[r] = "answer" => jar = challenge[r]
       /\ pc[r] \in {"challenge", "login"} /\ w.phase = "request" => w.cookie = jar
       /\ pc[r] = "login" /\ w.phase = "request" => w.cookie = w.challenge
       /\ pc[r] = "login" /\ w.phase = "reply" /\ w.status = "unauthorized" => "reject" \in Faults

(* Somebody repeats an operation, or would if it shared the last result. *)
Known == auth.lastResult = "Ok" \/ \E r \in Requests : pc[r] = "retry"

(* What is known to be granted stays so, unless the router drops a session:  *)
(* an attempt that starts from a granted cookie is given no other one.       *)
Presented ==
  dropped = {} =>
    /\ Known => jar \in granted
    /\ \A r \in Requests :
         LET w == wire[r]
         IN /\ Known => /\ pc[r] \notin {"answer", "login"}
                        /\ ~(pc[r] = "challenge" /\ w.phase = "reply" /\ w.status = "unauthorized")
            /\ pc[r] \in {"challenge", "login"} /\ w.phase = "reply" /\ w.status = "ok"
               => jar \in granted
            /\ pc[r] = "retried" => /\ w.phase = "request" => w.cookie \in granted
                                    /\ w.phase = "reply" => w.status # "unauthorized"

(* Where the refusals a call may return come from *)
Blamed ==
  /\ auth.lastResult = "RejectedCredentials" => "reject" \in Faults
  /\ \A r \in Requests :
       /\ outcome[r] = "UnauthorizedAfterAuthentication" => dropped # {}
       /\ outcome[r] = "RejectedCredentials" => "reject" \in Faults

Session == Matched /\ ("refusalCookie" \notin Faults => Answered /\ Presented /\ Blamed)

SessionTypes ==
  /\ pc \in [Requests -> Steps] /\ wire \in [Requests -> Exchange]
  /\ outcome \in [Requests -> Outcomes \cup {"pending"}]
  /\ auth.lastResult \in AuthResults \cup {NoResult}
  /\ challenge \in [Requests -> Nat] /\ issued \in Nat /\ jar \in Nat

LEMMA TypesOfSession == TypeOK => SessionTypes
  BY DEF TypeOK, SessionTypes, Exchange

-----------------------------------------------------------------------------
LEMMA MatchedStep == ASSUME SessionTypes, Matched, [Next]_vars PROVE Matched'
<1> USE DEF Matched, SessionTypes, Listening, Steps
<1>1. ASSUME NEW r \in Requests, Begin(r) PROVE Matched'
  BY <1>1 DEF Begin, GoTo
<1>2. ASSUME NEW r \in Requests, Run(r) PROVE Matched'
  <2>1. CASE SendTarget(r) \/ SendRetry(r) \/ BeginAttempt(r) \/ SendLogin(r)
    BY <2>1 DEF SendTarget, SendRetry, BeginAttempt, SendLogin, Transmit, GoTo
  <2>2. CASE ReadBody(r)
    BY <2>2 DEF ReadBody, Finish
  <2>3. CASE ShareResult(r) \/ Publish(r)
    BY <2>3 DEF ShareResult, Publish, Proceed, GoTo, Finish
  <2> QED
    BY <1>2, <2>1, <2>2, <2>3 DEF Run
<1>3. ASSUME NEW r \in Requests, Receive(r) PROVE Matched'
  <2>1. wire' = [wire EXCEPT ![r] = Quiet] /\ \E step : pc' = [pc EXCEPT ![r] = step]
    BY <1>3
       DEF Receive, ReceiveTarget, ReceiveRetry, ReceiveChallenge, ReceiveLogin, Absorb,
           Deliver, EndAttempt, GoTo, Finish
  <2> QED
    BY <2>1 DEF Quiet
<1>4. ASSUME NEW r \in Requests, Timeout(r) \/ Cancel(r) PROVE Matched'
  <2>1. \E step \in {"done", "publish"} : pc' = [pc EXCEPT ![r] = step]
    BY <1>4 DEF Timeout, Cancel, EndAttempt, GoTo, Finish
  <2>2. Abandon(r)
    BY <1>4 DEF Timeout, Cancel
  <2> QED
    BY <2>1, <2>2 DEF Abandon, Quiet
<1>5. ASSUME NEW r \in Requests, Serve(r) PROVE Matched'
  <2>1. pc' = pc /\ \E status, cookie, chal : Reply(r, status, cookie, chal)
    BY <1>5
       DEF Serve, ServeTarget, FailTarget, RefuseTarget, ServeChallenge, ServeLogin, RouterKeeps
  <2>2. wire[r].phase = "request"
    BY <1>5 DEF Serve, ServeTarget, FailTarget, RefuseTarget, ServeChallenge, ServeLogin
  <2> QED
    BY <2>1, <2>2 DEF Reply, Quiet
<1>6. CASE Expire \/ UNCHANGED vars
  BY <1>6 DEF Expire, vars
<1> QED
  BY <1>1, <1>2, <1>3, <1>4, <1>5, <1>6 DEF Next, Rest

(* Who attempts is alone: the others leave the jar as it is. *)
Alone(r) == \A q \in Requests : q # r => pc[q] \notin Attempting \cup {"publish"}

LEMMA AttemptsAlone ==
  ASSUME Guarded, NEW r \in Requests, pc[r] \in Attempting \cup {"publish"}
  PROVE  Alone(r)
  BY DEF Guarded, Alone

LEMMA AnsweredStep ==
  ASSUME SessionTypes, Guarded, Matched, Answered, "refusalCookie" \notin Faults, [Next]_vars
  PROVE  Answered'
<1> USE DEF Answered, SessionTypes, Steps
<1>1. ASSUME NEW r \in Requests, Begin(r) PROVE Answered'
  BY <1>1 DEF Begin, GoTo
<1>2. ASSUME NEW r \in Requests, Run(r) PROVE Answered'
  <2>1. CASE SendTarget(r) \/ SendRetry(r) \/ BeginAttempt(r) \/ SendLogin(r)
    BY <2>1 DEF SendTarget, SendRetry, BeginAttempt, SendLogin, Transmit, GoTo
  <2>2. CASE ReadBody(r)
    BY <2>2 DEF ReadBody, Finish
  <2>3. CASE ShareResult(r) \/ Publish(r)
    BY <2>3 DEF ShareResult, Publish, Proceed, GoTo, Finish
  <2> QED
    BY <1>2, <2>1, <2>2, <2>3 DEF Run
<1>3. ASSUME NEW r \in Requests, Receive(r) PROVE Answered'
  <2>1. wire' = [wire EXCEPT ![r] = Quiet] /\ wire[r].phase = "reply"
        /\ jar' = IF wire[r].cookie = NoCookie THEN jar ELSE wire[r].cookie
    BY <1>3 DEF Receive, ReceiveTarget, ReceiveRetry, ReceiveChallenge, ReceiveLogin, Absorb
  <2>2. CASE pc[r] = "challenge" /\ wire[r].status = "unauthorized"
    <3>1. Alone(r)
      BY <2>2, AttemptsAlone DEF Attempting
    <3>2. /\ pc' = [pc EXCEPT ![r] = "answer"]
          /\ challenge' = [challenge EXCEPT ![r] = wire[r].challenge]
      BY <1>3, <2>2 DEF Receive, ReceiveTarget, ReceiveRetry, ReceiveChallenge, ReceiveLogin, GoTo
    <3>3. jar' = wire[r].challenge
      BY <2>1, <2>2 DEF Matched, Listening
    <3> QED
      BY <2>1, <3>1, <3>2, <3>3 DEF Quiet, Alone, Attempting
  <2>3. CASE ~(pc[r] = "challenge" /\ wire[r].status = "unauthorized")
    <3>1. \E step \in {"body", "lock", "done", "publish"} : pc' = [pc EXCEPT ![r] = step]
      BY <1>3, <2>3
         DEF Receive, ReceiveTarget, ReceiveRetry, ReceiveChallenge, ReceiveLogin, EndAttempt,
             Deliver, GoTo, Finish
    <3>2. UNCHANGED challenge
      BY <1>3, <2>3 DEF Receive, ReceiveTarget, ReceiveRetry, ReceiveChallenge, ReceiveLogin
    <3>3. jar' = jar
      BY <2>1, <2>3 DEF Matched, Listening
    <3> QED
      BY <2>1, <3>1, <3>2, <3>3 DEF Quiet
  <2> QED
    BY <2>2, <2>3
<1>4. ASSUME NEW r \in Requests, Timeout(r) \/ Cancel(r) PROVE Answered'
  <2>1. \E step \in {"done", "publish"} : pc' = [pc EXCEPT ![r] = step]
    BY <1>4 DEF Timeout, Cancel, EndAttempt, GoTo, Finish
  <2>2. Abandon(r) /\ UNCHANGED challenge
    BY <1>4 DEF Timeout, Cancel
  <2> QED
    BY <2>1, <2>2 DEF Abandon, Quiet
<1>5. ASSUME NEW r \in Requests, Serve(r) PROVE Answered'
  <2>1. pc' = pc /\ jar' = jar /\ challenge' = challenge /\ wire[r].phase = "request"
    BY <1>5
       DEF Serve, ServeTarget, FailTarget, RefuseTarget, ServeChallenge, ServeLogin, RouterKeeps
  <2>2. CASE ServeTarget(r) \/ FailTarget(r) \/ RefuseTarget(r)
    <3>1. \E status : Reply(r, status, NoCookie, NoCookie)
      BY <2>2 DEF ServeTarget, FailTarget, RefuseTarget
    <3>2. wire[r].to = "target"
      BY <2>2 DEF ServeTarget, FailTarget, RefuseTarget
    <3> QED
      BY <2>1, <3>1, <3>2 DEF Reply, Quiet, Matched, Listening
  <2>3. CASE ServeChallenge(r)
    <3>1. wire[r].to = "challenge" /\ issued + 1 # NoCookie
      BY <2>3 DEF ServeChallenge, NoCookie
    <3>2. \/ Reply(r, "unauthorized", issued + 1, issued + 1)
          \/ \E status \in {"ok", "error", "malformed"} : Reply(r, status, NoCookie, NoCookie)
      BY <2>3 DEF ServeChallenge, NewSession
    <3> QED
      BY <2>1, <3>1, <3>2 DEF Reply, Quiet, Matched, Listening
  <2>4. CASE ServeLogin(r)
    <3>1. wire[r].to = "login"
      BY <2>4 DEF ServeLogin
    <3>2. \/ \E status \in {"ok", "error"} : Reply(r, status, NoCookie, NoCookie)
          \/ /\ Reply(r, "unauthorized", NoCookie, NoCookie)
             /\ wire[r].cookie # wire[r].challenge \/ "reject" \in Faults
      BY <2>4 DEF ServeLogin
    <3> QED
      BY <2>1, <3>1, <3>2 DEF Reply, Quiet, Matched, Listening
  <2> QED
    BY <1>5, <2>2, <2>3, <2>4 DEF Serve
<1>6. CASE Expire \/ UNCHANGED vars
  BY <1>6 DEF Expire, vars
<1> QED
  BY <1>1, <1>2, <1>3, <1>4, <1>5, <1>6 DEF Next, Rest

LEMMA PresentedStep ==
  ASSUME SessionTypes, Guarded, Matched, Answered, Presented, "refusalCookie" \notin Faults,
         [Next]_vars
  PROVE  Presented'
<1> USE DEF Presented, Known, SessionTypes, Steps
<1>0. SUFFICES ASSUME (dropped = {})' PROVE Presented'
  OBVIOUS
<1>1. ASSUME NEW r \in Requests, Begin(r) PROVE Presented'
  BY <1>1 DEF Begin, GoTo, client, router
<1>2. ASSUME NEW r \in Requests, Run(r) PROVE Presented'
  <2>1. CASE SendTarget(r)
    BY <2>1 DEF SendTarget, Transmit, GoTo, client, router
  <2>2. CASE SendRetry(r)
    BY <2>2 DEF SendRetry, Transmit, GoTo, client, router
  <2>3. CASE BeginAttempt(r)
    BY <2>3 DEF BeginAttempt, Transmit, GoTo, client, router
  <2>4. CASE SendLogin(r)
    <3>1. ~Known
      BY <1>0, <2>4 DEF SendLogin, router
    <3> QED
      BY <2>4, <3>1 DEF SendLogin, Transmit, GoTo, client, router
  <2>5. CASE ReadBody(r)
    BY <2>5 DEF ReadBody, Finish, client, router
  <2>6. CASE ShareResult(r) \/ Publish(r)
    <3>1. \/ auth.lastResult = "Ok" /\ pc' = [pc EXCEPT ![r] = "retry"]
          \/ pc' = [pc EXCEPT ![r] = "done"]
      BY <2>6 DEF ShareResult, Publish, Proceed, GoTo, Finish
    <3>2. UNCHANGED <<auth, jar, wire, granted, dropped>>
      BY <2>6 DEF ShareResult, Publish, router
    <3> QED
      BY <3>1, <3>2
  <2> QED
    BY <1>2, <2>1, <2>2, <2>3, <2>4, <2>5, <2>6 DEF Run
<1>3. ASSUME NEW r \in Requests, Receive(r) PROVE Presented'
  <2>1. /\ wire' = [wire EXCEPT ![r] = Quiet] /\ wire[r].phase = "reply"
        /\ jar' = IF wire[r].cookie = NoCookie THEN jar ELSE wire[r].cookie
        /\ UNCHANGED <<granted, dropped>>
    BY <1>3
       DEF Receive, ReceiveTarget, ReceiveRetry, ReceiveChallenge, ReceiveLogin, Absorb, router
  <2>2. CASE pc[r] = "challenge" /\ wire[r].status = "unauthorized"
    <3>1. Alone(r)
      BY <2>2, AttemptsAlone DEF Attempting
    <3>2. pc' = [pc EXCEPT ![r] = "answer"] /\ UNCHANGED auth
      BY <1>3, <2>2
         DEF Receive, ReceiveTarget, ReceiveRetry, ReceiveChallenge, ReceiveLogin, GoTo, client
    <3>3. ~Known
      BY <1>0, <2>1, <2>2
    <3> QED
      BY <2>1, <3>1, <3>2, <3>3 DEF Quiet, Alone, Attempting
  <2>3. CASE /\ pc[r] \in {"challenge", "login"}
             /\ ~(pc[r] = "challenge" /\ wire[r].status = "unauthorized")
    <3>1. Alone(r)
      BY <2>3, AttemptsAlone DEF Attempting
    <3>2. pc' = [pc EXCEPT ![r] = "publish"]
      BY <1>3, <2>3
         DEF Receive, ReceiveTarget, ReceiveRetry, ReceiveChallenge, ReceiveLogin, EndAttempt, GoTo
    <3>3. auth'.lastResult = "Ok" => wire[r].status = "ok"
      BY <1>3, <2>3
         DEF Receive, ReceiveTarget, ReceiveRetry, ReceiveChallenge, ReceiveLogin, EndAttempt
    <3>4. jar' = jar
      BY <2>1, <2>3 DEF Answered, Matched, Listening
    <3> QED
      BY <1>0, <2>1, <2>3, <3>1, <3>2, <3>3, <3>4 DEF Quiet, Alone, Attempting
  <2>4. CASE pc[r] \in {"target", "retried"}
    <3>1. \E step \in {"body", "lock", "done"} : pc' = [pc EXCEPT ![r] = step]
      BY <1>3, <2>4
         DEF Receive, ReceiveTarget, ReceiveRetry, ReceiveChallenge, ReceiveLogin, Deliver,
             GoTo, Finish
    <3>2. UNCHANGED auth
      BY <1>3, <2>4
         DEF Receive, ReceiveTarget, ReceiveRetry, ReceiveChallenge, ReceiveLogin, client
    <3>3. jar' = jar
      BY <2>1, <2>4 DEF Answered, Matched, Listening
    <3> QED
      BY <1>0, <2>1, <3>1, <3>2, <3>3 DEF Quiet
  <2> QED
    BY <1>3, <2>2, <2>3, <2>4
       DEF Receive, ReceiveTarget, ReceiveRetry, ReceiveChallenge, ReceiveLogin
<1>4. ASSUME NEW r \in Requests, Timeout(r) \/ Cancel(r) PROVE Presented'
  <2>1. \E step \in {"done", "publish"} : pc' = [pc EXCEPT ![r] = step]
    BY <1>4 DEF Timeout, Cancel, EndAttempt, GoTo, Finish
  <2>2. Abandon(r) /\ UNCHANGED <<granted, dropped>>
    BY <1>4 DEF Timeout, Cancel, router
  <2>3. auth'.lastResult = "Ok" => auth.lastResult = "Ok"
    BY <1>4 DEF Timeout, Cancel, EndAttempt, client
  <2> QED
    BY <1>0, <2>1, <2>2, <2>3 DEF Abandon, Quiet
<1>5. ASSUME NEW r \in Requests, Serve(r) PROVE Presented'
  <2>1. /\ UNCHANGED <<pc, jar, auth, dropped>> /\ wire[r].phase = "request"
        /\ granted \subseteq granted'
    BY <1>5
       DEF Serve, ServeTarget, FailTarget, RefuseTarget, ServeChallenge, ServeLogin,
           RouterKeeps, client
  <2>2. CASE ServeTarget(r) \/ FailTarget(r)
    <3>1. \E status \in {"ok", "error"} : Reply(r, status, NoCookie, NoCookie)
      BY <2>2 DEF ServeTarget, FailTarget
    <3>2. wire[r].to = "target"
      BY <2>2 DEF ServeTarget, FailTarget
    <3> QED
      BY <1>0, <2>1, <3>1, <3>2 DEF Reply, Quiet, Matched, Listening
  <2>3. CASE RefuseTarget(r)
    <3>1. Reply(r, "unauthorized", NoCookie, NoCookie)
      BY <2>3 DEF RefuseTarget
    <3>2. wire[r].to = "target" /\ wire[r].cookie \notin granted
      BY <2>3 DEF RefuseTarget
    <3> QED
      BY <1>0, <2>1, <3>1, <3>2 DEF Reply, Quiet, Matched, Listening
  <2>4. CASE ServeChallenge(r)
    <3>1. wire[r].to = "challenge"
      BY <2>4 DEF ServeChallenge, NoCookie
    <3>2. \/ Reply(r, "unauthorized", issued + 1, issued + 1) /\ wire[r].cookie \notin granted
          \/ Reply(r, "ok", NoCookie, NoCookie) /\ wire[r].cookie \in granted
          \/ \E status \in {"error", "malformed"} : Reply(r, status, NoCookie, NoCookie)
      BY <2>4 DEF ServeChallenge, NewSession
    <3> QED
      BY <1>0, <2>1, <3>1, <3>2 DEF Reply, Quiet, Matched, Listening, Answered
  <2>5. CASE ServeLogin(r)
    <3>1. wire[r].to = "login"
      BY <2>5 DEF ServeLogin
    <3>2. \/ Reply(r, "ok", NoCookie, NoCookie) /\ wire[r].cookie \in granted'
          \/ \E status \in {"unauthorized", "error"} : Reply(r, status, NoCookie, NoCookie)
      BY <2>5 DEF ServeLogin
    <3> QED
      BY <1>0, <2>1, <3>1, <3>2 DEF Reply, Quiet, Matched, Listening, Answered
  <2> QED
    BY <1>5, <2>2, <2>3, <2>4, <2>5 DEF Serve
<1>6. CASE Expire
  BY <1>0, <1>6 DEF Expire
<1>7. CASE UNCHANGED vars
  BY <1>7 DEF vars
<1> QED
  BY <1>1, <1>2, <1>3, <1>4, <1>5, <1>6, <1>7 DEF Next, Rest

LEMMA BlamedStep ==
  ASSUME SessionTypes, Matched, Answered, Presented, Blamed, "refusalCookie" \notin Faults,
         [Next]_vars
  PROVE  Blamed'
<1> USE DEF Blamed, SessionTypes, Steps
<1>1. ASSUME NEW r \in Requests, Begin(r) \/ Serve(r) PROVE Blamed'
  BY <1>1
     DEF Begin, GoTo, Serve, ServeTarget, FailTarget, RefuseTarget, ServeChallenge, ServeLogin,
         RouterKeeps, client, router
<1>2. ASSUME NEW r \in Requests, Run(r) PROVE Blamed'
  <2>1. CASE SendTarget(r) \/ SendRetry(r) \/ BeginAttempt(r) \/ SendLogin(r)
    BY <2>1 DEF SendTarget, SendRetry, BeginAttempt, SendLogin, GoTo, client, router
  <2>2. CASE ReadBody(r)
    BY <2>2 DEF ReadBody, Finish, client, router
  <2>3. CASE ShareResult(r) \/ Publish(r)
    <3>1. \/ outcome' = outcome
          \/ outcome' = [outcome EXCEPT ![r] = "Panic"]
          \/ outcome' = [outcome EXCEPT ![r] = auth.lastResult]
      BY <2>3 DEF ShareResult, Publish, Proceed, GoTo, Finish
    <3>2. UNCHANGED <<auth, dropped>>
      BY <2>3 DEF ShareResult, Publish, router
    <3>3. auth.lastResult # "UnauthorizedAfterAuthentication"
      BY DEF AuthResults, AuthErrors, NoResult
    <3> QED
      BY <3>1, <3>2, <3>3
  <2> QED
    BY <1>2, <2>1, <2>2, <2>3 DEF Run
<1>3. ASSUME NEW r \in Requests, Receive(r) PROVE Blamed'
  <2>1. UNCHANGED dropped /\ wire[r].phase = "reply"
    BY <1>3
       DEF Receive, ReceiveTarget, ReceiveRetry, ReceiveChallenge, ReceiveLogin, Absorb, router
  <2>2. CASE ReceiveTarget(r) \/ ReceiveRetry(r)
    <3>1. UNCHANGED auth
      BY <2>2 DEF ReceiveTarget, ReceiveRetry, client
    <3>2. \/ outcome' = outcome
          \/ \E result \in {"Http", "Required"} : outcome' = [outcome EXCEPT ![r] = result]
          \/ /\ outcome' = [outcome EXCEPT ![r] = "UnauthorizedAfterAuthentication"]
             /\ pc[r] = "retried" /\ wire[r].status = "unauthorized"
      BY <2>2 DEF ReceiveTarget, ReceiveRetry, Deliver, GoTo, Finish
    <3> QED
      BY <2>1, <3>1, <3>2 DEF Presented
  <2>3. CASE ReceiveChallenge(r) \/ ReceiveLogin(r)
    <3>1. outcome' = outcome
      BY <2>3 DEF ReceiveChallenge, ReceiveLogin, EndAttempt, GoTo
    <3>2. auth'.lastResult = "RejectedCredentials" =>
            \/ auth' = auth
            \/ pc[r] = "login" /\ wire[r].status = "unauthorized"
      BY <2>3 DEF ReceiveChallenge, ReceiveLogin, EndAttempt, client
    <3> QED
      BY <2>1, <3>1, <3>2 DEF Answered
  <2> QED
    BY <1>3, <2>2, <2>3 DEF Receive
<1>4. ASSUME NEW r \in Requests, Timeout(r) \/ Cancel(r) PROVE Blamed'
  <2>1. \/ outcome' = outcome
        \/ \E result \in {"Transport", "Cancelled"} : outcome' = [outcome EXCEPT ![r] = result]
    BY <1>4 DEF Timeout, Cancel, EndAttempt, GoTo, Finish
  <2>2. UNCHANGED dropped
    BY <1>4 DEF Timeout, Cancel, router
  <2>3. auth'.lastResult = "RejectedCredentials" => auth' = auth
    BY <1>4 DEF Timeout, Cancel, EndAttempt, client
  <2> QED
    BY <2>1, <2>2, <2>3
<1>5. CASE Expire
  BY <1>5 DEF Expire, client
<1>6. CASE UNCHANGED vars
  BY <1>6 DEF vars
<1> QED
  BY <1>1, <1>2, <1>3, <1>4, <1>5, <1>6 DEF Next, Rest

LEMMA SessionInvariant == Spec => [](Guarded /\ Session)
<1>1. Init => Guarded /\ Session
  BY DEF Init, Guarded, Session, Matched, Answered, Presented, Known, Blamed, Attempting,
      Listening,
         Quiet, NoResult
<1>2. TypeOK /\ Guarded /\ Session /\ [Next]_vars => Guarded' /\ Session'
  BY TypesOfSession, GuardedStep, MatchedStep, AnsweredStep, PresentedStep, BlamedStep DEF Session
<1> QED
  BY <1>1, <1>2, TypeCorrect, PTL DEF Spec

(* Whatever other calls do to the jar meanwhile, a repeated request presents *)
(* a session the router has granted, if it dropped none, and an answer goes  *)
(* out in the session of its challenge.                                      *)
THEOREM SessionIsPresented == Spec => []SessionPresented
<1>1. Guarded /\ Session => SessionPresented
  BY DEF Session, SessionPresented, Answered, Presented
<1> QED
  BY <1>1, SessionInvariant, PTL

(* If refusals set no cookie, a call that ends with "unauthorized after      *)
(* authentication" was failed by a router that has dropped a session, and    *)
(* one that ends with rejected credentials by a router that rejects them:    *)
(* neither by the other calls of its client.                                 *)
THEOREM RefusalsAreBlameless == Spec => []BlamelessRefusal
<1>1. Session => BlamelessRefusal
  BY DEF Session, BlamelessRefusal, Blamed
<1> QED
  BY <1>1, SessionInvariant, PTL

-----------------------------------------------------------------------------
(* What EveryCallReturns rests on: three facts about single states and steps *)
(* which, with the fairness of FairSpec, leave a call no way not to return.  *)
(* Somebody can always move; whoever moves comes closer to its return; and   *)
(* nobody overtakes a task that waits for the mutex.                         *)

(* The moves a call has before it, at most. *)
StepsLeft ==
  [idle |-> 11, ready |-> 10, target |-> 9, lock |-> 8, challenge |-> 7, answer |-> 6,
   login |-> 5, publish |-> 4, retry |-> 3, retried |-> 2, body |-> 1, done |-> 0]

(* A call only ever moves towards its return: there is no retry to be caught *)
(* in, whatever the router answers.                                          *)
Advances == \A r \in Requests : pc'[r] # pc[r] => StepsLeft[pc'[r]] < StepsLeft[pc[r]]

LEMMA MoveAdvances ==
  ASSUME TypeOK, NEW r \in Requests, NEW step, pc' = [pc EXCEPT ![r] = step],
         StepsLeft[step] < StepsLeft[pc[r]]
  PROVE  Advances
<1>1. \A q \in Requests : pc'[q] = IF q = r THEN step ELSE pc[q]
  BY DEF TypeOK
<1> QED
  BY <1>1 DEF Advances

LEMMA ProceedAdvances ==
  ASSUME TypeOK, NEW r \in Requests, pc[r] \in {"lock", "publish"}, Proceed(r, auth.lastResult)
  PROVE  Advances
<1>1. PICK step \in {"retry", "done"} : pc' = [pc EXCEPT ![r] = step]
  BY DEF Proceed, GoTo, Finish
<1>2. StepsLeft[step] < StepsLeft[pc[r]]
  BY <1>1 DEF StepsLeft
<1> QED
  BY <1>1, <1>2, MoveAdvances

LEMMA DeliverAdvances ==
  ASSUME TypeOK, NEW r \in Requests, pc[r] \in {"target", "retried"}, Deliver(r)
  PROVE  Advances
<1>1. PICK step \in {"body", "done"} : pc' = [pc EXCEPT ![r] = step]
  BY DEF Deliver, GoTo, Finish
<1>2. StepsLeft[step] < StepsLeft[pc[r]]
  BY <1>1 DEF StepsLeft
<1> QED
  BY <1>1, <1>2, MoveAdvances

LEMMA EndAttemptAdvances ==
  ASSUME TypeOK, NEW r \in Requests, pc[r] \in {"challenge", "login"}, NEW result,
         EndAttempt(r, result)
  PROVE  Advances
<1>1. pc' = [pc EXCEPT ![r] = "publish"] /\ StepsLeft["publish"] < StepsLeft[pc[r]]
  BY DEF EndAttempt, GoTo, StepsLeft
<1> QED
  BY <1>1, MoveAdvances

LEMMA ReceiveAdvances == ASSUME TypeOK, NEW r \in Requests, Receive(r) PROVE Advances
<1>1. CASE ReceiveTarget(r)
  <2>1. \/ Deliver(r)
        \/ \E step \in {"lock", "done"} : pc' = [pc EXCEPT ![r] = step]
    BY <1>1 DEF ReceiveTarget, GoTo, Finish
  <2>2. pc[r] = "target"
    BY <1>1 DEF ReceiveTarget
  <2>3. ASSUME NEW step \in {"lock", "done"}, pc' = [pc EXCEPT ![r] = step] PROVE Advances
    <3>1. StepsLeft[step] < StepsLeft[pc[r]]
      BY <2>2 DEF StepsLeft
    <3> QED
      BY <2>3, <3>1, MoveAdvances
  <2> QED
    BY <2>1, <2>2, <2>3, DeliverAdvances
<1>2. CASE ReceiveRetry(r)
  <2>1. Deliver(r) \/ pc' = [pc EXCEPT ![r] = "done"]
    BY <1>2 DEF ReceiveRetry, Finish
  <2>2. pc[r] = "retried" /\ StepsLeft["done"] < StepsLeft[pc[r]]
    BY <1>2 DEF ReceiveRetry, StepsLeft
  <2> QED
    BY <2>1, <2>2, DeliverAdvances, MoveAdvances
<1>3. CASE ReceiveChallenge(r)
  <2>1. pc[r] = "challenge" /\ StepsLeft["answer"] < StepsLeft[pc[r]]
    BY <1>3 DEF ReceiveChallenge, StepsLeft
  <2>2. pc' = [pc EXCEPT ![r] = "answer"] \/ \E result : EndAttempt(r, result)
    BY <1>3 DEF ReceiveChallenge, GoTo
  <2> QED
    BY <2>1, <2>2, MoveAdvances, EndAttemptAdvances
<1>4. CASE ReceiveLogin(r)
  <2>1. pc[r] = "login" /\ \E result : EndAttempt(r, result)
    BY <1>4 DEF ReceiveLogin
  <2> QED
    BY <2>1, EndAttemptAdvances
<1> QED
  BY <1>1, <1>2, <1>3, <1>4 DEF Receive

LEMMA RunAdvances == ASSUME TypeOK, NEW r \in Requests, Run(r) PROVE Advances
<1>1. CASE ShareResult(r) \/ Publish(r)
  BY <1>1, ProceedAdvances DEF ShareResult, Publish
<1>2. CASE SendTarget(r)
  <2>1. pc' = [pc EXCEPT ![r] = "target"] /\ StepsLeft["target"] < StepsLeft[pc[r]]
    BY <1>2 DEF SendTarget, GoTo, StepsLeft
  <2> QED
    BY <2>1, MoveAdvances
<1>3. CASE SendRetry(r)
  <2>1. pc' = [pc EXCEPT ![r] = "retried"] /\ StepsLeft["retried"] < StepsLeft[pc[r]]
    BY <1>3 DEF SendRetry, GoTo, StepsLeft
  <2> QED
    BY <2>1, MoveAdvances
<1>4. CASE ReadBody(r)
  <2>1. pc' = [pc EXCEPT ![r] = "done"] /\ StepsLeft["done"] < StepsLeft[pc[r]]
    BY <1>4 DEF ReadBody, Finish, StepsLeft
  <2> QED
    BY <2>1, MoveAdvances
<1>5. CASE BeginAttempt(r)
  <2>1. pc' = [pc EXCEPT ![r] = "challenge"] /\ StepsLeft["challenge"] < StepsLeft[pc[r]]
    BY <1>5 DEF BeginAttempt, GoTo, StepsLeft
  <2> QED
    BY <2>1, MoveAdvances
<1>6. CASE SendLogin(r)
  <2>1. pc' = [pc EXCEPT ![r] = "login"] /\ StepsLeft["login"] < StepsLeft[pc[r]]
    BY <1>6 DEF SendLogin, GoTo, StepsLeft
  <2> QED
    BY <2>1, MoveAdvances
<1> QED
  BY <1>1, <1>2, <1>3, <1>4, <1>5, <1>6 DEF Run

LEMMA StepAdvances == ASSUME TypeOK, [Next]_vars PROVE Advances
<1>1. ASSUME NEW r \in Requests, Begin(r) PROVE Advances
  <2>1. pc' = [pc EXCEPT ![r] = "ready"] /\ StepsLeft["ready"] < StepsLeft[pc[r]]
    BY <1>1 DEF Begin, GoTo, StepsLeft
  <2> QED
    BY <2>1, MoveAdvances
<1>2. ASSUME NEW r \in Requests, Timeout(r) PROVE Advances
  <2>1. CASE pc' = [pc EXCEPT ![r] = "done"] /\ pc[r] \in {"target", "retried", "body"}
    <3>1. StepsLeft["done"] < StepsLeft[pc[r]]
      BY <2>1 DEF StepsLeft
    <3> QED
      BY <2>1, <3>1, MoveAdvances
  <2>2. CASE EndAttempt(r, "AuthTransport") /\ pc[r] \in {"challenge", "login"}
    BY <2>2, EndAttemptAdvances
  <2> QED
    BY <1>2, <2>1, <2>2 DEF Timeout, Finish
<1>3. ASSUME NEW r \in Requests, Cancel(r) PROVE Advances
  <2>1. pc' = [pc EXCEPT ![r] = "done"] /\ StepsLeft["done"] < StepsLeft[pc[r]]
    BY <1>3 DEF Cancel, Finish, Awaiting, StepsLeft
  <2> QED
    BY <2>1, MoveAdvances
<1>4. ASSUME UNCHANGED pc PROVE Advances
  BY <1>4 DEF Advances
<1>5. ASSUME NEW r \in Requests, Serve(r) PROVE UNCHANGED pc
  BY <1>5 DEF Serve, ServeTarget, FailTarget, RefuseTarget, ServeChallenge, ServeLogin, RouterKeeps
<1>6. Expire \/ UNCHANGED vars => UNCHANGED pc
  BY DEF Expire, vars
<1> QED
  BY <1>1, <1>2, <1>3, <1>4, <1>5, <1>6, RunAdvances, ReceiveAdvances DEF Next, Rest

(* send_authenticated repeats a request once and authenticates once: every   *)
(* step of a call brings it closer to its return, at any wrap of the counter *)
(* and whatever the router or the caller does.                               *)
THEOREM CallsAdvance == Spec => [][Advances]_vars
<1>1. TypeOK /\ [Next]_vars => [Advances]_vars
  BY StepAdvances
<1> QED
  BY <1>1, TypeCorrect, PTL DEF Spec
(* The queue of the mutex: who waits moves up when the lock changes hands,   *)
(* is never overtaken, and leaves only as the holder or by being dropped.    *)
MovesUp ==
  \A i \in 1..Len(waiters) :
    LET r == waiters[i]
    IN \/ pc'[r] = "done"
       \/ i = 1 /\ holder' = r
       \/ \E j \in 1..Len(waiters') :
            waiters'[j] = r /\ j <= i /\ (holder' # holder => j < i)

LEMMA StayMovesUp == ASSUME TypeOK, UNCHANGED mutex PROVE MovesUp
<1>1. holder' = holder /\ waiters' = waiters /\ Len(waiters) \in Nat
  BY LenProperties DEF mutex, TypeOK
<1> QED
  BY <1>1 DEF MovesUp

LEMMA AcquireMovesUp == ASSUME TypeOK, Exact, NEW r \in Requests, Acquire(r) PROVE MovesUp
<1>1. CASE holder = NoRequest
  <2>1. Len(waiters) = 0
    BY <1>1 DEF Exact
  <2> QED
    BY <2>1 DEF MovesUp
<1>2. CASE holder # NoRequest
  <2>1. waiters' = Append(waiters, r) /\ holder' = holder /\ waiters \in Seq(Requests)
    BY <1>2 DEF Acquire, TypeOK
  <2>2. /\ Len(waiters) \in Nat /\ Len(waiters') = Len(waiters) + 1
        /\ \A i \in 1..Len(waiters) : waiters'[i] = waiters[i]
    BY <2>1, AppendOf
  <2>3. \A i \in 1..Len(waiters) : i \in 1..Len(waiters') /\ i <= i
    BY <2>2
  <2> QED
    BY <2>1, <2>2, <2>3 DEF MovesUp
<1> QED
  BY <1>1, <1>2

LEMMA ReleaseMovesUp == ASSUME TypeOK, Release PROVE MovesUp
<1>1. CASE waiters = <<>>
  <2>1. Len(waiters) = 0
    BY <1>1
  <2> QED
    BY <2>1 DEF MovesUp
<1>2. CASE waiters # <<>>
  <2>1. holder' = Head(waiters) /\ waiters' = Tail(waiters) /\ waiters \in Seq(Requests)
    BY <1>2 DEF Release, TypeOK
  <2>2. /\ holder' = waiters[1] /\ Len(waiters) \in Nat
        /\ Len(waiters') = Len(waiters) - 1
        /\ \A i \in 1..Len(waiters) - 1 : waiters'[i] = waiters[i + 1]
    BY <1>2, <2>1, TailOf
  <2>3. ASSUME NEW i \in 1..Len(waiters), i # 1
        PROVE  i - 1 \in 1..Len(waiters') /\ waiters'[i - 1] = waiters[i] /\ i - 1 < i
    <3>1. i - 1 \in 1..Len(waiters) - 1 /\ (i - 1) + 1 = i
      BY <2>2, <2>3
    <3> QED
      BY <2>2, <3>1
  <2>4. ASSUME NEW i \in 1..Len(waiters), i # 1
        PROVE  \E j \in 1..Len(waiters') :
                 waiters'[j] = waiters[i] /\ j <= i /\ (holder' # holder => j < i)
    <3>1. i - 1 <= i
      BY <2>2
    <3> QED
      BY <2>3, <2>4, <3>1
  <2> QED
    BY <2>2, <2>4 DEF MovesUp
<1> QED
  BY <1>1, <1>2

LEMMA RemovalMovesUp ==
  ASSUME TypeOK, NEW r \in Requests, NEW k \in 1..Len(waiters), waiters[k] = r,
         waiters' = SubSeq(waiters, 1, k - 1) \o SubSeq(waiters, k + 1, Len(waiters)),
         holder' = holder, pc' = [pc EXCEPT ![r] = "done"]
  PROVE  MovesUp
<1>1. waiters \in Seq(Requests) /\ pc'[r] = "done"
  BY DEF TypeOK
<1>2. /\ Len(waiters) \in Nat /\ Len(waiters') = Len(waiters) - 1
      /\ \A i \in 1..Len(waiters) - 1 :
           waiters'[i] = IF i < k THEN waiters[i] ELSE waiters[i + 1]
  BY ONLY <1>1, k \in 1..Len(waiters), RemovalOf,
     waiters' = SubSeq(waiters, 1, k - 1) \o SubSeq(waiters, k + 1, Len(waiters))
<1>3. k \in 1..Len(waiters)
  OBVIOUS
<1>4. ASSUME NEW i \in 1..Len(waiters), i # k
      PROVE  \E j \in 1..Len(waiters') : waiters'[j] = waiters[i] /\ j <= i
  <2>1. CASE i < k
    <3>1. i \in 1..Len(waiters) - 1 /\ i <= i
      BY ONLY <1>2, <1>3, <2>1, i \in 1..Len(waiters)
    <3> QED
      BY <1>2, <2>1, <3>1
  <2>2. CASE i > k
    <3>1. /\ i - 1 \in 1..Len(waiters) - 1 /\ ~(i - 1 < k) /\ (i - 1) + 1 = i
          /\ i - 1 <= i
      BY ONLY <1>2, <1>3, <2>2, i \in 1..Len(waiters)
    <3>2. i - 1 \in 1..Len(waiters') /\ waiters'[i - 1] = waiters[i]
      BY ONLY <1>2, <3>1
    <3> QED
      BY <3>1, <3>2
  <2> QED
    BY ONLY <1>2, <1>3, <1>4, <2>1, <2>2, i \in 1..Len(waiters)
<1>5. \A i \in 1..Len(waiters) : i = k => pc'[waiters[i]] = "done"
  BY <1>1
<1> QED
  BY <1>4, <1>5 DEF MovesUp

LEMMA StepMovesUp == ASSUME TypeOK, Exact, [Next]_vars PROVE MovesUp
<1>1. ASSUME NEW r \in Requests, Run(r) PROVE MovesUp
  <2>1. Release \/ UNCHANGED mutex
    BY <1>1
       DEF Run, SendTarget, SendRetry, ReadBody, ShareResult, BeginAttempt, SendLogin,
           Publish, client, mutex
  <2> QED
    BY <2>1, ReleaseMovesUp, StayMovesUp
<1>2. ASSUME NEW r \in Requests, Receive(r) PROVE MovesUp
  <2>1. Acquire(r) \/ UNCHANGED mutex
    BY <1>2
       DEF Receive, ReceiveTarget, ReceiveRetry, ReceiveChallenge, ReceiveLogin, EndAttempt,
           client, mutex
  <2> QED
    BY <2>1, AcquireMovesUp, StayMovesUp
<1>3. ASSUME NEW r \in Requests, Cancel(r) PROVE MovesUp
  <2>1. pc' = [pc EXCEPT ![r] = "done"] /\ Withdraw(r)
    BY <1>3 DEF Cancel, Finish
  <2>2. CASE \E k \in 1..Len(waiters) :
               /\ waiters[k] = r
               /\ waiters' = SubSeq(waiters, 1, k - 1) \o SubSeq(waiters, k + 1, Len(waiters))
               /\ UNCHANGED holder
    <3>1. PICK k \in 1..Len(waiters) :
               /\ waiters[k] = r
               /\ waiters' = SubSeq(waiters, 1, k - 1) \o SubSeq(waiters, k + 1, Len(waiters))
               /\ UNCHANGED holder
      BY <2>2
    <3> QED
      BY ONLY TypeOK, <2>1, <3>1, RemovalMovesUp, r \in Requests
  <2> QED
    BY <2>1, <2>2, ReleaseMovesUp, StayMovesUp DEF Withdraw
<1>4. ASSUME NEW r \in Requests, Begin(r) \/ Timeout(r) \/ Serve(r) PROVE UNCHANGED mutex
  BY <1>4
     DEF Begin, Timeout, EndAttempt, Serve, ServeTarget, FailTarget, RefuseTarget, ServeChallenge,
         ServeLogin, RouterKeeps, client, mutex
<1>5. Expire \/ UNCHANGED vars => UNCHANGED mutex
  BY DEF Expire, client, vars, mutex
<1> QED
  BY <1>1, <1>2, <1>3, <1>4, <1>5, StayMovesUp DEF Next, Rest

(* The wait for the mutex is as short as the queue before it: it moves up at *)
(* every hand-over, wherever in it other calls are dropped.                  *)
THEOREM QueueMovesUp == Spec => [][MovesUp]_vars
<1>1. TypeOK /\ Exact /\ [Next]_vars => [MovesUp]_vars
  BY StepMovesUp
<1> QED
  BY <1>1, TypeCorrect, ExactInvariant, PTL DEF Spec

(* Somebody can always move.  A task has its next step before it, or an      *)
(* exchange under way, whose reply it handles when it comes and whose        *)
(* timeout takes it on when it does not; or it waits for the mutex, and then *)
(* the holder is such a task.                                                *)
CanRun(r) ==
  pc[r] \in {"ready", "retry", "answer", "publish", "body"} \/ (pc[r] = "lock" /\ holder = r)
Exchanging(r) ==
  /\ pc[r] \in Listening
  /\ \/ wire[r].phase = "request"
     \/ wire[r].phase = "reply" /\ (wire[r].status = "malformed" => pc[r] = "challenge")
NobodyStranded ==
  \A r \in Requests : pc[r] \notin {"idle", "done"} =>
    \E q \in Requests :
      (q = r \/ (pc[r] = "lock" /\ q = holder)) /\ (CanRun(q) \/ Exchanging(q))

(* Who listens has an exchange, and only /auth answers with a challenge that *)
(* cannot be used.                                                           *)
UnderWay ==
  \A r \in Requests :
    LET w == wire[r]
    IN /\ pc[r] \in Listening => w.phase # "quiet"
       /\ w.phase = "reply" /\ w.status = "malformed" => w.to = "challenge"

LEMMA UnderWayStep == ASSUME SessionTypes, UnderWay, [Next]_vars PROVE UnderWay'
<1> USE DEF UnderWay, SessionTypes, Listening
<1>1. ASSUME NEW r \in Requests, Begin(r) PROVE UnderWay'
  BY <1>1 DEF Begin, GoTo
<1>2. ASSUME NEW r \in Requests, Run(r) PROVE UnderWay'
  <2>1. CASE SendTarget(r) \/ SendRetry(r) \/ BeginAttempt(r) \/ SendLogin(r)
    <3>1. PICK step, to, cookie, answered :
            /\ pc' = [pc EXCEPT ![r] = step]
            /\ wire' = [wire EXCEPT ![r] = [phase |-> "request", to |-> to, cookie |-> cookie,
                                            challenge |-> answered, status |-> "ok"]]
      BY <2>1 DEF SendTarget, SendRetry, BeginAttempt, SendLogin, Transmit, GoTo
    <3> QED
      BY <3>1
  <2>2. CASE ReadBody(r) \/ ShareResult(r) \/ Publish(r)
    <3>1. wire' = wire /\ \E step \in {"retry", "done"} : pc' = [pc EXCEPT ![r] = step]
      BY <2>2 DEF ReadBody, ShareResult, Publish, Proceed, GoTo, Finish
    <3> QED
      BY <3>1
  <2> QED
    BY <1>2, <2>1, <2>2 DEF Run
<1>3. ASSUME NEW r \in Requests, Receive(r) PROVE UnderWay'
  <2>1. /\ wire' = [wire EXCEPT ![r] = Quiet]
        /\ \E step \in {"lock", "answer", "publish", "body", "done"} :
             pc' = [pc EXCEPT ![r] = step]
    BY <1>3
       DEF Receive, ReceiveTarget, ReceiveRetry, ReceiveChallenge, ReceiveLogin, Absorb,
           Deliver, EndAttempt, GoTo, Finish
  <2> QED
    BY <2>1 DEF Quiet
<1>4. ASSUME NEW r \in Requests, Timeout(r) \/ Cancel(r) PROVE UnderWay'
  <2>1. \E step \in {"done", "publish"} : pc' = [pc EXCEPT ![r] = step]
    BY <1>4 DEF Timeout, Cancel, EndAttempt, GoTo, Finish
  <2>2. wire' = wire \/ wire' = [wire EXCEPT ![r] = Quiet]
    BY <1>4 DEF Timeout, Cancel, Abandon
  <2> QED
    BY <2>1, <2>2 DEF Quiet
<1>5. ASSUME NEW r \in Requests, Serve(r) PROVE UnderWay'
  <2>1. PICK status, cookie, chal :
          Reply(r, status, cookie, chal) /\ (status = "malformed" => wire[r].to = "challenge")
    BY <1>5 DEF Serve, ServeTarget, FailTarget, RefuseTarget, ServeChallenge, ServeLogin
  <2>2. pc' = pc
    BY <1>5
       DEF Serve, ServeTarget, FailTarget, RefuseTarget, ServeChallenge, ServeLogin, RouterKeeps
  <2>3. CASE pc[r] \in Listening
    <3>1. wire' = [wire EXCEPT ![r] = [phase |-> "reply", to |-> wire[r].to, cookie |-> cookie,
                                       challenge |-> chal, status |-> status]]
      BY <2>1, <2>3 DEF Reply
    <3> QED
      BY <2>1, <2>2, <3>1
  <2>4. CASE pc[r] \notin Listening
    <3>1. wire' = [wire EXCEPT ![r] = Quiet]
      BY <2>1, <2>4 DEF Reply
    <3> QED
      BY <2>2, <2>4, <3>1 DEF Quiet
  <2> QED
    BY <2>3, <2>4
<1>6. CASE Expire \/ UNCHANGED vars
  BY <1>6 DEF Expire, vars
<1> QED
  BY <1>1, <1>2, <1>3, <1>4, <1>5, <1>6 DEF Next, Rest

(* A task that is neither queued nor outside can move. *)
LEMMA MoversMove ==
  ASSUME TypeOK, Matched, UnderWay, NEW r \in Requests, pc[r] \notin {"idle", "done"},
         pc[r] = "lock" => holder = r
  PROVE  CanRun(r) \/ Exchanging(r)
<1>1. pc[r] \in Steps /\ wire[r].phase \in {"quiet", "request", "reply"}
  BY DEF TypeOK
<1>2. CASE pc[r] \in Listening
  <2>1. wire[r].phase \in {"request", "reply"}
    BY <1>1, <1>2 DEF UnderWay
  <2>2. wire[r].to = IF pc[r] = "retried" THEN "target" ELSE pc[r]
    BY <1>2, <2>1 DEF Matched
  <2>3. wire[r].phase = "reply" /\ wire[r].status = "malformed" => pc[r] = "challenge"
    BY <2>2 DEF UnderWay
  <2> QED
    BY <1>2, <2>1, <2>3 DEF Exchanging
<1>3. CASE pc[r] \notin Listening
  BY <1>1, <1>3 DEF CanRun, Steps, Attempting, Awaiting, Listening
<1> QED
  BY <1>2, <1>3

(* No await is without an end: a reply nobody handles, an exchange that was  *)
(* never sent, or a lock held by a task that cannot move would be one.       *)
THEOREM NobodyIsStranded == Spec => []NobodyStranded
<1>1. TypeOK /\ Exact /\ Matched /\ UnderWay => NobodyStranded
  <2> SUFFICES ASSUME TypeOK, Exact, Matched, UnderWay, NEW r \in Requests,
                      pc[r] \notin {"idle", "done"}
               PROVE  \E q \in Requests :
                        /\ q = r \/ (pc[r] = "lock" /\ q = holder)
                        /\ CanRun(q) \/ Exchanging(q)
    BY DEF NobodyStranded
  <2>1. CASE pc[r] = "lock" => holder = r
    BY <2>1, MoversMove
  <2>2. CASE pc[r] = "lock" /\ holder # r
    <3>1. Queued(r)
      BY <2>2 DEF Exact, Inside
    <3>2. holder \in Requests
      <4>1. waiters # <<>>
        BY <3>1 DEF Queued
      <4> QED
        BY <4>1 DEF Exact, TypeOK
    <3>3. pc[holder] \notin {"idle", "done"}
      BY <3>2 DEF Exact, Inside, Attempting
    <3> QED
      BY <2>2, <3>2, <3>3, MoversMove
  <2> QED
    BY <2>1, <2>2
<1>2. Init => UnderWay
  BY DEF Init, UnderWay, Listening, Quiet
<1>3. TypeOK /\ UnderWay /\ [Next]_vars => UnderWay'
  BY TypesOfSession, UnderWayStep
<1>4. Session => Matched
  BY DEF Session
<1> QED
  BY <1>1, <1>2, <1>3, <1>4, TypeCorrect, ExactInvariant, SessionInvariant, PTL DEF Spec
=============================================================================

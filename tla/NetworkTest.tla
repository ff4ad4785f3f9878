---------------------------- MODULE NetworkTest ----------------------------
(***************************************************************************)
(* NetworkTestSession of src/client.rs: a network test is started by POST, *)
(* read by polling GETs and cancelled by DELETE.  The session has no       *)
(* identity on the router, which keeps the unread output of the endpoint.  *)
(*                                                                         *)
(* One session is followed from `start_network_test` to its end.  What a   *)
(* request's failure says of its execution is what RciPromise leaves open: *)
(* an abandoned request may be executed later, its reply read by nobody.   *)
(* The lines of output are numbered by the router in the order it prints   *)
(* them.                                                                   *)
(***************************************************************************)
EXTENDS Naturals, Sequences, Functions

CONSTANTS
  Interval,   \* NETWORK_TEST_POLL_INTERVAL, in ticks
  MaxLines,   \* bound: lines a test prints ("finite by construction")
  MaxStrays   \* bound: abandoned requests that still reach the router

ASSUME IntervalAssumption == Interval \in Nat \ {0}
ASSUME BoundsAssumption == MaxLines \in Nat /\ MaxStrays \in Nat

VARIABLES
  \* NetworkTestSession
  phase,       \* where the caller's use of the session is
  collecting,  \* is the reader collect() rather than next_chunk()?
  pending, continued,
  wait,        \* ticks until next_poll
  gathered,    \* the `lines` of collect()
  \* the exchange under way, and abandoned requests the router may yet execute
  wire, strays,
  \* the router's side of the endpoint
  running, produced, buffer,
  \* history
  delivered,   \* the lines handed to the caller, in order
  lost,        \* the lines drained from the router that the caller never gets
  silence,     \* ticks since the last reply of this session, up to Interval
  faulted,     \* has a request failed, or a future been dropped?
  fate         \* how the session ended

reading == <<pending, continued, wait, gathered>>
router == <<running, produced, buffer>>
vars == <<phase, collecting, pending, continued, wait, gathered, wire, strays,
          running, produced, buffer, delivered, lost, silence, faulted, fate>>

Methods == {"POST", "GET", "DELETE"}
Quiet == [phase |-> "quiet", method |-> "GET", message |-> <<>>, continued |-> FALSE]
Requesting == {"starting", "polling", "cancelling"}
Lines(first, last) == [i \in 1..(last - first + 1) |-> first + i - 1]

TypeOK ==
  /\ phase \in {"new", "open", "reading", "closed"} \cup Requesting
  /\ collecting \in BOOLEAN /\ continued \in BOOLEAN /\ running \in BOOLEAN
  /\ wait \in 0..Interval /\ silence \in 0..Interval
  /\ \A s \in {pending, gathered, buffer, delivered, wire.message} :
       s \in Seq(1..MaxLines)
  /\ wire.phase \in {"quiet", "request", "reply"} /\ wire.method \in Methods
  /\ strays \in [Methods -> 0..MaxStrays]
  /\ produced \in 0..MaxLines
  /\ lost \subseteq 1..MaxLines
  /\ faulted \in BOOLEAN
  /\ fate \in {"none", "complete", "cancelled", "failed", "dropped"}

Init ==
  /\ phase = "new" /\ collecting = FALSE
  /\ pending = <<>> /\ continued = FALSE /\ wait = 0 /\ gathered = <<>>
  /\ wire = Quiet /\ strays = [m \in Methods |-> 0]
  /\ running = FALSE /\ produced = 0 /\ buffer = <<>>
  /\ delivered = <<>> /\ lost = {} /\ silence = 0 /\ faulted = FALSE /\ fate = "none"

-----------------------------------------------------------------------------
(* Requests and replies *)

Request(m) == wire' = [Quiet EXCEPT !.phase = "request", !.method = m]

(* Mutant: the next poll is not put off. *)
TakeUnpaced(reply) ==
  /\ reply.phase = "reply"
  /\ pending' = reply.message
  /\ continued' = reply.continued
  /\ wait' = 0
  /\ silence' = 0
  /\ wire' = Quiet

(* Mutant: the timer is set one tick late. *)
TakeLate(reply) ==
  /\ reply.phase = "reply"
  /\ pending' = reply.message
  /\ continued' = reply.continued
  /\ wait' = Interval + 1
  /\ silence' = 0
  /\ wire' = Quiet

(* Mutant: a reply without the member `continued` continues. *)
TakeEndless(reply) ==
  /\ reply.phase = "reply"
  /\ pending' = reply.message
  /\ continued' = TRUE
  /\ wait' = Interval
  /\ silence' = 0
  /\ wire' = Quiet

(* into_parts(): an empty message is no output; presence decides `continued`. *)
Take(reply) ==
  /\ reply.phase = "reply"
  /\ pending' = reply.message
  /\ continued' = reply.continued
  /\ wait' = Interval
  /\ silence' = 0
  /\ wire' = Quiet

Start ==
  /\ phase = "new"
  /\ Request("POST")
  /\ phase' = "starting"
  /\ UNCHANGED <<collecting, reading, strays, router, delivered, lost, silence, faulted, fate>>

(* NetworkTestSession::new *)
Open ==
  /\ phase = "starting"
  /\ Take(wire)
  /\ phase' = "open"
  /\ UNCHANGED <<collecting, gathered, strays, router, delivered, lost, faulted, fate>>

-----------------------------------------------------------------------------
(* next_chunk() and collect() *)

Read ==
  /\ phase = "open"
  /\ phase' = "reading"
  /\ collecting' \in BOOLEAN
  /\ UNCHANGED <<reading, wire, strays, router, delivered, lost, silence, faulted, fate>>

(* A non-empty chunk is returned, or appended to what collect() returns. *)
ReadPending ==
  /\ phase = "reading" /\ pending # <<>>
  /\ pending' = <<>>
  /\ IF collecting
     THEN gathered' = gathered \o pending /\ UNCHANGED <<phase, delivered>>
     ELSE delivered' = delivered \o pending /\ phase' = "open" /\ UNCHANGED gathered
  /\ UNCHANGED <<collecting, continued, wait, wire, strays, router, lost, silence,
                 faulted, fate>>

(* Mutant: an empty buffer is taken for the end of the output. *)
ReadEndEarly ==
  /\ phase = "reading" /\ pending = <<>>
  /\ delivered' = delivered \o gathered /\ gathered' = <<>>
  /\ phase' = IF collecting THEN "closed" ELSE "open"
  /\ fate' = "complete"
  /\ UNCHANGED <<collecting, pending, continued, wait, wire, strays, router, lost,
                 silence, faulted>>

(* next_chunk() returns None, collect() what it has gathered. *)
ReadEnd ==
  /\ phase = "reading" /\ pending = <<>> /\ ~continued
  /\ delivered' = delivered \o gathered /\ gathered' = <<>>
  /\ phase' = IF collecting THEN "closed" ELSE "open"
  /\ fate' = "complete"
  /\ UNCHANGED <<collecting, pending, continued, wait, wire, strays, router, lost,
                 silence, faulted>>

(* sleep_until(next_poll), then the GET *)
Poll ==
  /\ phase = "reading" /\ pending = <<>> /\ continued /\ wait = 0
  /\ Request("GET")
  /\ phase' = "polling"
  /\ UNCHANGED <<collecting, reading, strays, router, delivered, lost, silence, faulted, fate>>

ReceivePoll ==
  /\ phase = "polling"
  /\ Take(wire)
  /\ phase' = "reading"
  /\ UNCHANGED <<collecting, gathered, strays, router, delivered, lost, faulted, fate>>

Tick ==
  /\ wait > 0
  /\ wait' = wait - 1
  /\ silence' = IF silence < Interval THEN silence + 1 ELSE silence
  /\ UNCHANGED <<phase, collecting, pending, continued, gathered, wire, strays, router,
                 delivered, lost, faulted, fate>>

-----------------------------------------------------------------------------
(* cancel(), failures and drops *)

(* Mutant: an active command is left running. *)
CancelSilently ==
  /\ phase = "open"
  /\ phase' = "closed" /\ fate' = "cancelled"
  /\ delivered' = delivered \o pending /\ pending' = <<>>
  /\ UNCHANGED <<collecting, continued, wait, gathered, wire, strays, router, lost, silence,
                 faulted>>

(* Mutant: the output still unread is not kept while the DELETE is awaited. *)
CancelForgetful ==
  /\ phase = "open"
  /\ pending' = <<>>
  /\ IF continued
     THEN Request("DELETE") /\ phase' = "cancelling" /\ UNCHANGED <<delivered, fate>>
     ELSE /\ phase' = "closed" /\ fate' = "cancelled"
          /\ delivered' = delivered \o pending
          /\ UNCHANGED wire
  /\ UNCHANGED <<collecting, continued, wait, gathered, strays, router, lost, silence, faulted>>

Cancel ==
  /\ phase = "open"
  /\ IF continued
     THEN /\ Request("DELETE") /\ phase' = "cancelling"
          /\ UNCHANGED <<pending, delivered, fate>>
     ELSE /\ phase' = "closed" /\ fate' = "cancelled"
          /\ delivered' = delivered \o pending /\ pending' = <<>>
          /\ UNCHANGED wire
  /\ UNCHANGED <<collecting, continued, wait, gathered, strays, router, lost, silence, faulted>>

(* Mutant: the output of the DELETE is put first. *)
ReceiveCancelFirst ==
  /\ phase = "cancelling" /\ wire.phase = "reply"
  /\ delivered' = delivered \o wire.message \o pending /\ pending' = <<>>
  /\ phase' = "closed" /\ fate' = "cancelled"
  /\ wire' = Quiet
  /\ UNCHANGED <<collecting, continued, wait, gathered, strays, router, lost, silence, faulted>>

(* The output of the DELETE follows what was unread. *)
ReceiveCancel ==
  /\ phase = "cancelling" /\ wire.phase = "reply"
  /\ delivered' = delivered \o pending \o wire.message /\ pending' = <<>>
  /\ phase' = "closed" /\ fate' = "cancelled"
  /\ wire' = Quiet
  /\ UNCHANGED <<collecting, continued, wait, gathered, strays, router, lost, silence, faulted>>

(* Lines the session held, or a reply carried, when it was given up. *)
Forget(lines) == lost' = lost \cup UNION {Range(s) : s \in lines}

(* The exchange under way is given up: its request arrives later, or never. *)
Abandon ==
  /\ \/ UNCHANGED strays
     \/ /\ wire.phase = "request"
        /\ \A m \in Methods : strays[m] < MaxStrays
        /\ strays' = [strays EXCEPT ![wire.method] = @ + 1]
  /\ wire' = Quiet

(* A request fails, or the future awaiting it is dropped.  The session       *)
(* outlives next_chunk() only; collect() and cancel() have consumed it.      *)
Fail ==
  /\ phase \in Requesting
  /\ faulted' = TRUE
  /\ Abandon
  /\ IF phase = "polling" /\ ~collecting
     THEN /\ phase' = "open"
          /\ Forget({wire.message})
          /\ UNCHANGED <<pending, gathered, fate>>
     ELSE /\ phase' = "closed" /\ fate' = "failed"
          /\ Forget({wire.message, pending, gathered})
          /\ pending' = <<>> /\ gathered' = <<>>
  /\ UNCHANGED <<collecting, continued, wait, router, delivered, silence>>

(* The future of a reader is dropped while it sleeps. *)
Interrupt ==
  /\ phase = "reading" /\ pending = <<>> /\ continued
  /\ faulted' = TRUE
  /\ IF collecting
     THEN phase' = "closed" /\ fate' = "dropped" /\ Forget({gathered}) /\ gathered' = <<>>
     ELSE phase' = "open" /\ UNCHANGED <<fate, lost, gathered>>
  /\ UNCHANGED <<collecting, pending, continued, wait, wire, strays, router, delivered, silence>>

(* Dropping the session sends nothing. *)
Drop ==
  /\ phase = "open"
  /\ phase' = "closed" /\ fate' = "dropped"
  /\ Forget({pending}) /\ pending' = <<>>
  /\ UNCHANGED <<collecting, continued, wait, gathered, wire, strays, router, delivered,
                 silence, faulted>>

-----------------------------------------------------------------------------
(* The router: the test prints lines, and a reply drains those unread.       *)

PrintLine ==
  /\ running /\ produced < MaxLines
  /\ produced' = produced + 1
  /\ buffer' = Append(buffer, produced')
  /\ UNCHANGED <<phase, collecting, reading, wire, strays, running, delivered, lost,
                 silence, faulted, fate>>

End ==
  /\ running /\ running' = FALSE
  /\ UNCHANGED <<phase, collecting, reading, wire, strays, produced, buffer, delivered,
                 lost, silence, faulted, fate>>

(* Method m is executed and answered with `message`. *)
Execute(m, message, more) ==
  \/ /\ m = "POST"
     /\ produced' = Len(message) /\ running' = more
     /\ UNCHANGED buffer
  \/ /\ m = "GET"
     /\ message = buffer /\ more = running
     /\ buffer' = <<>>
     /\ UNCHANGED <<running, produced>>
  \/ /\ m = "DELETE"
     /\ message = buffer /\ ~more
     /\ buffer' = <<>> /\ running' = FALSE
     /\ UNCHANGED produced

Messages(m) ==
  IF m = "POST" THEN {Lines(1, n) : n \in 0..MaxLines} ELSE {buffer}

Serve ==
  /\ wire.phase = "request"
  /\ \E message \in Messages(wire.method), more \in BOOLEAN :
       /\ Execute(wire.method, message, more)
       /\ wire' = [wire EXCEPT !.phase = "reply", !.message = message, !.continued = more]
  /\ UNCHANGED <<phase, collecting, reading, strays, delivered, lost, silence, faulted, fate>>

ServeStray ==
  \E m \in Methods :
    /\ strays[m] > 0
    /\ strays' = [strays EXCEPT ![m] = @ - 1]
    /\ \E message \in Messages(m), more \in BOOLEAN :
         Execute(m, message, more) /\ Forget({message})
    /\ UNCHANGED <<phase, collecting, reading, wire, delivered, silence, faulted, fate>>

-----------------------------------------------------------------------------
Closed == phase = "closed" /\ UNCHANGED vars

Next ==
  \/ Start \/ Open \/ Read \/ ReadPending \/ ReadEnd \/ Poll \/ ReceivePoll \/ Tick
  \/ Cancel \/ ReceiveCancel \/ Fail \/ Interrupt \/ Drop
  \/ PrintLine \/ End \/ Serve \/ ServeStray \/ Closed

Spec == Init /\ [][Next]_vars

(* The task is polled, its timer fires and request_timeout ends what the     *)
(* router does not answer; "every supported request is finite", so a test    *)
(* ends.  The router owes no answer, the caller no call.                     *)
Fairness ==
  /\ WF_vars(Open \/ ReadPending \/ ReadEnd \/ Poll \/ ReceivePoll \/ ReceiveCancel \/ Fail)
  /\ WF_vars(Tick)
  /\ WF_vars(End)

FairSpec == Spec /\ Fairness

-----------------------------------------------------------------------------
(* Properties *)

(* Every line the router printed is somewhere, and lines are lost only after *)
(* a failed request, a dropped future or a dropped session.                  *)
Accounted ==
  /\ lost \cup UNION {Range(s) : s \in {delivered, gathered, pending, wire.message, buffer}}
       = 1..produced
  /\ ~faulted /\ fate # "dropped" => lost = {}

(* When next_chunk() returns None, or collect() returns, the test is over    *)
(* and the caller has all of its output but what was lost.                   *)
CompleteMeansAll ==
  fate = "complete" => ~running /\ Range(delivered) \cup lost = 1..produced

(* Only a failure or a drop leaves a test running that nobody reads.         *)
Stopped == fate \in {"complete", "cancelled"} => ~running

(* The router is not polled within the interval after one of its replies.    *)
PollsAreSpaced ==
  [][phase = "reading" /\ phase' = "polling" => silence = Interval]_vars

(* What the caller gets is a stream: in order, without repetition, in chunks *)
(* that are not empty, with an end.                                          *)
Output == INSTANCE TestOutput WITH over <- fate # "none"
IsStream == Output!Spec

(* next_chunk() and collect() return, however many empty replies they hide.  *)
ReadReturns == phase = "reading" ~> phase \in {"open", "closed"}
=============================================================================

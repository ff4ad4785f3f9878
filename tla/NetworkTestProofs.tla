-------------------------- MODULE NetworkTestProofs --------------------------
(***************************************************************************)
(* What NetworkTest promises of a session, proved for any number of lines, *)
(* any poll interval and any number of abandoned requests.                 *)
(*                                                                         *)
(* The lines of a test are in six places: handed over, gathered, pending,  *)
(* in a reply, unread on the router, or lost.  The invariant says that the *)
(* first five are one ascending stream (Streamed) which with the lost ones *)
(* is all that was printed (Printed), and that whoever was told that the   *)
(* test is over was told the truth (Ending).                               *)
(***************************************************************************)
EXTENDS NetworkTest, TLAPS

-----------------------------------------------------------------------------
(* Sequences of lines *)

Increasing(s) == \A i, j \in 1..Len(s) : i < j => s[i] < s[j]
Before(s, t) == \A x \in Range(s), y \in Range(t) : x < y

LEMMA RangeOfEmpty == Range(<<>>) = {} /\ Increasing(<<>>)
  BY DEF Range, Increasing

LEMMA EmptyByRange == ASSUME NEW S, NEW s \in Seq(S), Range(s) = {} PROVE s = <<>>
<1>1. ASSUME s # <<>> PROVE s[1] \in Range(s)
  <2>1. 1 \in DOMAIN s
    BY <1>1
  <2> QED
    BY <2>1 DEF Range
<1> QED
  BY <1>1

LEMMA RangeWithin == ASSUME NEW S, NEW s \in Seq(S) PROVE Range(s) \subseteq S
  BY DEF Range

LEMMA InRange == ASSUME NEW S, NEW s \in Seq(S), NEW i \in 1..Len(s) PROVE s[i] \in Range(s)
  BY DEF Range

LEMMA RangeOfConcat ==
  ASSUME NEW S, NEW s \in Seq(S), NEW t \in Seq(S)
  PROVE  Range(s \o t) = Range(s) \cup Range(t)
<1>1. /\ s \o t \in Seq(S) /\ Len(s) \in Nat /\ Len(t) \in Nat /\ Len(s \o t) = Len(s) + Len(t)
      /\ DOMAIN s = 1..Len(s) /\ DOMAIN t = 1..Len(t) /\ DOMAIN (s \o t) = 1..(Len(s) + Len(t))
      /\ \A i \in 1..(Len(s) + Len(t)) : (s \o t)[i] = IF i <= Len(s) THEN s[i] ELSE t[i - Len(s)]
  OBVIOUS
<1>2. ASSUME NEW i \in DOMAIN (s \o t) PROVE (s \o t)[i] \in Range(s) \cup Range(t)
  <2>1. CASE i <= Len(s)
    BY <1>1, <2>1 DEF Range
  <2>2. CASE i > Len(s)
    <3>1. i - Len(s) \in DOMAIN t /\ (s \o t)[i] = t[i - Len(s)]
      BY <1>1, <2>2
    <3> QED
      BY <3>1 DEF Range
  <2> QED
    BY <1>1, <2>1, <2>2
<1>3. ASSUME NEW i \in DOMAIN s PROVE s[i] \in Range(s \o t)
  BY <1>1 DEF Range
<1>4. ASSUME NEW i \in DOMAIN t PROVE t[i] \in Range(s \o t)
  <2>1. i + Len(s) \in DOMAIN (s \o t) /\ (s \o t)[i + Len(s)] = t[i]
    BY <1>1
  <2> QED
    BY <2>1 DEF Range
<1> QED
  BY <1>2, <1>3, <1>4 DEF Range

LEMMA IncreasingConcat ==
  ASSUME NEW S, S \subseteq Nat, NEW s \in Seq(S), NEW t \in Seq(S),
         Increasing(s), Increasing(t), Before(s, t)
  PROVE  Increasing(s \o t)
<1>1. /\ Len(s) \in Nat /\ Len(t) \in Nat /\ Len(s \o t) = Len(s) + Len(t)
      /\ \A i \in 1..(Len(s) + Len(t)) : (s \o t)[i] = IF i <= Len(s) THEN s[i] ELSE t[i - Len(s)]
  OBVIOUS
<1> SUFFICES ASSUME NEW i \in 1..Len(s \o t), NEW j \in 1..Len(s \o t), i < j
             PROVE  (s \o t)[i] < (s \o t)[j]
  BY DEF Increasing
<1>2. CASE j <= Len(s)
  <2>1. i \in 1..Len(s) /\ j \in 1..Len(s) /\ (s \o t)[i] = s[i] /\ (s \o t)[j] = s[j]
    BY <1>1, <1>2
  <2> QED
    BY <2>1 DEF Increasing
<1>3. CASE i <= Len(s) /\ j > Len(s)
  <2>1. /\ i \in 1..Len(s) /\ j - Len(s) \in 1..Len(t)
        /\ (s \o t)[i] = s[i] /\ (s \o t)[j] = t[j - Len(s)]
    BY <1>1, <1>3
  <2>2. s[i] \in Range(s) /\ t[j - Len(s)] \in Range(t)
    BY <2>1, InRange
  <2> QED
    BY <2>1, <2>2 DEF Before
<1>4. CASE i > Len(s)
  <2>1. /\ i - Len(s) \in 1..Len(t) /\ j - Len(s) \in 1..Len(t) /\ i - Len(s) < j - Len(s)
        /\ (s \o t)[i] = t[i - Len(s)] /\ (s \o t)[j] = t[j - Len(s)]
    BY <1>1, <1>4
  <2> QED
    BY <2>1 DEF Increasing
<1> QED
  BY <1>1, <1>2, <1>3, <1>4

LEMMA LinesFromOne ==
  ASSUME NEW n \in 0..MaxLines
  PROVE  /\ Lines(1, n) \in Seq(1..MaxLines) /\ Len(Lines(1, n)) = n
         /\ Range(Lines(1, n)) = 1..n /\ Increasing(Lines(1, n))
<1>1. Lines(1, n) = [i \in 1..n |-> i] /\ n \in Nat
  BY BoundsAssumption DEF Lines
<1> QED
  BY <1>1, BoundsAssumption DEF Range, Increasing

-----------------------------------------------------------------------------
(* The invariant *)

Phases == {"new", "open", "reading", "closed"} \cup Requesting
LineSeqs == Seq(1..MaxLines)
Wires ==
  [phase: {"quiet", "request", "reply"}, method: Methods, message: LineSeqs, continued: BOOLEAN]

Types ==
  /\ phase \in Phases
  /\ collecting \in BOOLEAN /\ continued \in BOOLEAN /\ running \in BOOLEAN
  /\ wait \in 0..Interval /\ silence \in 0..Interval
  /\ pending \in LineSeqs /\ gathered \in LineSeqs /\ buffer \in LineSeqs
  /\ delivered \in LineSeqs /\ wire \in Wires
  /\ strays \in [Methods -> 0..MaxStrays]
  /\ produced \in 0..MaxLines /\ lost \subseteq 1..MaxLines
  /\ faulted \in BOOLEAN
  /\ fate \in {"none", "complete", "cancelled", "failed", "dropped"}

MethodOf == [p \in Requesting |->
  CASE p = "starting" -> "POST" [] p = "polling" -> "GET" [] OTHER -> "DELETE"]

(* What each phase holds, and which requests are under way in it. *)
Coherent ==
  /\ phase \in Requesting <=> wire.phase # "quiet"
  /\ phase \in Requesting => wire.method = MethodOf[phase]
  /\ wire.phase # "reply" => wire.message = <<>>
  /\ gathered # <<>> => collecting /\ phase \in {"reading", "polling"}
  /\ pending # <<>> => phase \in {"open", "reading", "cancelling"}
  /\ phase \in {"polling", "cancelling"} => continued

(* Nothing was printed before a POST is executed, and only one is sent. *)
Unstarted ==
  /\ \/ phase = "new" \/ (phase = "starting" /\ wire.phase = "request") \/ strays["POST"] > 0
     => produced = 0 /\ ~running /\ buffer = <<>>
  /\ phase \in {"new", "starting"} => strays["POST"] = 0
  /\ strays["POST"] > 0 => strays["POST"] = 1 /\ fate = "failed"
  /\ \A m \in Methods : strays[m] > 0 => faulted

Silent == ~running /\ buffer = <<>>

(* The end a session knows of, or was told of, is the end of the test. *)
Ending ==
  /\ phase \in {"open", "reading"} /\ ~continued => Silent
  /\ wire.phase = "reply" /\ (wire.method = "DELETE" \/ ~wire.continued) => Silent
  /\ fate = "none" <=> phase # "closed" /\ fate # "complete"
  /\ fate = "complete" =>
       /\ ~continued /\ pending = <<>> /\ gathered = <<>> /\ Silent
       /\ phase \in {"open", "reading", "closed"}
  /\ fate = "cancelled" => ~running

Printed ==
  /\ lost \cup Range(delivered) \cup Range(gathered) \cup Range(pending)
       \cup Range(wire.message) \cup Range(buffer) = 1..produced
  /\ ~faulted /\ fate # "dropped" => lost = {}

Streamed ==
  /\ Increasing(delivered) /\ Increasing(gathered) /\ Increasing(pending)
  /\ Increasing(wire.message) /\ Increasing(buffer)
  /\ Before(delivered, gathered) /\ Before(delivered, pending)
  /\ Before(delivered, wire.message) /\ Before(delivered, buffer)
  /\ Before(gathered, pending) /\ Before(gathered, wire.message) /\ Before(gathered, buffer)
  /\ Before(pending, wire.message) /\ Before(pending, buffer)
  /\ Before(wire.message, buffer)

Spaced == phase \in {"open", "reading", "polling", "cancelling"} => wait + silence >= Interval

Inv == Types /\ Coherent /\ Unstarted /\ Ending /\ Printed /\ Streamed /\ Spaced

-----------------------------------------------------------------------------
LEMMA Associative == \A s, t, u \in LineSeqs : (s \o t) \o u = s \o (t \o u)
  BY DEF LineSeqs

LEMMA EmptyType == <<>> \in LineSeqs
  BY DEF LineSeqs

LEMMA QuietType ==
  /\ Quiet \in Wires
  /\ \A m \in Methods : [Quiet EXCEPT !.phase = "request", !.method = m] \in Wires
<1>1. FALSE \in BOOLEAN /\ "GET" \in Methods
  BY DEF Methods
<1>2. Quiet \in Wires
  BY <1>1, EmptyType, Zenon DEF Quiet, Wires
<1>3. ASSUME NEW m \in Methods
      PROVE  [Quiet EXCEPT !.phase = "request", !.method = m] \in Wires
  BY <1>2 DEF Wires
<1> QED
  BY <1>2, <1>3

LEMMA Initially == Init => Inv
<1> SUFFICES ASSUME Init PROVE Inv
  OBVIOUS
<1> USE BoundsAssumption, IntervalAssumption DEF Init
<1>1. Types
  <2>1. 0 \in 0..Interval /\ 0 \in 0..MaxLines /\ strays \in [Methods -> 0..MaxStrays]
    OBVIOUS
  <2> QED
    BY <2>1, EmptyType, QuietType DEF Types, Phases
<1> USE DEF Quiet, Requesting, Methods
<1>2. Coherent /\ Unstarted /\ Ending
  BY DEF Coherent, Unstarted, Ending
<1>3. Printed /\ Streamed
  BY RangeOfEmpty DEF Printed, Streamed, Before
<1>4. Spaced
  BY DEF Spaced
<1> QED
  BY <1>1, <1>2, <1>3, <1>4 DEF Inv

LEMMA ConcatType == \A s, t \in LineSeqs : s \o t \in LineSeqs
  BY DEF LineSeqs

LEMMA ForgetType == \A S \in SUBSET LineSeqs : UNION {Range(s) : s \in S} \subseteq 1..MaxLines
  BY RangeWithin DEF LineSeqs

LEMMA MessageType ==
  ASSUME Types, NEW m \in Methods, NEW message \in Messages(m)
  PROVE  message \in LineSeqs
  BY LinesFromOne DEF Messages, LineSeqs, Types

LEMMA ExecuteType ==
  ASSUME Types, NEW m \in Methods, NEW message \in Messages(m), NEW more \in BOOLEAN,
         Execute(m, message, more)
  PROVE  buffer' \in LineSeqs /\ running' \in BOOLEAN /\ produced' \in 0..MaxLines
<1>1. CASE m = "POST"
  <2>1. PICK n \in 0..MaxLines : message = Lines(1, n)
    BY <1>1 DEF Messages
  <2> QED
    BY <1>1, <2>1, LinesFromOne DEF Execute, Types
<1>2. CASE m # "POST"
  BY <1>2, EmptyType DEF Execute, Types
<1> QED
  BY <1>1, <1>2

LEMMA TypesKept == ASSUME Types, [Next]_vars PROVE Types'
<1> USE DEF Types, reading, router
<1>1. /\ \A p \in Requesting : p \in Phases
      /\ {"new", "open", "reading", "closed"} \subseteq Phases
      /\ {"starting", "polling", "cancelling"} \subseteq Requesting
      /\ <<>> \in LineSeqs /\ 0 \in 0..Interval /\ Interval \in 0..Interval /\ Interval \in Nat
      /\ wire.message \in LineSeqs /\ wire.continued \in BOOLEAN /\ wire.method \in Methods
  BY IntervalAssumption DEF Phases, LineSeqs, Requesting, Wires
<1>2. Quiet \in Wires /\ \A m \in Methods : [Quiet EXCEPT !.phase = "request", !.method = m] \in Wires
  BY QuietType
<1>3. Methods = {"POST", "GET", "DELETE"}
  BY DEF Methods
<1>4. CASE Start \/ Poll
  BY <1>1, <1>2, <1>3, <1>4 DEF Start, Poll, Request
<1>5. CASE Open \/ ReceivePoll
  BY <1>1, <1>2, <1>5 DEF Open, ReceivePoll, Take
<1>6. CASE Read
  BY <1>1, <1>6 DEF Read
<1>7. CASE ReadPending \/ ReadEnd
  BY <1>1, <1>7, ConcatType DEF ReadPending, ReadEnd
<1>8. CASE Tick
  <2>1. wait' \in 0..Interval /\ silence' \in 0..Interval
    BY <1>1, <1>8 DEF Tick
  <2> QED
    BY <1>8, <2>1 DEF Tick
<1>9. CASE Cancel \/ ReceiveCancel
  <2>1. CASE Cancel
    BY <1>1, <1>2, <1>3, <2>1, ConcatType DEF Cancel, Request
  <2>2. CASE ReceiveCancel
    BY <1>1, <1>2, <2>2, ConcatType DEF ReceiveCancel
  <2> QED
    BY <1>9, <2>1, <2>2
<1>10. CASE Fail
  <2>1. lost' \subseteq 1..MaxLines
    BY <1>1, <1>10, ForgetType DEF Fail, Forget
  <2>2. strays' \in [Methods -> 0..MaxStrays] /\ wire' \in Wires
    <3>1. ASSUME NEW n \in 0..MaxStrays, n < MaxStrays PROVE n + 1 \in 0..MaxStrays
      BY <3>1, BoundsAssumption
    <3>2. \/ UNCHANGED strays
          \/ strays[wire.method] < MaxStrays
             /\ strays' = [strays EXCEPT ![wire.method] = @ + 1]
      BY <1>1, <1>10 DEF Fail, Abandon
    <3>3. strays' \in [Methods -> 0..MaxStrays]
      BY <1>1, <3>1, <3>2
    <3> QED
      BY <1>2, <1>10, <3>3 DEF Fail, Abandon
  <2>3. phase' \in Phases /\ fate' \in {fate, "failed"} /\ faulted' = TRUE
    BY <1>1, <1>10 DEF Fail
  <2>4. pending' \in {pending, <<>>} /\ gathered' \in {gathered, <<>>}
    BY <1>10 DEF Fail
  <2>5. UNCHANGED <<collecting, continued, wait, router, delivered, silence>>
    BY <1>10 DEF Fail
  <2> QED
    BY <1>1, <2>1, <2>2, <2>3, <2>4, <2>5
<1>11. CASE Interrupt \/ Drop
  <2>1. lost' \subseteq 1..MaxLines
    BY <1>1, <1>11, ForgetType DEF Interrupt, Drop, Forget
  <2> QED
    BY <1>1, <1>11, <2>1 DEF Interrupt, Drop
<1>12. CASE PrintLine
  <2>1. produced' \in 0..MaxLines /\ produced' \in 1..MaxLines
    BY <1>12, BoundsAssumption DEF PrintLine
  <2>2. buffer' \in LineSeqs
    BY <1>12, <2>1 DEF PrintLine, LineSeqs
  <2> QED
    BY <1>12, <2>1, <2>2 DEF PrintLine
<1>13. CASE End
  BY <1>13 DEF End
<1>14. CASE Serve
  <2>1. PICK message \in Messages(wire.method), more \in BOOLEAN :
          /\ Execute(wire.method, message, more)
          /\ wire' = [wire EXCEPT !.phase = "reply", !.message = message, !.continued = more]
    BY <1>14 DEF Serve
  <2>2. message \in LineSeqs
    BY <1>1, MessageType
  <2>3. wire' \in Wires
    BY <2>1, <2>2 DEF Wires
  <2>4. buffer' \in LineSeqs /\ running' \in BOOLEAN /\ produced' \in 0..MaxLines
    BY <1>1, <2>1, ExecuteType
  <2> QED
    BY <1>14, <2>3, <2>4 DEF Serve
<1>15. CASE ServeStray
  <2>1. PICK m \in Methods :
          /\ strays[m] > 0 /\ strays' = [strays EXCEPT ![m] = @ - 1]
          /\ \E message \in Messages(m), more \in BOOLEAN :
               Execute(m, message, more) /\ Forget({message})
          /\ UNCHANGED <<phase, collecting, reading, wire, delivered, silence, faulted, fate>>
    BY <1>15 DEF ServeStray
  <2>2. PICK message \in Messages(m), more \in BOOLEAN :
          Execute(m, message, more) /\ Forget({message})
    BY <2>1
  <2>3. message \in LineSeqs
    BY MessageType
  <2>4. buffer' \in LineSeqs /\ running' \in BOOLEAN /\ produced' \in 0..MaxLines
    BY <2>2, ExecuteType
  <2>5. lost' \subseteq 1..MaxLines
    <3>1. {message} \in SUBSET LineSeqs /\ lost \subseteq 1..MaxLines
      BY <2>3
    <3>2. UNION {Range(s) : s \in {message}} \subseteq 1..MaxLines
      BY <3>1, ForgetType, Zenon
    <3> QED
      BY <2>2, <3>1, <3>2 DEF Forget
  <2>6. strays' \in [Methods -> 0..MaxStrays]
    BY <2>1, BoundsAssumption
  <2> QED
    BY <2>1, <2>4, <2>5, <2>6
<1>16. CASE UNCHANGED vars
  BY <1>16 DEF vars
<1> QED
  BY <1>4, <1>5, <1>6, <1>7, <1>8, <1>9, <1>10, <1>11, <1>12, <1>13, <1>14, <1>15, <1>16
     DEF Next, Closed

-----------------------------------------------------------------------------
(* The phases, the requests under way and the ends *)

LEMMA WireFields ==
  /\ Quiet.phase = "quiet" /\ Quiet.message = <<>>
  /\ \A m : Request(m) => /\ wire'.phase = "request" /\ wire'.method = m
                          /\ wire'.message = <<>>
  /\ \A w \in Wires : \A message, more :
       LET v == [w EXCEPT !.phase = "reply", !.message = message, !.continued = more]
       IN v.phase = "reply" /\ v.method = w.method /\ v.message = message /\ v.continued = more
  /\ \A w \in Wires : w.phase \in {"quiet", "request", "reply"}
  BY DEF Quiet, Wires, Request

Control == Coherent /\ Unstarted /\ Ending

LEMMA ControlKept == ASSUME Types, Control, [Next]_vars PROVE Control'
<1> USE DEF Control, Coherent, Unstarted, Ending, Silent, reading, router, MethodOf
<1>1. /\ Requesting = {"starting", "polling", "cancelling"} /\ Methods = {"POST", "GET", "DELETE"}
      /\ Phases = {"new", "open", "reading", "closed", "starting", "polling", "cancelling"}
  BY DEF Requesting, Methods, Phases
<1>2. /\ phase \in Phases /\ wire \in Wires /\ wire.phase \in {"quiet", "request", "reply"}
      /\ continued \in BOOLEAN /\ running \in BOOLEAN /\ faulted \in BOOLEAN /\ wire.continued \in BOOLEAN
      /\ strays \in [Methods -> 0..MaxStrays] /\ \A m \in Methods : strays[m] \in Nat
      /\ fate \in {"none", "complete", "cancelled", "failed", "dropped"}
  BY BoundsAssumption DEF Types, Wires
<1>3. CASE Start
  BY <1>1, <1>2, <1>3, WireFields DEF Start
<1>4. CASE Open
  BY <1>1, <1>2, <1>4, WireFields DEF Open, Take
<1>5. CASE Read
  BY <1>1, <1>2, <1>5 DEF Read
<1>6. CASE ReadPending
  BY <1>1, <1>2, <1>6 DEF ReadPending
<1>7. CASE ReadEnd
  BY <1>1, <1>2, <1>7 DEF ReadEnd
<1>8. CASE Poll
  BY <1>1, <1>2, <1>8, WireFields DEF Poll
<1>9. CASE ReceivePoll
  BY <1>1, <1>2, <1>9, WireFields DEF ReceivePoll, Take
<1>10. CASE Tick
  BY <1>1, <1>2, <1>10 DEF Tick
<1>11. CASE Cancel
  <2>1. CASE continued
    <3>1. /\ phase = "open" /\ phase' = "cancelling" /\ Request("DELETE")
          /\ UNCHANGED <<pending, fate, collecting, continued, gathered, strays, running, produced,
                         buffer, faulted>>
      BY <1>11, <2>1 DEF Cancel
    <3>2. wire'.phase = "request" /\ wire'.method = "DELETE" /\ wire'.message = <<>>
      BY <3>1, WireFields
    <3>3. fate = "none"
      BY <1>2, <2>1, <3>1
    <3>4. Coherent'
      BY <1>1, <1>2, <2>1, <3>1, <3>2, <3>3
    <3>5. Unstarted'
      BY <1>1, <1>2, <2>1, <3>1, <3>2, <3>3
    <3>6. Ending'
      BY <1>1, <1>2, <2>1, <3>1, <3>2, <3>3
    <3> QED
      BY <3>4, <3>5, <3>6
  <2>2. CASE ~continued
    BY <1>1, <1>2, <1>11, <2>2, WireFields DEF Cancel
  <2> QED
    BY <2>1, <2>2
<1>12. CASE ReceiveCancel
  BY <1>1, <1>2, <1>12, WireFields DEF ReceiveCancel
<1>13. CASE Fail
  BY <1>1, <1>2, <1>13, WireFields DEF Fail, Abandon
<1>14. CASE Interrupt
  BY <1>1, <1>2, <1>14 DEF Interrupt
<1>15. CASE Drop
  BY <1>1, <1>2, <1>15 DEF Drop
<1>16. CASE PrintLine
  BY <1>1, <1>2, <1>16 DEF PrintLine
<1>17. CASE End
  BY <1>1, <1>2, <1>17 DEF End
<1>18. CASE Serve
  <2>1. PICK message \in Messages(wire.method), more \in BOOLEAN :
          /\ Execute(wire.method, message, more)
          /\ wire' = [wire EXCEPT !.phase = "reply", !.message = message, !.continued = more]
    BY <1>18 DEF Serve
  <2> QED
    BY <1>1, <1>2, <1>18, <2>1, WireFields DEF Serve, Execute
<1>19. CASE ServeStray
  <2>1. PICK m \in Methods :
          /\ strays[m] > 0 /\ strays' = [strays EXCEPT ![m] = @ - 1]
          /\ \E message \in Messages(m), more \in BOOLEAN :
               Execute(m, message, more) /\ Forget({message})
          /\ UNCHANGED <<phase, collecting, reading, wire, delivered, silence, faulted, fate>>
    BY <1>19 DEF ServeStray
  <2>2. PICK message \in Messages(m), more \in BOOLEAN : Execute(m, message, more)
    BY <2>1
  <2> QED
    BY <1>1, <1>2, <2>1, <2>2 DEF Execute
<1>20. CASE UNCHANGED vars
  BY <1>20 DEF vars
<1> QED
  BY <1>3, <1>4, <1>5, <1>6, <1>7, <1>8, <1>9, <1>10, <1>11, <1>12, <1>13, <1>14, <1>15, <1>16,
     <1>17, <1>18, <1>19, <1>20 DEF Next, Closed

-----------------------------------------------------------------------------
(* The lines *)

LEMMA Moved ==
  /\ Range(<<>>) = {} /\ Increasing(<<>>)
  /\ \A s \in LineSeqs : Range(s) \subseteq Nat
  /\ \A s, t \in LineSeqs : Range(s \o t) = Range(s) \cup Range(t)
  /\ \A s, t \in LineSeqs :
       Increasing(s) /\ Increasing(t) /\ Before(s, t) => Increasing(s \o t)
<1>1. 1..MaxLines \subseteq Nat
  OBVIOUS
<1>2. \A s \in LineSeqs : Range(s) \subseteq Nat
  BY <1>1, RangeWithin DEF LineSeqs
<1>3. \A s, t \in LineSeqs : Range(s \o t) = Range(s) \cup Range(t)
  BY RangeOfConcat DEF LineSeqs
<1>4. \A s, t \in LineSeqs :
        Increasing(s) /\ Increasing(t) /\ Before(s, t) => Increasing(s \o t)
  BY <1>1, IncreasingConcat DEF LineSeqs
<1> QED
  BY <1>2, <1>3, <1>4, RangeOfEmpty

LEMMA Appended ==
  ASSUME NEW s \in LineSeqs, NEW n \in 1..MaxLines, Increasing(s), \A x \in Range(s) : x < n
  PROVE  Increasing(Append(s, n)) /\ Range(Append(s, n)) = Range(s) \cup {n}
<1>1. <<n>> \in LineSeqs /\ Range(<<n>>) = {n} /\ Increasing(<<n>>) /\ Append(s, n) = s \o <<n>>
  BY DEF LineSeqs, Range, Increasing
<1>2. Before(s, <<n>>)
  BY <1>1 DEF Before
<1>3. Range(s \o <<n>>) = Range(s) \cup Range(<<n>>)
  BY <1>1, Moved
<1>4. Increasing(s \o <<n>>)
  BY <1>1, <1>2, Moved
<1> QED
  BY <1>1, <1>3, <1>4

LEMMA Forgotten ==
  ASSUME NEW a, NEW b, NEW c
  PROVE  /\ Forget({a}) => lost' = lost \cup Range(a)
         /\ Forget({a, b, c}) => lost' = lost \cup Range(a) \cup Range(b) \cup Range(c)
  BY DEF Forget

Lined == Printed /\ Streamed

(* Printing a line puts it last of the lines unread. *)
LEMMA PrintLineKeeps == ASSUME Types, Lined, PrintLine PROVE Lined'
<1> DEFINE n == produced + 1
<1>1. /\ produced' = n /\ buffer' = Append(buffer, n) /\ n \in 1..MaxLines /\ 1..n = 1..produced \cup {n}
      /\ UNCHANGED <<lost, delivered, gathered, pending, wire, faulted, fate>>
  BY BoundsAssumption DEF PrintLine, reading, Types
<1>2. \A s \in {delivered, gathered, pending, wire.message, buffer} : \A x \in Range(s) : x < n
  <2>1. \A x \in 1..produced : x < n
    BY DEF Types
  <2> QED
    BY <2>1 DEF Lined, Printed
<1> HIDE DEF n
<1>3. /\ Increasing(buffer') /\ Range(buffer') = Range(buffer) \cup {n}
  <2>1. n \in 1..MaxLines /\ buffer \in LineSeqs /\ Increasing(buffer)
    BY <1>1 DEF Types, Lined, Streamed
  <2>2. \A x \in Range(buffer) : x < n
    BY <1>2
  <2>3. Increasing(Append(buffer, n)) /\ Range(Append(buffer, n)) = Range(buffer) \cup {n}
    BY <2>1, <2>2, Appended, Zenon
  <2> QED
    BY <1>1, <2>3, Zenon
<1>4. Printed'
  BY <1>1, <1>3 DEF Lined, Printed
<1>5. Streamed'
  BY <1>1, <1>2, <1>3 DEF Lined, Streamed, Before
<1> QED
  BY <1>4, <1>5 DEF Lined

(* The router prints the first lines, or hands over those unread. *)
LEMMA ExecuteKeeps ==
  ASSUME Types, Lined, NEW m \in Methods, NEW message \in Messages(m), NEW more \in BOOLEAN,
         Execute(m, message, more), m = "POST" => produced = 0
  PROVE  /\ Increasing(message) /\ Increasing(buffer')
         /\ lost \cup Range(delivered) \cup Range(gathered) \cup Range(pending)
              \cup Range(wire.message) \cup Range(message) \cup Range(buffer') = 1..produced'
         /\ Before(delivered, message) /\ Before(gathered, message) /\ Before(pending, message)
         /\ Before(delivered, buffer') /\ Before(gathered, buffer') /\ Before(pending, buffer')
         /\ Before(wire.message, buffer') /\ Before(message, buffer')
<1>1. CASE m = "POST"
  <2>1. PICK n \in 0..MaxLines : message = Lines(1, n)
    BY <1>1 DEF Messages
  <2>2. produced' = n /\ buffer' = buffer /\ Range(message) = 1..n /\ Increasing(message)
    BY <1>1, <2>1, LinesFromOne DEF Execute
  <2>3. /\ Range(delivered) = {} /\ Range(gathered) = {} /\ Range(pending) = {} /\ lost = {}
        /\ Range(wire.message) = {} /\ Range(buffer) = {}
    <3>1. 1..produced = {}
      BY <1>1
    <3> QED
      BY <3>1 DEF Lined, Printed
  <2> QED
    BY <2>2, <2>3 DEF Lined, Streamed, Before
<1>2. CASE m # "POST"
  <2>1. message = buffer /\ buffer' = <<>> /\ produced' = produced
    BY <1>2 DEF Execute
  <2> QED
    BY <2>1, RangeOfEmpty DEF Lined, Printed, Streamed, Before
<1> QED
  BY <1>1, <1>2

LEMMA LinedKept == ASSUME Types, Control, Lined, [Next]_vars PROVE Lined'
<1> USE DEF Lined, Printed, Streamed, Before, reading, router
<1>1. /\ delivered \in LineSeqs /\ gathered \in LineSeqs /\ pending \in LineSeqs
      /\ buffer \in LineSeqs /\ wire.message \in LineSeqs /\ wire \in Wires
  BY DEF Types, Wires
<1>2. /\ wire.phase # "reply" => wire.message = <<>>
      /\ gathered # <<>> => phase \in {"reading", "polling"}
      /\ pending # <<>> => phase \in {"open", "reading", "cancelling"}
      /\ phase \notin {"starting", "polling", "cancelling"} => wire.message = <<>>
      /\ fate = "dropped" => phase = "closed"
  BY DEF Control, Coherent, Ending, Requesting, Types, Wires
<1>3. CASE Start \/ Poll
  <2>1. wire.message = <<>> /\ wire'.message = <<>>
    <3>1. (Request("POST") \/ Request("GET")) /\ phase \in {"new", "reading"}
      BY <1>3 DEF Start, Poll
    <3>2. wire'.message = <<>>
      BY <3>1, WireFields
    <3>3. wire.message = <<>>
      BY <1>2, <3>1
    <3> QED
      BY <3>2, <3>3
  <2> QED
    BY <1>3, <2>1 DEF Start, Poll
<1>4. CASE Open \/ ReceivePoll
  BY <1>1, <1>2, <1>4, WireFields, Moved DEF Open, ReceivePoll, Take
<1>5. CASE Read
  BY <1>5 DEF Read
<1>6. CASE ReadPending
  <2>1. pending' = <<>> /\ UNCHANGED <<wire, buffer, lost, produced, faulted, fate>>
    BY <1>6 DEF ReadPending
  <2>2. CASE collecting
    <3>1. gathered' = gathered \o pending /\ delivered' = delivered
      BY <1>6, <2>2 DEF ReadPending
    <3>2. Range(gathered') = Range(gathered) \cup Range(pending) /\ Increasing(gathered')
      BY <1>1, <3>1, Moved
    <3> QED
      BY <2>1, <3>1, <3>2, Moved
  <2>3. CASE ~collecting
    <3>1. delivered' = delivered \o pending /\ gathered' = gathered /\ gathered = <<>>
      BY <1>6, <2>3 DEF ReadPending, Control, Coherent
    <3>2. Range(delivered') = Range(delivered) \cup Range(pending) /\ Increasing(delivered')
      BY <1>1, <3>1, Moved
    <3> QED
      BY <2>1, <3>1, <3>2, Moved
  <2> QED
    BY <2>2, <2>3
<1>7. CASE ReadEnd
  <2>1. /\ delivered' = delivered \o gathered /\ gathered' = <<>> /\ pending = <<>>
        /\ fate' = "complete" /\ fate # "dropped"
        /\ UNCHANGED <<pending, wire, buffer, lost, produced, faulted>>
    BY <1>2, <1>7 DEF ReadEnd
  <2>2. Range(delivered') = Range(delivered) \cup Range(gathered) /\ Increasing(delivered')
    BY <1>1, <2>1, Moved
  <2> QED
    BY <2>1, <2>2, Moved
<1>8. CASE Tick \/ End
  BY <1>8 DEF Tick, End
<1>9. CASE Cancel
  <2>1. wire.message = <<>> /\ gathered = <<>>
        /\ UNCHANGED <<gathered, buffer, lost, produced, faulted>>
    BY <1>2, <1>9 DEF Cancel
  <2>2. CASE continued
    <3>1. Request("DELETE") /\ UNCHANGED <<pending, delivered, fate>>
      BY <1>9, <2>2 DEF Cancel
    <3>2. wire'.message = <<>>
      BY <3>1, WireFields
    <3> QED
      BY <2>1, <3>1, <3>2
  <2>3. CASE ~continued
    <3>1. delivered' = delivered \o pending /\ pending' = <<>> /\ wire' = wire /\ fate' = "cancelled"
      BY <1>9, <2>3 DEF Cancel
    <3>2. Range(delivered') = Range(delivered) \cup Range(pending) /\ Increasing(delivered')
      BY <1>1, <3>1, Moved
    <3>3. fate # "dropped"
      BY <1>2, <1>9 DEF Cancel
    <3> QED
      BY <2>1, <3>1, <3>2, <3>3, Moved
  <2> QED
    BY <2>2, <2>3
<1>10. CASE ReceiveCancel
  <2> DEFINE held == delivered \o pending
  <2>1. /\ delivered' = held \o wire.message /\ pending' = <<>> /\ wire'.message = <<>>
        /\ gathered = <<>> /\ fate # "dropped"
        /\ UNCHANGED <<gathered, buffer, lost, produced, faulted>>
    BY <1>2, <1>10, WireFields DEF ReceiveCancel
  <2>2. held \in LineSeqs /\ Increasing(held) /\ Range(held) = Range(delivered) \cup Range(pending)
    BY <1>1, Moved, ConcatType
  <2> HIDE DEF held
  <2>3. /\ Range(delivered') = Range(delivered) \cup Range(pending) \cup Range(wire.message)
        /\ Increasing(delivered')
    BY <1>1, <2>1, <2>2, Moved
  <2> QED
    BY <2>1, <2>3, Moved
<1>11. CASE Fail
  <2>1. /\ faulted' /\ wire'.message = <<>> /\ Range(wire'.message) = {}
        /\ UNCHANGED <<buffer, produced, delivered>>
    BY <1>11, Moved, WireFields DEF Fail, Abandon
  <2>2. CASE phase = "polling" /\ ~collecting
    <3>1. Forget({wire.message}) /\ UNCHANGED <<pending, gathered>>
      BY <1>11, <2>2 DEF Fail
    <3>2. lost' = lost \cup Range(wire.message)
      BY <3>1, Forgotten
    <3> QED
      BY <2>1, <3>1, <3>2, Moved
  <2>3. CASE ~(phase = "polling" /\ ~collecting)
    <3>1. Forget({wire.message, pending, gathered}) /\ pending' = <<>> /\ gathered' = <<>>
      BY <1>11, <2>3 DEF Fail
    <3>2. lost' = lost \cup Range(wire.message) \cup Range(pending) \cup Range(gathered)
      BY <3>1 DEF Forget
    <3> QED
      BY <2>1, <3>1, <3>2, Moved
  <2> QED
    BY <2>2, <2>3
<1>12. CASE Interrupt
  <2>1. /\ faulted' /\ pending = <<>> /\ phase = "reading"
        /\ UNCHANGED <<pending, wire, buffer, produced, delivered>>
    BY <1>12 DEF Interrupt
  <2>2. CASE collecting
    <3>1. Forget({gathered}) /\ gathered' = <<>>
      BY <1>12, <2>2 DEF Interrupt
    <3>2. lost' = lost \cup Range(gathered)
      BY <3>1, Forgotten
    <3> QED
      BY <2>1, <3>1, <3>2, Moved
  <2>3. CASE ~collecting
    <3>1. UNCHANGED <<fate, lost, gathered>>
      BY <1>12, <2>3 DEF Interrupt
    <3> QED
      BY <2>1, <3>1
  <2> QED
    BY <2>2, <2>3
<1>13. CASE Drop
  <2>1. /\ pending' = <<>> /\ Forget({pending}) /\ fate' = "dropped" /\ gathered = <<>>
        /\ UNCHANGED <<gathered, wire, buffer, produced, delivered, faulted>>
    BY <1>2, <1>13 DEF Drop
  <2>2. lost' = lost \cup Range(pending)
    BY <2>1, Forgotten
  <2> QED
    BY <2>1, <2>2, Moved
<1>14. CASE PrintLine
  BY <1>14, PrintLineKeeps
<1>15. CASE Serve
  <2>1. PICK message \in Messages(wire.method), more \in BOOLEAN :
          /\ Execute(wire.method, message, more)
          /\ wire' = [wire EXCEPT !.phase = "reply", !.message = message, !.continued = more]
    BY <1>15 DEF Serve
  <2>2. wire.method = "POST" => produced = 0
    BY <1>15 DEF Serve, Control, Coherent, Unstarted, MethodOf, Requesting, Types, Phases
  <2>3. wire.message = <<>> /\ wire'.message = message /\ wire.method \in Methods
    BY <1>1, <1>2, <1>15, <2>1, WireFields DEF Serve, Wires
  <2> QED
    BY <1>15, <2>1, <2>2, <2>3, ExecuteKeeps, RangeOfEmpty DEF Serve
<1>16. CASE ServeStray
  <2>1. PICK m \in Methods :
          /\ strays[m] > 0
          /\ \E message \in Messages(m), more \in BOOLEAN :
               Execute(m, message, more) /\ Forget({message})
          /\ UNCHANGED <<phase, collecting, reading, wire, delivered, silence, faulted, fate>>
    BY <1>16 DEF ServeStray
  <2>2. PICK message \in Messages(m), more \in BOOLEAN :
          Execute(m, message, more) /\ Forget({message})
    BY <2>1
  <2>3. (m = "POST" => produced = 0) /\ faulted
    BY <2>1 DEF Control, Unstarted
  <2>4. lost' = lost \cup Range(message)
    BY <2>2, Forgotten
  <2> QED
    BY <2>1, <2>2, <2>3, <2>4, ExecuteKeeps
<1>17. CASE UNCHANGED vars
  BY <1>17 DEF vars
<1> QED
  BY <1>3, <1>4, <1>5, <1>6, <1>7, <1>8, <1>9, <1>10, <1>11, <1>12, <1>13, <1>14, <1>15, <1>16,
     <1>17 DEF Next, Closed

LEMMA SpacedKept == ASSUME Types, Spaced, [Next]_vars PROVE Spaced'
<1> USE DEF Spaced, reading, router
<1>1. wait \in Nat /\ silence \in Nat /\ wait <= Interval /\ silence <= Interval /\ Interval \in Nat
  BY IntervalAssumption DEF Types
<1>2. CASE Open \/ ReceivePoll
  BY <1>1, <1>2 DEF Open, ReceivePoll, Take
<1>3. CASE Tick
  BY <1>1, <1>3 DEF Tick
<1>4. CASE Start \/ Read \/ ReadPending \/ ReadEnd \/ Poll
  BY <1>4 DEF Start, Read, ReadPending, ReadEnd, Poll
<1>5. CASE Cancel \/ ReceiveCancel \/ Fail \/ Interrupt \/ Drop
  BY <1>5 DEF Cancel, ReceiveCancel, Fail, Interrupt, Drop
<1>6. CASE PrintLine \/ End \/ Serve \/ ServeStray
  BY <1>6 DEF PrintLine, End, Serve, ServeStray
<1>7. CASE UNCHANGED vars
  BY <1>7 DEF vars
<1> QED
  BY <1>2, <1>3, <1>4, <1>5, <1>6, <1>7 DEF Next, Closed

LEMMA Invariant == Spec => []Inv
<1>1. Inv /\ [Next]_vars => Inv'
  BY TypesKept, ControlKept, LinedKept, SpacedKept DEF Inv, Control, Lined
<1> QED
  BY <1>1, Initially, PTL DEF Spec

-----------------------------------------------------------------------------
(* Every variable of a session keeps its type, whatever the bounds. *)
THEOREM TypeCorrect == Spec => []TypeOK
<1>1. Inv => TypeOK
  BY DEF Inv, Types, TypeOK, Phases, LineSeqs, Wires
<1> QED
  BY <1>1, Invariant, PTL

(* No line disappears: each one printed is delivered, held, in flight, unread *)
(* or known as lost, and none is lost unless a request failed or a future or  *)
(* the session was dropped.                                                   *)
THEOREM LinesAreAccounted == Spec => []Accounted
<1>1. Inv => Accounted
  BY DEF Inv, Printed, Accounted
<1> QED
  BY <1>1, Invariant, PTL

(* A caller told of the end has all of the output but what was lost. *)
THEOREM EndsAreTrue == Spec => []CompleteMeansAll
<1>1. ASSUME Inv PROVE CompleteMeansAll
  <2> SUFFICES ASSUME fate = "complete"
               PROVE  ~running /\ Range(delivered) \cup lost = 1..produced
    BY DEF CompleteMeansAll
  <2>1. /\ ~running /\ buffer = <<>> /\ pending = <<>> /\ gathered = <<>>
        /\ phase \in {"open", "reading", "closed"}
    BY <1>1 DEF Inv, Ending, Silent
  <2>2. wire.message = <<>>
    BY <1>1, <2>1 DEF Inv, Coherent, Requesting
  <2> QED
    BY <1>1, <2>1, <2>2, RangeOfEmpty DEF Inv, Printed
<1> QED
  BY <1>1, Invariant, PTL

(* A test that was read to its end or cancelled does not go on. *)
THEOREM TestsAreStopped == Spec => []Stopped
<1>1. Inv => Stopped
  BY DEF Inv, Ending, Silent, Stopped
<1> QED
  BY <1>1, Invariant, PTL

(* Between a reply and the next poll lies the whole interval, however long. *)
THEOREM PollsKeepTheInterval == Spec => PollsAreSpaced
<1>1. Inv /\ [Next]_vars => [phase = "reading" /\ phase' = "polling" => silence = Interval]_vars
  <2> SUFFICES ASSUME Inv, Next, phase = "reading", phase' = "polling" PROVE silence = Interval
    BY DEF vars
  <2>1. Poll
    BY DEF Next, Start, Open, Read, ReadPending, ReadEnd, ReceivePoll, Tick, Cancel, ReceiveCancel,
           Fail, Interrupt, Drop, PrintLine, End, Serve, ServeStray, Closed
  <2>2. wait = 0
    BY <2>1 DEF Poll
  <2> QED
    BY <2>2, IntervalAssumption DEF Inv, Spaced, Types
<1> QED
  BY <1>1, Invariant, PTL DEF Spec, PollsAreSpaced

-----------------------------------------------------------------------------
(* The refinement of TestOutput *)

LEMMA Extended ==
  ASSUME NEW s \in LineSeqs, NEW t \in LineSeqs
  PROVE  Len(s) <= Len(s \o t) /\ SubSeq(s \o t, 1, Len(s)) = s /\ (s \o t = s => t = <<>>)
  BY DEF LineSeqs

(* Handing over what follows, or ending, is a step of TestOutput. *)
LEMMA DeliverSteps ==
  ASSUME Inv, Inv', fate = "none", UNCHANGED produced,
         NEW t \in LineSeqs, delivered' = delivered \o t, t # <<>> \/ fate' # "none"
  PROVE  Output!Deliver
<1>1. Output!Increasing(delivered')
  BY DEF Inv, Streamed, Increasing, Output!Increasing
<1>2. /\ Len(delivered) <= Len(delivered') /\ SubSeq(delivered', 1, Len(delivered)) = delivered
      /\ delivered' # delivered \/ fate' # "none"
  BY Extended DEF Inv, Types
<1>3. Output!Last(delivered') <= produced
  <2>1. CASE delivered' = <<>>
    BY <2>1 DEF Output!Last, Inv, Types
  <2>2. CASE delivered' # <<>>
    <3>1. delivered' \in Seq(1..MaxLines) /\ Len(delivered') \in 1..Len(delivered')
      BY <2>2 DEF Inv, Types, LineSeqs
    <3>2. delivered'[Len(delivered')] \in Range(delivered')
      BY <3>1, InRange
    <3>3. Range(delivered') \subseteq 1..produced
      BY DEF Inv, Printed
    <3> QED
      BY <2>2, <3>2, <3>3 DEF Output!Last, Inv, Types
  <2> QED
    BY <2>1, <2>2
<1> QED
  BY <1>1, <1>2, <1>3 DEF Output!Deliver

LEMMA StepsAreOutput ==
  ASSUME Inv, Inv', Next
  PROVE  [Output!Next]_<<produced, delivered, fate # "none">>
<1> USE DEF reading, router
<1>1. /\ delivered \in LineSeqs /\ gathered \in LineSeqs /\ pending \in LineSeqs
      /\ wire.message \in LineSeqs /\ <<>> \in LineSeqs /\ delivered \o <<>> = delivered
  BY EmptyType DEF Inv, Types, Wires, LineSeqs
<1>2. CASE UNCHANGED <<produced, delivered, fate>>
  BY <1>2
<1>3. ASSUME NEW t \in LineSeqs, delivered' = delivered \o t, UNCHANGED produced, fate = "none",
             t # <<>> \/ fate' # "none"
      PROVE  [Output!Next]_<<produced, delivered, fate # "none">>
  BY <1>3, DeliverSteps DEF Output!Next
<1>4. CASE ReadPending
  <2>1. CASE collecting
    BY <1>2, <1>4, <2>1 DEF ReadPending
  <2>2. CASE ~collecting
    <3>1. fate = "none" /\ pending # <<>>
      BY <1>4 DEF ReadPending, Inv, Ending
    <3> QED
      BY <1>1, <1>3, <1>4, <2>2, <3>1 DEF ReadPending
  <2> QED
    BY <2>1, <2>2
<1>5. CASE ReadEnd
  <2>1. CASE fate = "none"
    BY <1>1, <1>3, <1>5, <2>1 DEF ReadEnd
  <2>2. CASE fate # "none"
    BY <1>1, <1>5, <2>2 DEF ReadEnd, Inv, Ending
  <2> QED
    BY <2>1, <2>2
<1>6. CASE Cancel
  <2>1. CASE continued
    BY <1>2, <1>6, <2>1 DEF Cancel
  <2>2. CASE ~continued /\ fate = "none"
    BY <1>1, <1>3, <1>6, <2>2 DEF Cancel
  <2>3. CASE ~continued /\ fate # "none"
    BY <1>1, <1>6, <2>3 DEF Cancel, Inv, Ending
  <2> QED
    BY <2>1, <2>2, <2>3
<1>7. CASE ReceiveCancel
  <2>1. delivered' = delivered \o (pending \o wire.message) /\ pending \o wire.message \in LineSeqs
    <3>1. delivered' = (delivered \o pending) \o wire.message
      BY <1>7 DEF ReceiveCancel
    <3>2. (delivered \o pending) \o wire.message = delivered \o (pending \o wire.message)
      BY <1>1, Associative
    <3> QED
      BY <1>1, <3>1, <3>2, ConcatType
  <2>2. fate = "none" /\ fate' # "none" /\ UNCHANGED produced
    BY <1>7 DEF ReceiveCancel, Inv, Ending
  <2> QED
    BY <1>3, <2>1, <2>2
<1>8. CASE Fail \/ Interrupt \/ Drop
  <2>1. UNCHANGED <<delivered, produced>>
    BY <1>8 DEF Fail, Interrupt, Drop
  <2>2. fate # "none" => fate' # "none"
    BY <1>8 DEF Fail, Interrupt, Drop
  <2>3. CASE fate = "none" /\ fate' # "none"
    BY <1>1, <1>3, <2>1, <2>3
  <2> QED
    BY <2>1, <2>2, <2>3
<1>9. ASSUME UNCHANGED <<delivered, fate>>, produced' >= produced
      PROVE  [Output!Next]_<<produced, delivered, fate # "none">>
  <2>1. produced' = produced \/ produced' \in produced+1..MaxLines
    BY <1>9 DEF Inv, Types
  <2> QED
    BY <1>9, <2>1 DEF Output!Next, Output!PrintLine
<1>10. CASE PrintLine
  BY <1>9, <1>10 DEF PrintLine, Inv, Types
<1>11. CASE Serve \/ ServeStray
  <2>1. UNCHANGED <<delivered, fate>>
    BY <1>11 DEF Serve, ServeStray
  <2>2. produced' = produced \/ produced = 0
    BY <1>11 DEF Serve, ServeStray, Execute, Inv, Unstarted, Coherent, MethodOf, Types, Phases,
                 Requesting
  <2> QED
    BY <1>9, <2>1, <2>2 DEF Inv, Types
<1>12. CASE Start \/ Open \/ Read \/ Poll \/ ReceivePoll \/ Tick \/ End \/ Closed
  BY <1>2, <1>12 DEF Start, Open, Read, Poll, ReceivePoll, Tick, End, Closed, vars
<1> QED
  BY <1>4, <1>5, <1>6, <1>7, <1>8, <1>10, <1>11, <1>12 DEF Next

(* The caller of a session observes TestOutput: lines in the order they were *)
(* printed, none twice, in chunks that are not empty, up to one end.         *)
THEOREM SessionsAreStreams == Spec => IsStream
<1>1. Init => Output!Init
  BY DEF Init, Output!Init
<1>2. Inv /\ Inv' /\ [Next]_vars => [Output!Next]_<<produced, delivered, fate # "none">>
  BY StepsAreOutput DEF vars
<1> QED
  BY <1>1, <1>2, Invariant, PTL DEF Spec, IsStream, Output!Spec

-----------------------------------------------------------------------------
(* What ReadReturns rests on.  Once the test has ended, by itself or because *)
(* somebody stopped it, a reader that still sleeps or polls has a bounded    *)
(* way to go: the reply it awaits, or the one after, is the last.            *)

(* How far a reader has to go, in steps of its own, of its timer and of the  *)
(* router that answers it.                                                   *)
Distance ==
  IF phase = "reading"
  THEN IF continued
       THEN wait + (IF pending = <<>> THEN 5 ELSE 6)
       ELSE IF pending = <<>> THEN 1 ELSE 2
  ELSE IF wire.phase = "request" THEN 4
  ELSE IF wire.continued THEN Interval + 7 ELSE 3

NearsItsEnd ==
  phase \in {"reading", "polling"} /\ ~running =>
    \/ phase' \in {"open", "closed"}
    \/ /\ phase' \in {"reading", "polling"} /\ ~running'
       /\ \/ Distance' < Distance
          \/ UNCHANGED <<phase, pending, continued, wire>> /\ Distance' = Distance

LEMMA StepNearsItsEnd == ASSUME Types, Control, [Next]_vars PROVE NearsItsEnd
<1> SUFFICES ASSUME phase \in {"reading", "polling"}, ~running
             PROVE  \/ phase' \in {"open", "closed"}
                    \/ /\ phase' \in {"reading", "polling"} /\ ~running'
                       /\ \/ Distance' < Distance
                          \/ /\ UNCHANGED <<phase, pending, continued, wire>>
                             /\ Distance' = Distance
  BY DEF NearsItsEnd
<1> USE DEF reading, router
<1>1. /\ wait \in Nat /\ Interval \in Nat /\ continued \in BOOLEAN /\ wire.continued \in BOOLEAN
      /\ phase = "polling" => wire.phase \in {"request", "reply"} /\ wire.method = "GET"
  BY IntervalAssumption DEF Types, Wires, Control, Coherent, MethodOf, Requesting
<1>2. CASE ReadPending
  <2>1. CASE ~collecting
    BY <1>2, <2>1 DEF ReadPending
  <2>2. CASE collecting
    <3>1. /\ phase = "reading" /\ phase' = "reading" /\ running' = running
          /\ pending # <<>> /\ pending' = <<>> /\ continued' = continued /\ wait' = wait
      BY <1>2, <2>2 DEF ReadPending
    <3>2. Distance' < Distance
      BY <1>1, <3>1 DEF Distance
    <3> QED
      BY <3>1, <3>2
  <2> QED
    BY <2>1, <2>2
<1>3. CASE ReadEnd
  BY <1>3 DEF ReadEnd
<1>4. CASE Poll
  <2>1. /\ phase = "reading" /\ pending = <<>> /\ continued /\ wait = 0
        /\ phase' = "polling" /\ Request("GET") /\ running' = running
    BY <1>4 DEF Poll
  <2>2. wire'.phase = "request"
    BY <2>1, WireFields
  <2>3. Distance = 5 /\ Distance' = 4
    BY <2>1, <2>2 DEF Distance
  <2> QED
    BY <2>1, <2>3
<1>5. CASE ReceivePoll
  <2>1. /\ phase = "polling" /\ wire.phase = "reply" /\ phase' = "reading" /\ running' = running
        /\ continued' = wire.continued /\ wait' = Interval
    BY <1>5 DEF ReceivePoll, Take
  <2>2. CASE wire.continued
    <3>1. Distance = Interval + 7 /\ Distance' \in {Interval + 5, Interval + 6}
      BY <2>1, <2>2 DEF Distance
    <3> QED
      BY <1>1, <2>1, <3>1
  <2>3. CASE ~wire.continued
    <3>1. Distance = 3 /\ Distance' \in {1, 2}
      BY <2>1, <2>3 DEF Distance
    <3> QED
      BY <2>1, <3>1
  <2> QED
    BY <2>2, <2>3
<1>6. CASE Tick
  <2>1. /\ wait' = wait - 1
        /\ UNCHANGED <<phase, pending, continued, wire, running>>
    BY <1>6 DEF Tick
  <2>2. CASE phase = "reading" /\ continued
    <3>1. Distance' < Distance
      BY <1>1, <2>1, <2>2 DEF Distance
    <3> QED
      BY <2>1, <3>1
  <2>3. CASE ~(phase = "reading" /\ continued)
    <3>1. Distance' = Distance
      BY <2>1, <2>3 DEF Distance
    <3> QED
      BY <2>1, <3>1
  <2> QED
    BY <2>2, <2>3
<1>7. CASE Fail \/ Interrupt
  BY <1>7 DEF Fail, Interrupt
<1>8. CASE Serve
  <2>1. PICK message \in Messages(wire.method), more \in BOOLEAN :
          /\ Execute(wire.method, message, more)
          /\ wire' = [wire EXCEPT !.phase = "reply", !.message = message, !.continued = more]
    BY <1>8 DEF Serve
  <2>2. wire.phase = "request" /\ phase' = phase
    BY <1>8 DEF Serve
  <2>3. phase = "polling" /\ wire.method = "GET" /\ wire \in Wires
    BY <1>1, <2>2 DEF Types, Control, Coherent, Requesting
  <2>4. more = FALSE /\ running' = running
    BY <2>1, <2>3 DEF Execute
  <2>5. wire'.phase = "reply" /\ wire'.continued = FALSE
    BY <2>1, <2>3, <2>4, WireFields
  <2>6. Distance = 4 /\ Distance' = 3
    BY <2>2, <2>3, <2>5 DEF Distance
  <2> QED
    BY <2>2, <2>4, <2>6
<1>9. CASE ServeStray
  <2>1. PICK m \in Methods :
          /\ strays[m] > 0
          /\ \E message \in Messages(m), more \in BOOLEAN : Execute(m, message, more)
          /\ UNCHANGED <<phase, pending, continued, wait, wire>>
    BY <1>9 DEF ServeStray
  <2>2. m # "POST"
    BY <2>1 DEF Control, Unstarted, Ending
  <2>3. running' \in {running, FALSE}
    BY <2>1, <2>2 DEF Execute
  <2>4. Distance' = Distance
    BY <2>1 DEF Distance
  <2> QED
    BY <2>1, <2>3, <2>4
<1>10. CASE UNCHANGED vars
  <2>1. UNCHANGED <<phase, pending, continued, wire, wait, running>>
    BY <1>10 DEF vars
  <2>2. Distance' = Distance
    BY <2>1 DEF Distance
  <2> QED
    BY <2>1, <2>2
<1>11. ~(Start \/ Open \/ Read \/ Cancel \/ ReceiveCancel \/ Drop \/ PrintLine \/ End)
  BY DEF Start, Open, Read, Cancel, ReceiveCancel, Drop, PrintLine, End
<1> QED
  BY <1>2, <1>3, <1>4, <1>5, <1>6, <1>7, <1>8, <1>9, <1>10, <1>11 DEF Next, Closed

(* Nothing that happens to a session after the end of its test, a request    *)
(* that arrives late included, starts the test again or makes a reader poll  *)
(* once more than it has to.                                                 *)
THEOREM ReadsNearTheirEnd == Spec => [][NearsItsEnd]_vars
<1>1. Inv /\ [Next]_vars => [NearsItsEnd]_vars
  BY StepNearsItsEnd DEF Inv, Control
<1> QED
  BY <1>1, Invariant, PTL DEF Spec
=============================================================================

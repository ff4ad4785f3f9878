----------------------------- MODULE ClientIndex -----------------------------
(***************************************************************************)
(* ClientIndex of src/model/clients.rs: four replies of the router, each   *)
(* taken at its own moment, are joined by MAC address.                     *)
(*                                                                         *)
(* A record is a MAC address and what the classification reads; its place  *)
(* in the reply tells it from others.  One action is one turn of one of    *)
(* the four loops of ClientIndex::new.                                     *)
(***************************************************************************)
EXTENDS Naturals, Sequences

CONSTANTS
  Macs,        \* MAC addresses
  MaxRecords   \* bound: records of a reply

ASSUME MaxRecordsAssumption == MaxRecords \in Nat

VARIABLES
  replies,   \* the records of each reply
  next,      \* per reply, the record its loop takes next
  clients    \* the BTreeMap, by MAC address

vars == <<replies, next, clients>>

Sources == {"associations", "hotspot", "arp", "dhcp"}
Before(source) ==
  CASE source = "associations" -> {}
    [] source = "hotspot" -> {"associations"}
    [] source = "arp" -> {"associations", "hotspot"}
    [] source = "dhcp" -> {"associations", "hotspot", "arp"}

Records(source) ==
  [mac: Macs, active: IF source = "hotspot" THEN BOOLEAN ELSE {FALSE}]
UpTo(n, S) == UNION {[1..k -> S] : k \in 0..n}

None == 0
Client == [association |-> None, hotspot |-> None, arp |-> <<>>, dhcp |-> <<>>]

Init ==
  /\ replies \in [Sources -> UNION {UpTo(MaxRecords, Records(s)) : s \in Sources}]
  /\ \A s \in Sources : replies[s] \in UpTo(MaxRecords, Records(s))
  /\ next = [s \in Sources |-> 1]
  /\ clients = [m \in {} |-> Client]

Read(source) == next[source] > Len(replies[source])
Built == \A s \in Sources : Read(s)

(* entry(): the client of a MAC address, made when it is first met. *)
Entry(mac) == IF mac \in DOMAIN clients THEN clients[mac] ELSE Client

Put(mac, client) ==
  clients' = [m \in DOMAIN clients \cup {mac} |-> IF m = mac THEN client ELSE clients[m]]

(* The loop of `source` has its turn. *)
Take(source) ==
  /\ \A s \in Before(source) : Read(s)
  /\ ~Read(source)
  /\ next' = [next EXCEPT ![source] = @ + 1]
  /\ UNCHANGED replies

Current(source) == replies[source][next[source]]

AddAssociation ==
  /\ Take("associations")
  /\ LET mac == Current("associations").mac
     IN Put(mac, [Entry(mac) EXCEPT !.association = next["associations"]])

(* Mutant: a hotspot record begins its client anew. *)
AddHotspotAnew ==
  /\ Take("hotspot")
  /\ Put(Current("hotspot").mac, [Client EXCEPT !.hotspot = next["hotspot"]])

AddHotspot ==
  /\ Take("hotspot")
  /\ LET mac == Current("hotspot").mac
     IN Put(mac, [Entry(mac) EXCEPT !.hotspot = next["hotspot"]])

AddArp ==
  /\ Take("arp")
  /\ LET mac == Current("arp").mac
     IN Put(mac, [Entry(mac) EXCEPT !.arp = Append(@, next["arp"])])

AddDhcp ==
  /\ Take("dhcp")
  /\ LET mac == Current("dhcp").mac
     IN Put(mac, [Entry(mac) EXCEPT !.dhcp = Append(@, next["dhcp"])])

Done == Built /\ UNCHANGED vars

Next == AddAssociation \/ AddHotspot \/ AddArp \/ AddDhcp \/ Done

Spec == Init /\ [][Next]_vars

(* Mutant: a record of the hotspot is activity enough. *)
ActivityListed(client) ==
  IF client.association # None \/ client.hotspot # None THEN "Active" ELSE "Unknown"

(* ConnectedClient::activity *)
Activity(client) ==
  IF \/ client.association # None
     \/ client.hotspot # None /\ replies["hotspot"][client.hotspot].active
  THEN "Active"
  ELSE IF client.hotspot # None THEN "Inactive" ELSE "Unknown"

-----------------------------------------------------------------------------
(* Properties *)

Of(source, mac) == {i \in DOMAIN replies[source] : replies[source][i].mac = mac}
Ordered(s) == \A i, j \in DOMAIN s : i < j => s[i] < s[j]
Members(s) == {s[i] : i \in DOMAIN s}

(* "A union of four response snapshots": the clients are the MAC addresses   *)
(* of any reply, each with every ARP and DHCP record of it in the router's   *)
(* order, and with one of its associations and of its hotspot records, the   *)
(* last, if it has any.                                                      *)
IndexIsUnion ==
  Built =>
    /\ DOMAIN clients = {m \in Macs : \E s \in Sources : Of(s, m) # {}}
    /\ \A m \in DOMAIN clients :
         /\ Members(clients[m].arp) = Of("arp", m) /\ Ordered(clients[m].arp)
         /\ Members(clients[m].dhcp) = Of("dhcp", m) /\ Ordered(clients[m].dhcp)
         /\ clients[m].association
              \in IF Of("associations", m) = {} THEN {None} ELSE Of("associations", m)
         /\ clients[m].hotspot
              \in IF Of("hotspot", m) = {} THEN {None} ELSE Of("hotspot", m)
         /\ \A i \in Of("associations", m) : i <= clients[m].association
         /\ \A i \in Of("hotspot", m) : i <= clients[m].hotspot

(* Of several hotspot records of one address the last one counts.  A client  *)
(* is active if and only if it has an association or that record is active,  *)
(* inactive if it has that record only, and unknown to be either if all that *)
(* is known of it comes from ARP or DHCP.                                    *)
ActivityIsProven ==
  Built =>
    \A m \in DOMAIN clients :
      LET hosts == Of("hotspot", m)
          associated == Of("associations", m) # {}
          listed(active) ==
            \E i \in hosts :
              /\ \A j \in hosts : j <= i
              /\ replies["hotspot"][i].active = active
          activity == Activity(clients[m])
      IN /\ activity = "Active" <=> associated \/ listed(TRUE)
         /\ activity = "Inactive" <=> ~associated /\ listed(FALSE)
         /\ activity = "Unknown" <=> ~associated /\ hosts = {}
=============================================================================

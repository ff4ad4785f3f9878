-------------------------- MODULE ClientIndexProofs --------------------------
(***************************************************************************)
(* The join of ClientIndex, proved for replies of any length over any      *)
(* addresses.  The loops keep Joined: the map is the union of what they    *)
(* have Seen so far, each client with what was seen of its address.  When  *)
(* all four are done they have seen the replies.                           *)
(***************************************************************************)
EXTENDS ClientIndex, SequenceTheorems, TLAPS

Seen(source, mac) == {i \in 1..(next[source] - 1) : replies[source][i].mac = mac}

Latest(place, places) ==
  IF places = {} THEN place = None ELSE place \in places /\ \A i \in places : i <= place

List(places, s) == s \in Seq(Nat) /\ Members(s) = places /\ Ordered(s)

ClientType == [association: Nat, hotspot: Nat, arp: Seq(Nat), dhcp: Seq(Nat)]

(* `client` is what the loops have seen of the address `mac`. *)
Faithful(client, mac) ==
  /\ client \in ClientType
  /\ Latest(client.association, Seen("associations", mac))
  /\ Latest(client.hotspot, Seen("hotspot", mac))
  /\ List(Seen("arp", mac), client.arp)
  /\ List(Seen("dhcp", mac), client.dhcp)

Met(mac) == \E s \in Sources : Seen(s, mac) # {}

Record == [mac: Macs, active: BOOLEAN]

Walking ==
  /\ replies \in [Sources -> Seq(Record)]
  /\ next \in [Sources -> Nat \ {0}]
  /\ \A s \in Sources : next[s] <= Len(replies[s]) + 1

Joined ==
  /\ DOMAIN clients = {m \in Macs : Met(m)}
  /\ \A m \in DOMAIN clients : Faithful(clients[m], m)

Inv == Walking /\ Joined

-----------------------------------------------------------------------------
(* Appending a later place to a list of places keeps their order. *)
LEMMA Appended ==
  ASSUME NEW places, NEW s, List(places, s), NEW n \in Nat, \A i \in places : i < n
  PROVE  List(places \cup {n}, Append(s, n))
<1> DEFINE t == Append(s, n)
<1>1. /\ s \in Seq(Nat) /\ t \in Seq(Nat) /\ Len(t) = Len(s) + 1 /\ Len(s) \in Nat
      /\ t[Len(s) + 1] = n /\ \A i \in 1..Len(s) : t[i] = s[i]
      /\ DOMAIN s = 1..Len(s) /\ DOMAIN t = 1..(Len(s) + 1)
  BY DEF List
<1>2. \A i \in 1..Len(s) : s[i] \in places /\ s[i] \in Nat
  BY <1>1 DEF List, Members
<1> HIDE DEF t
<1>3. Members(t) = Members(s) \cup {n}
  <2>1. ASSUME NEW x \in Members(t) PROVE x \in Members(s) \cup {n}
    BY <1>1, <2>1 DEF Members
  <2>2. ASSUME NEW x \in Members(s) PROVE x \in Members(t)
    <3>1. PICK i \in 1..Len(s) : x = s[i]
      BY <1>1 DEF Members
    <3>2. i \in 1..(Len(s) + 1) /\ x = t[i]
      BY <1>1, <3>1
    <3> QED
      BY <1>1, <3>2 DEF Members
  <2>3. n \in Members(t)
    BY <1>1 DEF Members
  <2> QED
    BY <2>1, <2>2, <2>3
<1>4. Ordered(t)
  <2> SUFFICES ASSUME NEW i \in DOMAIN t, NEW j \in DOMAIN t, i < j PROVE t[i] < t[j]
    BY DEF Ordered
  <2>1. CASE j \in 1..Len(s)
    <3>1. i \in DOMAIN s /\ j \in DOMAIN s
      BY <1>1, <2>1
    <3>2. s[i] < s[j]
      BY <3>1 DEF List, Ordered
    <3> QED
      BY <1>1, <3>1, <3>2
  <2>2. CASE j = Len(s) + 1
    <3>1. i \in 1..Len(s)
      BY <1>1, <2>2
    <3>2. s[i] < n
      BY <1>2, <3>1
    <3> QED
      BY <1>1, <2>2, <3>1, <3>2
  <2> QED
    BY <1>1, <2>1, <2>2
<1> QED
  BY <1>1, <1>3, <1>4 DEF List, t

(* A turn of a loop sees one more record, of the address it is about. *)
LEMMA OneMore ==
  ASSUME Walking, NEW source \in Sources, Take(source)
  PROVE  /\ Walking' /\ Current(source).mac \in Macs /\ next[source] \in Nat \ {0}
         /\ \A s \in Sources, m \in Macs :
              Seen(s, m)' = IF s = source /\ m = Current(source).mac
                            THEN Seen(s, m) \cup {next[source]} ELSE Seen(s, m)
         /\ \A m : \A i \in Seen(source, m) : i < next[source]
<1>1. /\ next' = [next EXCEPT ![source] = @ + 1] /\ replies' = replies
      /\ next[source] \in Nat \ {0} /\ next[source] <= Len(replies[source])
  BY DEF Take, Read, Walking
<1>2. Walking'
  <2>1. \A s \in Sources : Len(replies[s]) \in Nat
    BY DEF Walking
  <2>2. next' \in [Sources -> Nat \ {0}]
    BY <1>1 DEF Walking
  <2>3. \A s \in Sources : next'[s] <= Len(replies[s]) + 1
    BY <1>1, <2>1 DEF Walking
  <2> QED
    BY <1>1, <2>2, <2>3 DEF Walking
<1>3. Current(source) \in Record
  <2>1. replies[source] \in Seq(Record)
    BY DEF Walking
  <2>2. next[source] \in 1..Len(replies[source])
    BY <1>1, <2>1
  <2> QED
    BY <2>1, <2>2, ElementOfSeq DEF Current
<1>7. Current(source).mac \in Macs
  BY <1>3 DEF Record
<1>4. ASSUME NEW s \in Sources, NEW m \in Macs
      PROVE  Seen(s, m)' = IF s = source /\ m = Current(source).mac
                           THEN Seen(s, m) \cup {next[source]} ELSE Seen(s, m)
  <2>1. CASE s # source
    BY <1>1, <2>1 DEF Seen, Walking
  <2>2. CASE s = source
    <3>1. Seen(s, m)' = {i \in 1..next[source] : replies[source][i].mac = m}
      BY <1>1, <2>2 DEF Seen, Walking
    <3>2. 1..next[source] = 1..(next[source] - 1) \cup {next[source]}
      BY <1>1
    <3> QED
      BY <2>2, <3>1, <3>2 DEF Seen, Current
  <2> QED
    BY <2>1, <2>2
<1>5. \A m : \A i \in Seen(source, m) : i < next[source]
  BY <1>1 DEF Seen
<1> QED
  BY <1>1, <1>2, <1>7, <1>4, <1>5

(* The client a loop finds, or makes, is what was seen of its address. *)
LEMMA EntryFaithful ==
  ASSUME Inv, NEW mac \in Macs
  PROVE  Faithful(Entry(mac), mac)
<1>1. CASE mac \in DOMAIN clients
  BY <1>1 DEF Inv, Joined, Entry
<1>2. CASE mac \notin DOMAIN clients
  <2>1. \A s \in Sources : Seen(s, mac) = {}
    BY <1>2 DEF Inv, Joined, Met
  <2>2. List({}, <<>>)
    BY DEF List, Members, Ordered
  <2>3. Client \in ClientType /\ Entry(mac) = Client
    BY <1>2 DEF ClientType, Client, None, Entry
  <2>4. /\ Seen("associations", mac) = {} /\ Seen("hotspot", mac) = {}
        /\ Seen("arp", mac) = {} /\ Seen("dhcp", mac) = {}
    BY <2>1 DEF Sources
  <2>5. /\ Client.association = None /\ Client.hotspot = None
        /\ Client.arp = <<>> /\ Client.dhcp = <<>>
    BY DEF Client
  <2> QED
    BY <2>2, <2>3, <2>4, <2>5 DEF Faithful, Latest
<1> QED
  BY <1>1, <1>2

(* What the loop over `source` makes of a client when it meets place n. *)
Noted(source, client, n) ==
  CASE source = "associations" -> [client EXCEPT !.association = n]
    [] source = "hotspot" -> [client EXCEPT !.hotspot = n]
    [] source = "arp" -> [client EXCEPT !.arp = Append(@, n)]
    [] source = "dhcp" -> [client EXCEPT !.dhcp = Append(@, n)]

LEMMA NotedFaithful ==
  ASSUME Inv, NEW source \in Sources, Take(source),
         NEW mac, mac = Current(source).mac, NEW n, n = next[source],
         NEW client, Faithful(client, mac)
  PROVE  Faithful(Noted(source, client, n), mac)'
<1>1. /\ mac \in Macs /\ n \in Nat \ {0}
      /\ \A s \in Sources : Seen(s, mac)' = IF s = source THEN Seen(s, mac) \cup {n} ELSE Seen(s, mac)
      /\ \A i \in Seen(source, mac) : i < n
  BY OneMore DEF Inv
<1>2. {"associations", "hotspot", "arp", "dhcp"} = Sources
  BY DEF Sources
<1>3. /\ client \in ClientType
      /\ Latest(client.association, Seen("associations", mac))
      /\ Latest(client.hotspot, Seen("hotspot", mac))
      /\ List(Seen("arp", mac), client.arp) /\ List(Seen("dhcp", mac), client.dhcp)
  BY DEF Faithful
<1>4. Seen(source, mac) \subseteq Nat
  BY DEF Seen
<1>5. Latest(n, Seen(source, mac) \cup {n})
  BY <1>1, <1>4 DEF Latest
<1>6. CASE source = "associations"
  <2>1. /\ Seen("associations", mac)' = Seen("associations", mac) \cup {n}
        /\ Seen("hotspot", mac)' = Seen("hotspot", mac)
        /\ Seen("arp", mac)' = Seen("arp", mac) /\ Seen("dhcp", mac)' = Seen("dhcp", mac)
    BY <1>1, <1>2, <1>6
  <2> QED
    BY <1>1, <1>3, <1>5, <1>6, <2>1 DEF Noted, Faithful, ClientType
<1>7. CASE source = "hotspot"
  <2>1. /\ Seen("hotspot", mac)' = Seen("hotspot", mac) \cup {n}
        /\ Seen("associations", mac)' = Seen("associations", mac)
        /\ Seen("arp", mac)' = Seen("arp", mac) /\ Seen("dhcp", mac)' = Seen("dhcp", mac)
    BY <1>1, <1>2, <1>7
  <2> QED
    BY <1>1, <1>3, <1>5, <1>7, <2>1 DEF Noted, Faithful, ClientType
<1>8. CASE source = "arp"
  <2>1. /\ Seen("arp", mac)' = Seen("arp", mac) \cup {n}
        /\ Seen("associations", mac)' = Seen("associations", mac)
        /\ Seen("hotspot", mac)' = Seen("hotspot", mac) /\ Seen("dhcp", mac)' = Seen("dhcp", mac)
    BY <1>1, <1>2, <1>8
  <2>2. List(Seen("arp", mac) \cup {n}, Append(client.arp, n))
    BY <1>1, <1>3, <1>8, Appended
  <2> QED
    BY <1>1, <1>3, <1>8, <2>1, <2>2 DEF Noted, Faithful, ClientType, List
<1>9. CASE source = "dhcp"
  <2>1. /\ Seen("dhcp", mac)' = Seen("dhcp", mac) \cup {n}
        /\ Seen("associations", mac)' = Seen("associations", mac)
        /\ Seen("hotspot", mac)' = Seen("hotspot", mac) /\ Seen("arp", mac)' = Seen("arp", mac)
    BY <1>1, <1>2, <1>9
  <2>2. List(Seen("dhcp", mac) \cup {n}, Append(client.dhcp, n))
    BY <1>1, <1>3, <1>9, Appended
  <2> QED
    BY <1>1, <1>3, <1>9, <2>1, <2>2 DEF Noted, Faithful, ClientType, List
<1> QED
  BY <1>2, <1>6, <1>7, <1>8, <1>9

(* A turn that puts what was seen of its address, the record included, keeps *)
(* the map a union.                                                          *)
LEMMA PutJoins ==
  ASSUME Inv, NEW source \in Sources, Take(source),
         NEW mac, mac = Current(source).mac, NEW client,
         Put(mac, client), Faithful(client, mac)'
  PROVE  Inv'
<1>1. /\ Walking' /\ mac \in Macs
      /\ \A s \in Sources, m \in Macs :
           Seen(s, m)' = IF s = source /\ m = mac
                         THEN Seen(s, m) \cup {next[source]} ELSE Seen(s, m)
  BY OneMore DEF Inv
<1>2. DOMAIN clients' = DOMAIN clients \cup {mac}
  BY DEF Put
<1>3. \A m \in Macs : Met(m)' <=> Met(m) \/ m = mac
  BY <1>1 DEF Met
<1>4. DOMAIN clients' = {m \in Macs : Met(m)}'
  BY <1>1, <1>2, <1>3 DEF Inv, Joined
<1>5. ASSUME NEW m \in DOMAIN clients' PROVE Faithful(clients[m], m)'
  <2>1. CASE m = mac
    <3>1. clients'[mac] = client
      BY <1>2 DEF Put
    <3> QED
      BY <2>1, <3>1 DEF Faithful
  <2>2. CASE m # mac
    <3>1. m \in DOMAIN clients /\ m \in Macs /\ clients'[m] = clients[m]
      BY <1>2, <2>2 DEF Put, Inv, Joined
    <3>2. \A s \in Sources : Seen(s, m)' = Seen(s, m)
      BY <1>1, <2>2, <3>1
    <3>3. Faithful(clients[m], m)
      BY <3>1 DEF Inv, Joined
    <3> QED
      BY <3>1, <3>2, <3>3 DEF Faithful, Sources
  <2> QED
    BY <2>1, <2>2
<1> QED
  BY <1>1, <1>4, <1>5 DEF Inv, Joined

-----------------------------------------------------------------------------
LEMMA Initially == Init => Inv
<1> SUFFICES ASSUME Init PROVE Inv
  OBVIOUS
<1>1. \A s \in Sources : replies[s] \in Seq(Record)
  <2> SUFFICES ASSUME NEW s \in Sources PROVE replies[s] \in Seq(Record)
    OBVIOUS
  <2>1. PICK k \in 0..MaxRecords : replies[s] \in [1..k -> Records(s)]
    BY DEF Init, UpTo
  <2>2. Records(s) \subseteq Record
    BY DEF Records, Record
  <2>3. k \in Nat /\ replies[s] \in [1..k -> Record]
    BY <2>1, <2>2, MaxRecordsAssumption
  <2> QED
    BY <2>3
<1>2. Walking
  <2>1. \A s \in Sources : Len(replies[s]) \in Nat
    BY <1>1
  <2> QED
    BY <1>1, <2>1 DEF Init, Walking
<1>3. \A s \in Sources, m \in Macs : Seen(s, m) = {}
  BY DEF Init, Seen
<1>4. Joined
  BY <1>3 DEF Init, Joined, Met
<1> QED
  BY <1>2, <1>4 DEF Inv

LEMMA Invariant == Spec => []Inv
<1>1. ASSUME Inv, [Next]_vars PROVE Inv'
  <2>1. ASSUME NEW s \in Sources, Take(s),
               Put(Current(s).mac, Noted(s, Entry(Current(s).mac), next[s]))
        PROVE  Inv'
    <3>1. PICK mac : mac = Current(s).mac
      OBVIOUS
    <3>2. PICK n : n = next[s]
      OBVIOUS
    <3>3. PICK entry : entry = Entry(mac)
      OBVIOUS
    <3>4. mac \in Macs
      BY <1>1, <2>1, <3>1, OneMore DEF Inv
    <3>5. Faithful(entry, mac)
      BY <1>1, <3>3, <3>4, EntryFaithful
    <3>6. Faithful(Noted(s, entry, n), mac)'
      BY <1>1, <2>1, <3>1, <3>2, <3>5, NotedFaithful
    <3>7. PICK client : client = Noted(s, entry, n)
      OBVIOUS
    <3>8. Faithful(client, mac)'
      BY <3>6, <3>7
    <3>9. Put(mac, client)
      BY <2>1, <3>1, <3>2, <3>3, <3>7
    <3> QED
      BY <1>1, <2>1, <3>1, <3>8, <3>9, PutJoins
  <2>2. {"associations", "hotspot", "arp", "dhcp"} = Sources
    BY DEF Sources
  <2>3. CASE AddAssociation
    BY <2>1, <2>2, <2>3 DEF AddAssociation, Noted
  <2>4. CASE AddHotspot
    BY <2>1, <2>2, <2>4 DEF AddHotspot, Noted
  <2>5. CASE AddArp
    BY <2>1, <2>2, <2>5 DEF AddArp, Noted
  <2>6. CASE AddDhcp
    BY <2>1, <2>2, <2>6 DEF AddDhcp, Noted
  <2>7. CASE UNCHANGED vars
    <3>1. \A s \in Sources, m \in Macs : Seen(s, m)' = Seen(s, m)
      BY <2>7 DEF vars, Seen
    <3>2. Walking' /\ (\A m \in Macs : Met(m)' <=> Met(m)) /\ clients' = clients
      BY <1>1, <2>7, <3>1 DEF vars, Inv, Walking, Met
    <3> QED
      BY <1>1, <3>1, <3>2 DEF Inv, Joined, Faithful, Sources
  <2> QED
    BY <1>1, <2>3, <2>4, <2>5, <2>6, <2>7 DEF Next, Done
<1> QED
  BY <1>1, Initially, PTL DEF Spec

-----------------------------------------------------------------------------
LEMMA AllSeen ==
  ASSUME Inv, Built
  PROVE  \A s \in Sources, m \in Macs : Seen(s, m) = Of(s, m)
<1> SUFFICES ASSUME NEW s \in Sources, NEW m \in Macs PROVE Seen(s, m) = Of(s, m)
  OBVIOUS
<1>1. replies[s] \in Seq(Record) /\ next[s] \in Nat /\ next[s] <= Len(replies[s]) + 1
  BY DEF Inv, Walking
<1>2. next[s] > Len(replies[s])
  BY DEF Built, Read
<1>3. 1..(next[s] - 1) = DOMAIN replies[s]
  BY <1>1, <1>2
<1> QED
  BY <1>3 DEF Seen, Of

(* However long the replies are and however often they repeat an address,    *)
(* the index is their union by address.                                      *)
THEOREM IndexIsTheUnion == Spec => []IndexIsUnion
<1>1. ASSUME Inv PROVE IndexIsUnion
  <2> SUFFICES ASSUME Built PROVE IndexIsUnion
    BY DEF IndexIsUnion
  <2>1. \A s \in Sources, m \in Macs : Seen(s, m) = Of(s, m)
    BY <1>1, AllSeen
  <2>2. DOMAIN clients = {m \in Macs : \E s \in Sources : Of(s, m) # {}}
    BY <1>1, <2>1 DEF Inv, Joined, Met
  <2>3. ASSUME NEW m \in DOMAIN clients
        PROVE  /\ List(Of("arp", m), clients[m].arp) /\ List(Of("dhcp", m), clients[m].dhcp)
               /\ Latest(clients[m].association, Of("associations", m))
               /\ Latest(clients[m].hotspot, Of("hotspot", m))
    <3>1. Faithful(clients[m], m) /\ m \in Macs
      BY <1>1, <2>2 DEF Inv, Joined
    <3> QED
      BY <2>1, <3>1 DEF Faithful, Sources
  <2> QED
    BY <2>2, <2>3 DEF IndexIsUnion, List, Latest
<1> QED
  BY <1>1, Invariant, PTL

(* Activity is read from the associations and the last hotspot record of the *)
(* address, whatever the replies.                                            *)
THEOREM ActivityHasEvidence == Spec => []ActivityIsProven
<1>1. ASSUME Inv PROVE ActivityIsProven
  <2> DEFINE listed(m, active) ==
               \E i \in Of("hotspot", m) :
                 /\ \A j \in Of("hotspot", m) : j <= i
                 /\ replies["hotspot"][i].active = active
  <2> SUFFICES ASSUME Built, NEW m \in DOMAIN clients
               PROVE  LET activity == Activity(clients[m])
                          associated == Of("associations", m) # {}
                      IN /\ activity = "Active" <=> associated \/ listed(m, TRUE)
                         /\ activity = "Inactive" <=> ~associated /\ listed(m, FALSE)
                         /\ activity = "Unknown" <=> ~associated /\ Of("hotspot", m) = {}
    BY DEF ActivityIsProven
  <2> DEFINE client == clients[m]
  <2>1. m \in Macs /\ Faithful(client, m)
    BY <1>1 DEF Inv, Joined
  <2>2. /\ Latest(client.association, Of("associations", m))
        /\ Latest(client.hotspot, Of("hotspot", m))
    BY <1>1, <2>1, AllSeen DEF Faithful, Sources
  <2>3. ASSUME NEW s \in Sources PROVE None \notin Of(s, m)
    <3>1. replies[s] \in Seq(Record)
      BY <1>1 DEF Inv, Walking
    <3> QED
      BY <3>1 DEF Of, None
  <2>4. /\ client.association = None <=> Of("associations", m) = {}
        /\ client.hotspot = None <=> Of("hotspot", m) = {}
        /\ client.hotspot # None => client.hotspot \in Of("hotspot", m)
        /\ \A i \in Of("hotspot", m) : i <= client.hotspot
    BY <2>2, <2>3 DEF Latest, Sources
  <2>5. replies["hotspot"] \in Seq(Record)
    BY <1>1 DEF Inv, Walking, Sources
  <2>6. ASSUME NEW i \in Of("hotspot", m)
        PROVE  i \in Nat /\ replies["hotspot"][i].active \in BOOLEAN
    <3>1. i \in 1..Len(replies["hotspot"])
      BY <2>5 DEF Of
    <3>2. replies["hotspot"][i] \in Record
      BY <2>5, <3>1, ElementOfSeq
    <3> QED
      BY <3>1, <3>2 DEF Record
  <2>7. ASSUME NEW active
        PROVE  listed(m, active) <=>
                 client.hotspot # None /\ replies["hotspot"][client.hotspot].active = active
    <3>1. ASSUME NEW i \in Of("hotspot", m), \A j \in Of("hotspot", m) : j <= i
          PROVE  i = client.hotspot /\ client.hotspot # None
      <4>1. client.hotspot \in Of("hotspot", m) /\ client.hotspot # None
        BY <2>4
      <4>2. client.hotspot <= i /\ i <= client.hotspot /\ i \in Nat /\ client.hotspot \in Nat
        BY <2>4, <2>6, <3>1, <4>1
      <4> QED
        BY ONLY <4>1, <4>2
    <3> QED
      BY <2>4, <3>1
  <2>8. client.hotspot # None => replies["hotspot"][client.hotspot].active \in BOOLEAN
    BY <2>4, <2>6
  <2>9. /\ listed(m, TRUE) <=>
             client.hotspot # None /\ replies["hotspot"][client.hotspot].active = TRUE
        /\ listed(m, FALSE) <=>
             client.hotspot # None /\ replies["hotspot"][client.hotspot].active = FALSE
    BY <2>7
  <2> HIDE DEF client, listed
  <2> QED
    BY <2>4, <2>8, <2>9 DEF Activity, client
<1> QED
  BY <1>1, Invariant, PTL
=============================================================================

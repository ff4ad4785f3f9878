--------------------------- MODULE ReplyDecoding ---------------------------
(***************************************************************************)
(* What decoding makes of a reply in which some members are missing, blank *)
(* or written in a form other than the usual one, whatever the replies'    *)
(* declarations are.                                                       *)
(***************************************************************************)
EXTENDS RciValues, FiniteSets

CONSTANTS
  Replies,  \* the declarations: from their names to their members' kinds
  Varied    \* bound: how many members of a reply of each type are varied at once

ASSUME RepliesAssumption ==
  /\ Varied \in [DOMAIN Replies -> Nat]
  /\ \A t \in DOMAIN Replies : \A name \in DOMAIN Replies[t] :
       LET kind == Replies[t][name]
       IN Generic \subseteq DOMAIN kind /\ \E v \in DOMAIN kind : IsValue(kind[v])

Types == DOMAIN Replies

VARIABLES
  type,      \* the declaration a reply is decoded as
  reply,     \* the form of each of its members
  changed,   \* the members that were given another form than at first
  kept       \* what decoding made of the reply

vars == <<type, reply, changed, kept>>

Fails(v) == v \in {Refused, Panics}

Mobile == Traits({"Ip", "UsbLte"})
Usual(kind) ==
  LET fits == {v \in DOMAIN kind : IsValue(kind[v])}
  IN IF Mobile \in fits THEN Mobile
     ELSE IF fits \ Generic # {} THEN CHOOSE v \in fits \ Generic : TRUE
     ELSE CHOOSE v \in fits : TRUE
Bare(kind) == IF kind[Absent] # Refused THEN Absent ELSE Usual(kind)

(* The usual reply, and one without what may be missing *)
FullReply(kinds) == [name \in DOMAIN kinds |-> Usual(kinds[name])]
BareReply(kinds) == [name \in DOMAIN kinds |-> Bare(kinds[name])]
FirstReplies(kinds) == {FullReply(kinds), BareReply(kinds)}

Waiting == [is |-> "waiting"]

Init ==
  /\ type \in Types /\ reply \in FirstReplies(Replies[type])
  /\ changed = {} /\ kept = Waiting

(* A member is missing, blank or written in another way. *)
Vary ==
  /\ kept = Waiting
  /\ Cardinality(changed) < Varied[type]
  /\ \E name \in DOMAIN reply \ changed :
       /\ \E v \in DOMAIN Replies[type][name] : reply' = [reply EXCEPT ![name] = v]
       /\ changed' = changed \cup {name}
  /\ UNCHANGED <<type, kept>>

Made(kinds) == [name \in DOMAIN reply |-> kinds[name][reply[name]]]
Judge(made) ==
  LET ways == {made[name] : name \in DOMAIN reply}
  IN IF Panics \in ways THEN Panics
     ELSE IF Refused \in ways THEN Refused
     ELSE IF type = "MobileInterface" /\ ~IsMobileBroadband(made["traits"]) THEN Refused
     ELSE [is |-> "kept", members |-> made]

Decode ==
  /\ kept = Waiting
  /\ kept' = Judge(Made(Replies[type]))
  /\ UNCHANGED <<type, reply, changed>>

Decoded == kept # Waiting /\ UNCHANGED vars

Next == Vary \/ Decode \/ Decoded

Spec == Init /\ [][Next]_vars

-----------------------------------------------------------------------------
(* Properties *)

IsKept == kept.is = "kept"

(* A number that is kept fits the width of its type. *)
TypeOK ==
  /\ type \in Types /\ changed \subseteq DOMAIN reply
  /\ kept \in {Waiting, Refused, Panics} \/ (IsKept /\ DOMAIN kept.members = DOMAIN reply)
  /\ IsKept => \A name \in changed :
       LET v == kept.members[name]
       IN /\ v.is = "number" => v.n \in (-(U64Max \div 2) - 1)..U64Max
          /\ v.is = "rate" => v.bits \in 0..U64Max

(* What a form means, said without the code: an amount is so many wholes and *)
(* so many billionths of one.                                                *)
Amount(whole, part) == [is |-> "amount", whole |-> whole, part |-> part]
Meaning(v) ==
  CASE v.is \in {"number", "digits"} -> Amount(v.n, 0)
    [] v.is = "uptime" ->
         Amount(86400 * v.days + 3600 * v.hours + 60 * v.minutes + v.seconds, 0)
    [] v.is = "decimal" -> Amount(v.whole, v.fraction * (1000000000 \div 10^v.length))
    [] v.is = "recased" -> Text(v.recased)
    [] v.is = "moment" -> Moment("local")
    [] v.is = "mac" -> Mac("any")
    [] v.is = "address" /\ v.spelling = "variant" -> Address(v.family, "plain")
    [] v.is = "nr" /\ v.n <= 65535 -> Nr(v.n, "n")
    [] v.is = "modes" -> Modes(Trimmed(v.parts))
    [] v = Text("1.5") -> Float("fraction")
    [] OTHER -> v

Size(v) ==
  CASE v.is \in {"number", "digits", "real"} -> Amount(v.n, 0)
    [] v.is = "rate" -> Amount(v.bits, 0)
    [] v.is = "duration" -> Amount(v.whole, v.nanos.n)
    [] OTHER -> v
Less(a, b) == a.whole < b.whole \/ (a.whole = b.whole /\ a.part < b.part)

Agree(v, w, keptOfV, keptOfW) ==
  LET mv == Meaning(v)
      mw == Meaning(w)
  IN IF mv.is = "amount" /\ mw.is = "amount"
     THEN Less(mv, mw) <=> Less(Size(keptOfV), Size(keptOfW))
     ELSE mv = mw <=> keptOfV = keptOfW

AgreesWithAll(kind, v, made) ==
  IsValue(made) => \A w \in DOMAIN kind : IsValue(kind[w]) => Agree(v, w, made, kind[w])

(* Two forms of a member are kept as one value exactly when they mean one    *)
(* value, and amounts are kept in their order: no spelling of a quantity is  *)
(* kept as another quantity, however large it is.                            *)
MeaningKept ==
  IsKept => \A name \in changed :
    AgreesWithAll(Replies[type][name], reply[name], kept.members[name])

Shown(v) == IF v.is = "reported" THEN v.reads ELSE v

MeansThere(kinds, name, made) ==
  name \in DOMAIN kinds /\ reply[name] \in DOMAIN kinds[name]
    /\ IsValue(kinds[name][reply[name]]) /\ IsValue(made)
  => Shown(kinds[name][reply[name]]) = Shown(made)

(* A member of one name means one thing in every reply that has it: a form   *)
(* two replies keep is kept as the same value, in the same unit.             *)
SameMember ==
  IsKept => \A name \in changed : \A other \in Types :
    MeansThere(Replies[other], name, kept.members[name])

OneOf(kinds) ==
  /\ DOMAIN reply = DOMAIN kinds
  /\ IsKept <=> /\ \A name \in DOMAIN reply : ~Fails(kinds[name][reply[name]])
                /\ IsMobileBroadband(kinds["traits"][reply["traits"]])
  /\ IsKept => kept.members = Made(kinds)

(* The flat declaration of a mobile interface keeps and refuses what the     *)
(* interface and the mobile status do that it is taken apart into, and only  *)
(* of an interface that Interfaces::lte lists.                               *)
OneDeclaration ==
  type = "MobileInterface" /\ kept # Waiting =>
    OneOf(Replies["Interface"] @@ Replies["MobileStatus"])

NotTexts == {"pin-attempts", "embedded", "roaming", "active", "signal-level", "earfcn", "dl-freq",
           "ul-freq", "carrier", "ati", "uim"}

(* "The router omits them before modem detection and reports some            *)
(* unavailable values as empty strings": a mobile status whose members are   *)
(* missing, or whose texts are empty, is a status without them.              *)
BeforeDetection ==
  type \in {"MobileStatus", "MobileSignal", "ServingCell", "ComponentCarrier", "LteModem", "LteSim"}
    /\ kept # Waiting
    /\ (\A name \in changed :
          reply[name] = Absent \/ (reply[name] = Text("") /\ name \notin NotTexts))
  => IsKept /\ \A name \in changed : kept.members[name] = None

Identities == {"imei", "imsi", "iccid"}
Misread(v, w) ==
  w.is = "imei" /\ Cardinality({i \in 1..15 : w.number[i] # v.number[i]}) = 1
OnlyImei(kind, v) ==
  v.is = "imei" /\ kind[v].as = "parsed" =>
    \A w \in DOMAIN kind : Misread(v, w) => kind[w].as = "raw"

(* An identity the router reports never costs the rest of the reply and is   *)
(* kept as it was reported; of two numbers that differ in one digit at most  *)
(* one is taken for an IMEI.                                                 *)
IdentityIsKept ==
  /\ kept \in {Refused, Panics} =>
       \E name \in changed : name \notin Identities \/ ~IsText(reply[name])
  /\ IsKept => \A name \in Identities \cap changed :
       /\ kept.members[name] # None => kept.members[name].reads = reply[name]
       /\ OnlyImei(Replies[type][name], reply[name])

(* A cell identity fits in 28 bits and names one cell: no other eNodeB and   *)
(* sector that can be reported have it.                                      *)
CellIdentity ==
  IsKept /\ type = "ServingCell" =>
    LET enb == kept.members["enb-id"]
        sector == kept.members["sector-id"]
        eci == Eci(enb, sector)
    IN eci # None =>
         /\ 0 <= eci.n /\ eci.n < 268435456
         /\ \A n, s \in Numbers \cap Nat :
              n <= U32Max /\ s <= 65535 /\ Eci(Number(n), Number(s)) = eci =>
                n = enb.n /\ s = sector.n

(* No text a reply can carry makes its decoding panic. *)
NeverPanics == kept # Panics
=============================================================================

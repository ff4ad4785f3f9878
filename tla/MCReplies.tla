----------------------------- MODULE MCReplies -----------------------------
(* The replies of src/model/, and values for the bounds: the edges of every *)
(* width and unit.  The widths are scaled down, to fit TLC's own integers.   *)
EXTENDS RciReplies, ReplyDecoding

MCNumbers ==
  {0, 1, 63, 64, 100, 101, 255, 256, 65535, 65536, 1048575, 1048576, U32Max, U32Max + 1,
   U64Max \div 1000000, U64Max \div 1000000 + 1, U64Max \div 1000, U64Max \div 1000 + 1,
   U64Max, U64Max + 1} \cup {-1, -(U32Max \div 2) - 2}

MCVaried ==
  [t \in DOMAIN Declarations |->
     IF t \in {"ServingCell", "InternetStatus", "TrafficShape", "HotspotDhcp"} THEN 2 ELSE 1]

(* 24305 days and 13:20:00 are U64Max seconds. *)
MCHumanUptimes ==
  {<<0, 0, 0, 0>>, <<0, 0, 1, 40>>, <<0, 23, 59, 59>>, <<0, 24, 0, 0>>, <<0, 0, 60, 0>>,
   <<0, 0, 0, 60>>, <<1, 0, 0, 0>>, <<24305, 13, 20, 0>>, <<24305, 13, 20, 1>>,
   <<24305, 13, 21, 0>>, <<24306, 0, 0, 0>>, <<24800, 23, 59, 59>>}

(* A number with a right checksum, and every misreading of one digit of it *)
AnImei == <<4, 9, 0, 1, 5, 4, 2, 0, 3, 2, 3, 7, 5, 1, 8>>
MCImeiDigits == {[AnImei EXCEPT ![i] = d] : i \in 1..15, d \in 0..9}

MCHardwareIds ==
  {<<"K", "N", "-", "0", "0", "0", "0">>, <<"N", "C", "-", "0", "0", "0", "0">>,
   <<"K", "C", "-", "0", "0", "0", "0">>, <<"K", "N", "-", "0", "0", "0", "K">>,
   <<"K", "N", "-", "0", "0", "0">>, <<"K", "N", "0", "-", "0", "0", "0">>,
   <<"K", "lead", "cont", "0", "0", "0", "0">>, <<"K", "N", "lead", "cont", "0", "0", "0">>,
   <<"lead", "cont", "-", "0", "0", "0", "0">>, <<"K", "N", "-", "lead", "cont", "0", "0">>}
=============================================================================

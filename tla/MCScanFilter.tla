---------------------------- MODULE MCScanFilter ----------------------------
(***************************************************************************)
(* A small instance of ScanFilter: two cameras and another device, short    *)
(* names over two letters, advertisements of at most two elements.  Two     *)
(* UUIDs and two entries of manufacturer data fit, so that filters of one   *)
(* kind meet each other.                                                    *)
(***************************************************************************)
EXTENDS ScanFilter

CONSTANTS c1, c2, other, Heart

MCDevices == {c1, c2, other}
MCCameras == {c1, c2}
MCTexts == {<<>>, <<"a">>, <<"a", "b">>}
MCUuids == {GoPro, Heart}
MCCapacity == [k \in Kinds |-> CASE k \in {"uuid", "manufacturer"} -> 2 [] OTHER -> 1]

Elements ==
  [kind : NameKinds \cup {"manufacturer"}, data : MCTexts]
  \cup [kind : {"uuid"}, data : SUBSET MCUuids \ {{}}]
  \cup [kind : {"appearance"}, data : {"camera", Malformed}]

MCReports == [addr : {c1}, ad : {<<>>} \cup [1..1 -> Elements] \cup [1..2 -> Elements]]
=============================================================================

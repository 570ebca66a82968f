------------------------------ MODULE MCCanBus ------------------------------
(***************************************************************************)
(* A small instance of CanBus.  The camera reports a record state, a battery *)
(* level, a number of videos of two bytes, and a value the gateway does not  *)
(* know, alone or two in one message, in either order, or with an error; two *)
(* values also in the reply to a request.                                    *)
(***************************************************************************)
EXTENDS CanBus

Values ==
  {[id |-> GOPRO_STATUS_ID_ENCODING, n |-> 0], [id |-> GOPRO_STATUS_ID_ENCODING, n |-> 1],
   [id |-> GOPRO_STATUS_ID_BAT_PERCENT, n |-> 39],
   [id |-> GOPRO_STATUS_ID_VIDEO_NUM, n |-> 513],
   [id |-> 99, n |-> GOPRO_STATUS_ID_ENCODING], [id |-> 99, n |-> 2570]}

One == {<<v>> : v \in Values}
Two == {<<v, w>> : v, w \in Values}

MCReports ==
  [id : {GOPRO_QUERY_STATUS_REG_STATUS_NOTIFY}, result : {0}, list : Two]
  \cup [id : {GOPRO_QUERY_STATUS_REG_STATUS}, result : {0, 1}, list : {<<>>} \cup One]
  \cup [id : {GOPRO_QUERY_STATUS_GET_STATUS}, result : {0, 1}, list : One \cup Two]
=============================================================================

------------------------------- MODULE CanBus -------------------------------
(***************************************************************************)
(* The CAN side of the gateway's state (src/canbus.c): what the camera      *)
(* reports about itself (gopro_packet_parse_query, src/gopro_packet.c) goes *)
(* into gopro_state, and from there every 100 ms into a heartbeat frame; a  *)
(* command from the bus that cannot be passed on is answered by an error    *)
(* frame.  Both kinds of frame go through can_tx_chan to a task that hands  *)
(* them to the controller one by one.                                       *)
(*                                                                         *)
(* The Bluetooth callbacks, the system work queue and the driver's receive  *)
(* thread are cooperative, so each handler is one action; the transmit task *)
(* is preemptible and is cut where it waits.  can_data_subscriber_task is   *)
(* left out: nothing publishes on can_txdata_chan, it waits for ever.       *)
(***************************************************************************)
EXTENDS Naturals, Sequences, FiniteSets, SequencesExt

CONSTANTS
  PoolSize,   \* net buffers of all the message subscribers
  Mailboxes,  \* transmit buffers of the CAN controller
  Reports,    \* bound: the status messages of the camera
  MaxChanges, \* bound: status messages and changes of the link
  MaxCmds,    \* bound: commands from the bus
  MaxFaults   \* bound: times the controller refuses, loses or delays a frame, or others
              \* hold the net buffers

ASSUME CanConstants ==
  /\ PoolSize \in Nat \ {0} /\ Mailboxes \in Nat \ {0}
  /\ MaxChanges \in Nat /\ MaxCmds \in Nat /\ MaxFaults \in Nat

VARIABLES
  state,     \* gopro_state.state
  status,    \* gopro_state.record, .battery and .video_count
  work,      \* can_tx_work is on the system work queue
  queue,     \* can_tx_subscriber
  task,      \* can_tx_subscriber_task: where it stands, and whether can_send took its frame
  sem,       \* count of can_tx_sem
  mailbox,   \* the frames the controller has taken and not reported
  shown,     \* the last heartbeat on the bus
  cmds,      \* commands received so far
  faults,    \* faults of the controller and lacks of buffers so far
  changes,   \* status messages and changes of the link so far
  reported,  \* history: the values the camera has reported last (LastOf)
  slow       \* history: a wait has ended before the controller's report

camera == <<state, status, changes, reported>>
thread == <<task, sem>>
device == <<mailbox, shown, faults, slow>>
vars   == <<camera, work, queue, thread, device, cmds>>

-----------------------------------------------------------------------------
(* Frames *)

GPCAN_HEART_BEAT_ID == 1844     \* 0x734
GPCAN_REPLY_MSG_ERR_ID == 1856  \* 0x740
GP_STATE_UNKNOWN == 0
GP_STATE_OFFLINE == 1
GP_STATE_CONNECTED == 3

err_state_frame == [id |-> GPCAN_REPLY_MSG_ERR_ID, dlc |-> 1, data |-> <<255>>]

\* The heartbeat for a state and status; of the number of videos the low byte.
Beat(st, s) ==
  [id |-> GPCAN_HEART_BEAT_ID, dlc |-> 4,
   data |-> <<st, s.record, s.battery, s.video_count % 256>>]

can_msg_validator(f) == f.dlc \in 1..8 /\ f.id <= 2047

Fault == faults < MaxFaults /\ faults' = faults + 1

\* zbus_chan_pub on can_tx_chan; without a net buffer the frame is dropped.  The other
\* subscribers' messages may hold all the buffers.
Publish(f) ==
  \/ /\ queue' = IF can_msg_validator(f) /\ Len(queue) < PoolSize THEN Append(queue, f) ELSE queue
     /\ UNCHANGED faults
  \/ Fault /\ UNCHANGED queue

-----------------------------------------------------------------------------
(* Status messages *)

GOPRO_STATUS_ID_ENCODING == 10
GOPRO_STATUS_ID_VIDEO_NUM == 39
GOPRO_STATUS_ID_BAT_PERCENT == 70

GOPRO_QUERY_STATUS_GET_STATUS == 19            \* 0x13
GOPRO_QUERY_STATUS_REG_STATUS == 83            \* 0x53
GOPRO_QUERY_STATUS_REG_STATUS_NOTIFY == 147    \* 0x93

\* A number as 32 bits hold it; one or two bytes here, so that it stays below 2^16.
video_count(bytes) == FoldLeft(LAMBDA n, b : n * 256 + b, 0, bytes)

\* The entry that starts at p: an identifier, a length, and the value.
Entry(s, m, p) ==
  CASE m[p] = GOPRO_STATUS_ID_ENCODING -> [s EXCEPT !.record = m[p + 2]]
    [] m[p] = GOPRO_STATUS_ID_BAT_PERCENT -> [s EXCEPT !.battery = m[p + 2]]
    [] m[p] = GOPRO_STATUS_ID_VIDEO_NUM ->
         [s EXCEPT !.video_count = video_count(SubSeq(m, p + 2, p + 1 + m[p + 1]))]
    [] OTHER -> s

\* Where the entry at p ends: of a record state or a battery level one byte is read,
\* whatever its length.
NextEntry(m, p) ==
  IF m[p] \in {GOPRO_STATUS_ID_ENCODING, GOPRO_STATUS_ID_BAT_PERCENT} THEN p + 3
  ELSE p + 2 + m[p + 1]

\* total_data_len starts one short of what follows the identifier and the result, so
\* the loop ends when no more than one byte is left.
Entries(m) ==
  LET from[p \in Nat] == IF p >= Len(m) THEN <<>> ELSE <<p>> \o from[NextEntry(m, p)]
  IN  from[3]

gopro_parse_query_status_notify(m) ==
  FoldLeft(LAMBDA s, p : Entry(s, m, p), status, Entries(m))

\* Only the first entry.
gopro_parse_query_status_reply(m) == Entry(status, m, 3)

\* Messages of other features go to the camera's network state.
gopro_packet_parse_query(m) ==
  CASE m[2] # 0 -> status
    [] m[2] = 0 /\ m[1] \in {GOPRO_QUERY_STATUS_REG_STATUS, GOPRO_QUERY_STATUS_REG_STATUS_NOTIFY} ->
         gopro_parse_query_status_notify(m)
    [] m[2] = 0 /\ m[1] = GOPRO_QUERY_STATUS_GET_STATUS -> gopro_parse_query_status_reply(m)

-----------------------------------------------------------------------------
(* The camera, and what it says: a message is a list of values by identifier *)

Value == [id : Nat, n : Nat]

\* A record state and a battery level are one byte.  A request names the statuses it is
\* for, any number of them when it comes from the bus (rx_callback_function), and a reply
\* without an error has them.
ASSUME ReportConstants ==
  \A r \in Reports :
    /\ r.id \in {GOPRO_QUERY_STATUS_GET_STATUS, GOPRO_QUERY_STATUS_REG_STATUS,
                 GOPRO_QUERY_STATUS_REG_STATUS_NOTIFY}
    /\ r.result \in Nat /\ r.list \in Seq(Value)
    /\ \A i \in 1..Len(r.list) :
         r.list[i].id \in {GOPRO_STATUS_ID_ENCODING, GOPRO_STATUS_ID_BAT_PERCENT} => r.list[i].n < 256
    /\ r.id = GOPRO_QUERY_STATUS_GET_STATUS /\ r.result = 0 => r.list # <<>>

Bytes(n) == IF n < 256 THEN <<n>> ELSE <<n \div 256, n % 256>>

Encode(r) ==
  <<r.id, r.result>> \o FlattenSeq([i \in DOMAIN r.list |->
                                      <<r.list[i].id, Len(Bytes(r.list[i].n))>> \o Bytes(r.list[i].n)])

\* The values of a message that the gateway reads: of the reply to a request only the
\* first.  Its own requests are for one value (startup_query_list).
Counting(r) ==
  IF r.result # 0 THEN {}
  ELSE IF r.id = GOPRO_QUERY_STATUS_GET_STATUS THEN {1} ELSE DOMAIN r.list

\* The last value of an identifier among them, or else the one before the message.
LastOf(r, id, before) ==
  LET at == {i \in Counting(r) : r.list[i].id = id}
  IN  IF at = {} THEN before ELSE r.list[CHOOSE i \in at : \A j \in at : j <= i].n

Change == changes < MaxChanges /\ changes' = changes + 1

StatusReport(r) ==
  /\ Change
  /\ status' = gopro_packet_parse_query(Encode(r))
  /\ reported' = [record |-> LastOf(r, GOPRO_STATUS_ID_ENCODING, reported.record),
                  battery |-> LastOf(r, GOPRO_STATUS_ID_BAT_PERCENT, reported.battery),
                  video_count |-> LastOf(r, GOPRO_STATUS_ID_VIDEO_NUM, reported.video_count)]
  /\ UNCHANGED <<state, work, queue, thread, device, cmds>>

\* The link comes and goes; what the camera has reported stays.
gopro_client_set_sate(s) ==
  /\ Change
  /\ state' = s
  /\ UNCHANGED <<status, reported, work, queue, thread, device, cmds>>

-----------------------------------------------------------------------------
(* The heartbeat and the commands *)

can_tx_timer_handler ==
  /\ work' = TRUE
  /\ UNCHANGED <<camera, queue, thread, device, cmds>>

can_tx_work_handler ==
  /\ work
  /\ work' = FALSE
  /\ Publish(Beat(state, status))
  /\ UNCHANGED <<camera, thread, mailbox, shown, slow, cmds>>

\* A command frame from the bus: gopro_cmd_validator refuses it (-ENOMSG) while no
\* camera is connected, unless it is for the gateway itself.  One that is accepted, or
\* dropped for want of a buffer, is Commands' business.
rx_callback_function(control) ==
  /\ cmds < MaxCmds
  /\ cmds' = cmds + 1
  /\ IF control \/ state = GP_STATE_CONNECTED THEN UNCHANGED <<queue, faults>>
     ELSE Publish(err_state_frame)
  /\ UNCHANGED <<camera, work, thread, mailbox, shown, slow>>

-----------------------------------------------------------------------------
(* The transmit task *)

\* zbus_sub_wait_msg and can_send; the task goes on to wait even if can_send failed.
Send ==
  /\ task.at = "wait" /\ queue # <<>>
  /\ queue' = Tail(queue)
  /\ \/ /\ Len(mailbox) < Mailboxes
        /\ mailbox' = Append(mailbox, Head(queue))
        /\ task' = [at |-> "sem", sent |-> TRUE]
        /\ UNCHANGED faults
     \/ /\ UNCHANGED mailbox
        /\ task' = [at |-> "sem", sent |-> FALSE]
        /\ IF Len(mailbox) = Mailboxes THEN UNCHANGED faults ELSE Fault
  /\ UNCHANGED <<camera, work, sem, shown, slow, cmds>>

SemTaken ==
  /\ task.at = "sem" /\ sem = 1
  /\ sem' = 0
  /\ task' = [at |-> "wait", sent |-> FALSE]
  /\ UNCHANGED <<camera, work, queue, device, cmds>>

SemForever == FALSE /\ UNCHANGED vars

\* 50 ms have passed: nothing was sent, or the controller's report is late.
SemTimeout ==
  /\ task.at = "sem" /\ sem = 0
  /\ IF task.sent THEN Fault /\ slow' = TRUE ELSE UNCHANGED <<faults, slow>>
  /\ task' = [at |-> "wait", sent |-> FALSE]
  /\ UNCHANGED <<camera, work, queue, sem, mailbox, shown, cmds>>

CallbackIfSent(error) == sem' = IF error THEN sem ELSE 1

\* k_sem_give, whatever the error.
can_tx_callback(error) == sem' = 1

\* The controller has sent a frame, or given up on it; it chooses among its mailboxes.
Transmit(i) ==
  /\ mailbox' = RemoveAt(mailbox, i)
  /\ \/ /\ can_tx_callback(FALSE)
        /\ shown' = IF mailbox[i].id = GPCAN_HEART_BEAT_ID THEN mailbox[i] ELSE shown
        /\ UNCHANGED faults
     \/ /\ can_tx_callback(TRUE)
        /\ Fault
        /\ UNCHANGED shown
  /\ UNCHANGED <<camera, work, queue, task, slow, cmds>>

-----------------------------------------------------------------------------

NoStatus == [record |-> 0, battery |-> 0, video_count |-> 0]

Init ==
  /\ state = GP_STATE_UNKNOWN /\ status = NoStatus /\ reported = NoStatus
  /\ changes = 0 /\ work = FALSE /\ queue = <<>>
  /\ task = [at |-> "wait", sent |-> FALSE] /\ sem = 0
  /\ mailbox = <<>> /\ shown = err_state_frame
  /\ cmds = 0 /\ faults = 0 /\ slow = FALSE

Controller == \E i \in 1..Len(mailbox) : Transmit(i)

can_tx_subscriber_task == Send \/ SemTaken \/ SemTimeout

Next ==
  \/ \E r \in Reports : StatusReport(r)
  \/ \E s \in {GP_STATE_OFFLINE, GP_STATE_CONNECTED} \ {state} : gopro_client_set_sate(s)
  \/ can_tx_timer_handler
  \/ can_tx_work_handler
  \/ \E control \in BOOLEAN : rx_callback_function(control)
  \/ can_tx_subscriber_task
  \/ Controller

Spec == Init /\ [][Next]_vars

\* The timer is periodic, the work queue and the task run, and the controller reports
\* on each frame.
FairSpec ==
  /\ Spec
  /\ WF_vars(can_tx_timer_handler) /\ WF_vars(can_tx_work_handler)
  /\ WF_vars(can_tx_subscriber_task) /\ WF_vars(Controller)

-----------------------------------------------------------------------------
(* Properties *)

\* The types of the task, its semaphore and the counters (CanBus_proofs).
TypeOK ==
  /\ work \in BOOLEAN /\ slow \in BOOLEAN
  /\ task \in [at : {"wait", "sem"}, sent : BOOLEAN]
  /\ sem \in {0, 1}
  /\ changes \in 0..MaxChanges /\ cmds \in 0..MaxCmds /\ faults \in 0..MaxFaults

\* One frame at a time: until a report of the controller comes too late, the next
\* frame is handed over only when the one before has left, so that frames leave in the
\* order they were published.  (One late report ends this for good: its token lets
\* the next wait through at once, and every wait after that.)
OneFrameOut ==
  ~slow =>
    /\ Len(mailbox) <= 1
    /\ task.sent => sem + Len(mailbox) = 1
    /\ ~task.sent => sem = 0 /\ mailbox = <<>>

\* Once the state and what the camera reports stay as they are, every heartbeat on the
\* bus comes to show them, also after frames were refused, dropped, delayed, lost or sent
\* out of order.  Of several values of a notification the last ones are shown, of a reply
\* to a request only the first: gopro_parse_query_status_reply reads no more.
LatestStateShown ==
  \/ []<><<state' # state \/ reported' # reported>>_<<state, reported>>
  \/ <>[](shown = Beat(state, reported))
=============================================================================

------------------------------ MODULE Commands ------------------------------
(***************************************************************************)
(* The commands to the camera: publishers put them on gopro_cmd_chan, long   *)
(* ones cut into frames by gopro_send_buf (src/gopro_protobuf.c);            *)
(* gopro_cmd_subscriber_task (src/gopro_ble_discovery.c) writes one after    *)
(* the other with bt_gopro_client_send and waits for on_sent_data            *)
(* (src/gopro_client.c).                                                     *)
(*                                                                         *)
(* The publishers and the subscriber are preemptible threads, the callbacks  *)
(* of the Bluetooth stack are not.  The life of the link is BleLink's; here  *)
(* it only comes and goes.                                                   *)
(***************************************************************************)
EXTENDS Naturals, Sequences

CONSTANTS
  Publishers,  \* threads and handlers that publish commands
  Handles,     \* the characteristics they write to
  Shifts,      \* where the cameras' attribute tables may start
  MaxMsgs,     \* bound: messages published
  MaxFrames,   \* bound: frames of a message
  QueueCap,    \* net buffers of the message subscribers
  Faults       \* the failures the environment may show

FaultKinds == {"pub",    \* zbus_chan_pub fails although there is room
               "gatt",   \* bt_gatt_write fails on a link that is up
               "late",   \* an answer takes longer than BLE_WRITE_TIMEOUT
               "drop"}   \* the link is lost

\* on_sent_data compares the handle with the four characteristics in this order.
Place == [settings |-> 1, cmd |-> 2, query |-> 3, net |-> 4]

\* Tables that overlap let a handle of one camera name another characteristic of the
\* next one; the cameras meant here share one layout, or do not overlap.
ASSUME CommandConstants ==
  /\ Handles \subseteq DOMAIN Place
  /\ Shifts \subseteq Nat /\ Shifts # {} /\ \A s \in Shifts : s % 4 = 0
  /\ MaxMsgs \in Nat /\ MaxFrames \in Nat \ {0} /\ QueueCap \in Nat \ {0}
  /\ Faults \subseteq FaultKinds

VARIABLES
  link,       \* the connection is up
  connected,  \* gopro_state.state is GP_STATE_CONNECTED
  shift,      \* the camera's attribute table
  begun,      \* messages published so far
  sendbuf,    \* per publisher: the frames still to publish, or <<>>
  queue,      \* gopro_cmd_subscriber
  task,       \* where gopro_cmd_subscriber_task stands
  cur,        \* its gopro_cmd
  flag,       \* per handle: GP_FLAG_..._WRITE_PENDING
  params,     \* per handle: write_params[].handle
  att,        \* the writes the stack has accepted and not answered
  wsem,       \* count of ble_write_sem
  took,       \* per message: the frames the camera has taken, in order
  slow,       \* history: a wait ended before its answer
  lost        \* history: the messages with a frame that ended before the camera

peer    == <<link, connected, shift>>
sender  == <<begun, sendbuf>>
thread  == <<task, cur>>
client  == <<flag, params, att, wsem>>
history == <<slow, lost>>
vars    == <<peer, sender, queue, thread, client, took, history>>

Frame == [h : Handles \cup {"ctrl", "bad"}, m : 0..MaxMsgs, k : 0..MaxFrames, n : 0..MaxFrames]
NoFrame(h) == [h |-> h, m |-> 0, k |-> 0, n |-> 0]

TypeOK ==
  /\ link \in BOOLEAN /\ connected \in BOOLEAN /\ shift \in Shifts
  /\ begun \in 0..MaxMsgs
  /\ sendbuf \in [Publishers -> Seq(Frame)]
  /\ queue \in Seq(Frame) /\ Len(queue) <= QueueCap
  /\ task \in {"idle", "flag", "write", "wait"}
  /\ cur \in Frame
  /\ flag \in [Handles -> BOOLEAN] /\ params \in [Handles -> Nat]
  /\ att \in Seq(Frame) /\ wsem \in {0, 1}
  /\ took \in [1..MaxMsgs -> Seq(0..MaxFrames)]
  /\ slow \in BOOLEAN /\ lost \subseteq 0..MaxMsgs

Init ==
  /\ link = FALSE /\ connected = FALSE /\ shift \in Shifts
  /\ begun = 0 /\ sendbuf = [p \in Publishers |-> <<>>]
  /\ queue = <<>>
  /\ task = "idle" /\ cur = NoFrame("bad")
  /\ flag = [h \in Handles |-> FALSE] /\ params = [h \in Handles |-> 0]
  /\ att = <<>> /\ wsem = 0
  /\ took = [m \in 1..MaxMsgs |-> <<>>]
  /\ slow = FALSE /\ lost = {}

-----------------------------------------------------------------------------
(* The publishers *)

FramesOf(h, m, n) == [k \in 1..n |-> [h |-> h, m |-> m, k |-> k, n |-> n]]

Loses(frames) == lost' = lost \cup {f.m : f \in frames}

\* A command of one frame, a longer one for gopro_send_buf, or a control command.
\* Nothing keeps other publishers off the same characteristic meanwhile.
Begin(p, h, n) ==
  /\ begun < MaxMsgs
  /\ sendbuf[p] = <<>>
  /\ h \in {"ctrl", "bad"} => n = 1
  /\ begun' = begun + 1
  /\ sendbuf' = [sendbuf EXCEPT ![p] = FramesOf(h, begun + 1, n)]
  /\ UNCHANGED <<peer, queue, thread, client, took, history>>

\* gopro_cmd_validator.
Valid(f) == f.h \in {"ctrl", "bad"} \/ connected

RoomAlways == TRUE
Room == Len(queue) < QueueCap

Enqueue(f) == queue' = Append(queue, f)

\* zbus_chan_pub of the next frame; when it fails gopro_send_buf goes on.
Publish(p) ==
  /\ sendbuf[p] # <<>>
  /\ sendbuf' = [sendbuf EXCEPT ![p] = Tail(@)]
  /\ LET f == Head(sendbuf[p])
     IN  \/ Valid(f) /\ Room /\ Enqueue(f) /\ UNCHANGED lost
         \/ (~Valid(f) \/ ~Room \/ "pub" \in Faults) /\ Loses({f}) /\ UNCHANGED queue
  /\ UNCHANGED <<peer, begun, thread, client, took, slow>>

-----------------------------------------------------------------------------
(* gopro_cmd_subscriber_task and bt_gopro_client_send *)

\* A control command is done by gopro_ctrl_parse, and the task waits for the next.
TaskGet ==
  /\ task = "idle" /\ queue # <<>>
  /\ queue' = Tail(queue)
  /\ cur' = Head(queue)
  /\ IF cur'.h = "ctrl" THEN task' = "idle" /\ Loses({cur'}) ELSE task' = "flag" /\ UNCHANGED lost
  /\ UNCHANGED <<peer, sender, client, took, slow>>

SetFlagUntested == flag' = [flag EXCEPT ![cur.h] = TRUE] /\ task' = "write" /\ UNCHANGED lost

\* atomic_test_and_set_bit: a write that is still pending refuses the command.
SetFlag ==
  IF flag[cur.h]
    THEN task' = "wait" /\ Loses({cur}) /\ UNCHANGED flag
    ELSE flag' = [flag EXCEPT ![cur.h] = TRUE] /\ task' = "write" /\ UNCHANGED lost

\* A control code gopro_ctrl_parse does not know is no characteristic either.
TaskFlag ==
  /\ task = "flag"
  /\ IF cur.h = "bad" THEN task' = "wait" /\ Loses({cur}) /\ UNCHANGED flag ELSE SetFlag
  /\ UNCHANGED <<peer, sender, queue, cur, params, att, wsem, took, slow>>

ClearFlagNot == UNCHANGED flag
ClearFlag == flag' = [flag EXCEPT ![cur.h] = FALSE]

\* Fill write_params and call bt_gatt_write.
TaskWrite ==
  /\ task = "write"
  /\ task' = "wait"
  /\ params' = [params EXCEPT ![cur.h] = Place[cur.h] + shift]
  /\ \/ link /\ att' = Append(att, cur) /\ UNCHANGED <<flag, lost>>
     \/ (~link \/ "gatt" \in Faults) /\ ClearFlag /\ Loses({cur}) /\ UNCHANGED att
  /\ UNCHANGED <<peer, sender, queue, cur, wsem, took, slow>>

TakeWriteSemPeek == wsem = 1 /\ UNCHANGED wsem
TakeWriteSem == wsem = 1 /\ wsem' = 0

TaskTake ==
  /\ task = "wait"
  /\ TakeWriteSem
  /\ task' = "idle"
  /\ UNCHANGED <<peer, sender, queue, cur, flag, params, att, took, history>>

Awaited == \E i \in 1..Len(att) : att[i] = cur

GiveUpRetries == task' = "flag"
\* "Data send timeout": the task goes on with the next command.
GiveUp == task' = "idle"

\* BLE_WRITE_TIMEOUT is over; after a failed send nothing else can end the wait.
TaskTimeout ==
  /\ task = "wait" /\ wsem = 0
  /\ Awaited => "late" \in Faults
  /\ GiveUp
  /\ slow' = (slow \/ Awaited)
  /\ UNCHANGED <<peer, sender, queue, cur, client, took, lost>>

-----------------------------------------------------------------------------
(* The Bluetooth stack and the camera *)

\* The characteristic on_sent_data takes a handle for: the first that matches.
Matches(number) == {h \in Handles : params[h] = number}
FirstMatch(number) ==
  {h \in Matches(number) : \A g \in Matches(number) : Place[h] <= Place[g]}

SentKeepsQuery(hs) == flag' = [h \in Handles |-> flag[h] /\ (h \notin hs \/ h = "query")]
\* on_sent_data: clear the flag of the characteristic.
Sent(hs) == flag' = [h \in Handles |-> flag[h] /\ h \notin hs]

\* The camera answers a write.
Answer ==
  /\ link /\ att # <<>>
  /\ Sent(FirstMatch(params[att[1].h]))
  /\ wsem' = 1
  /\ att' = Tail(att)
  /\ took' = [took EXCEPT ![att[1].m] = Append(@, att[1].k)]
  /\ UNCHANGED <<peer, sender, queue, thread, params, history>>

\* The link is lost: the stack calls on_sent_data with an error for every write.
LinkDown ==
  /\ link /\ "drop" \in Faults
  /\ link' = FALSE
  /\ Sent(UNION {FirstMatch(params[att[i].h]) : i \in 1..Len(att)})
  /\ wsem' = IF att = <<>> THEN wsem ELSE 1
  /\ att' = <<>>
  /\ Loses({att[i] : i \in 1..Len(att)})
  /\ UNCHANGED <<connected, shift, sender, queue, thread, params, took, slow>>

\* A camera is connected and its services are discovered.
LinkUp ==
  /\ ~link
  /\ link' = TRUE /\ connected' = TRUE
  /\ shift' \in Shifts
  /\ UNCHANGED <<sender, queue, thread, client, took, history>>

\* The idle timer withdraws the connected state some time after the link.
StateIdle ==
  /\ ~link /\ connected
  /\ connected' = FALSE
  /\ UNCHANGED <<link, shift, sender, queue, thread, client, took, history>>

-----------------------------------------------------------------------------
Task == TaskGet \/ TaskFlag \/ TaskWrite \/ TaskTake \/ TaskTimeout

Next ==
  \/ \E p \in Publishers :
       Publish(p) \/ \E h \in Handles \cup {"ctrl", "bad"}, n \in 1..MaxFrames : Begin(p, h, n)
  \/ Task \/ Answer \/ LinkDown \/ LinkUp \/ StateIdle

Spec == Init /\ [][Next]_vars

\* Threads run when they can; the camera answers, or the stack gives the link up.
Fairness ==
  /\ \A p \in Publishers : WF_vars(Publish(p))
  /\ WF_vars(Task)
  /\ WF_vars(Answer)

FairSpec == Spec /\ Fairness

-----------------------------------------------------------------------------
(* Properties *)

\* A pending flag is up exactly while the stack owes an answer on that handle, or the
\* task is between the flag and the call: no write goes out unguarded, and none stays
\* refused for a write that is over (bt_gopro_client_send, on_sent_data).
FlagTracksWrite ==
  \A h \in Handles :
    flag[h] <=> \/ \E i \in 1..Len(att) : att[i].h = h
                \/ task = "write" /\ cur.h = h

\* write_params of a handle belongs to one write: none is queued on top of another,
\* timeouts and lost links notwithstanding.
OneWritePerHandle ==
  \A i, j \in 1..Len(att) : att[i].h = att[j].h => i = j

\* As long as every wait saw its answer, writes go out one at a time and the task never
\* meets the token of an earlier write (gopro_cmd_subscriber_task).
Lockstep ==
  ~slow => /\ Len(att) <= 1
           /\ task # "wait" => att = <<>> /\ wsem = 0

\* The camera takes the frames of every message in order, none of them twice, and with
\* none left out unless one was lost on the way: publishers that meet on a characteristic,
\* full queues, late answers and lost links notwithstanding (gopro_send_buf,
\* gopro_cmd_subscriber_task).
FramesInOrder ==
  \A m \in 1..MaxMsgs : \A i \in 1..Len(took[m]) :
    /\ \A j \in 1..Len(took[m]) : i < j => took[m][i] < took[m][j]
    /\ m \notin lost => took[m][i] = i

\* A characteristic never stays refused: its pending flag is cleared in the end.
FlagFreed == \A h \in Handles : flag[h] ~> ~flag[h]
=============================================================================

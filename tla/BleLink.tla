------------------------------ MODULE BleLink ------------------------------
(***************************************************************************)
(* The life of the BLE link to the camera: searching, connecting, raising  *)
(* the security level, discovering the three GATT services, and the finish *)
(* handler that brings the client to GP_STATE_CONNECTED                     *)
(* (src/gopro_ble_discovery.c, with the idle timer of src/leds.c and the    *)
(* calls it makes into src/gopro_client.c and src/nrf_hal/gatt_dm.c).       *)
(*                                                                         *)
(* The Bluetooth callbacks and the system work queue are cooperative        *)
(* threads: a handler runs to its end, so it is one action.  The finish     *)
(* handler runs on my_work_q, a preemptible thread of lower priority: it is *)
(* cut at its semaphore waits, and it takes a step only when no item waits  *)
(* on the system work queue.                                                *)
(***************************************************************************)
EXTENDS Naturals, Sequences

CONSTANTS
  HwPolls,     \* GET_HW_POLL_COUNT
  Faults       \* the failures the environment may show

FaultKinds == {"hci",    \* a call into the controller returns an error
               "gatt",   \* a discovery fails or lacks a characteristic
               "sec",    \* the peer refuses the security level
               "resec",  \* the security level changes again on the same link
               "drop"}   \* an established link is lost

ASSUME LinkConstants == HwPolls \in Nat \ {0} /\ Faults \subseteq FaultKinds

VARIABLES
  link,         \* the connection default_conn points to ("none": NULL)
  scan,         \* the controller is scanning
  scanDue,      \* scan_work is scheduled
  secured,      \* security_changed has reported on this link
  work,         \* items pending on the system work queue
  st,           \* gopro_state.state
  idleTimer,    \* led_idle_timer is running
  justPaired,   \* GP_FLAG_JUST_PAIRED
  forceConnect, \* GP_FLAG_FORCE_CONNECT
  idx,          \* uuid_index, the static of discovery_start_work_handler
  dm,           \* the service the discovery manager works on, or "free"
  svc,          \* per service: the link its handles in gopro_client are from
  cconn,        \* gopro_client.conn has been assigned
  fin,          \* where discovery_finish_work_handler stands
  finQ,         \* discovery_finish_work is pending on my_work_q
  polls,        \* hardware info polls left
  readOut,      \* a bt_gatt_read is outstanding
  readSem,      \* count of ble_read_sem
  halted,       \* bt_gatt_discover(NULL) was called: the kernel stops
  refused,      \* history: the last bt_gopro_client_get sent no request
  rough         \* history: a link or a GATT call has failed, since boot ("before")
                \* or since the latest connection was made ("now")

radio  == <<link, scan, scanDue, secured>>
app    == <<st, idleTimer, justPaired, forceConnect>>
disc   == <<idx, dm, svc, cconn>>
finish == <<fin, finQ, polls>>
reads  == <<readOut, readSem, refused>>
vars   == <<radio, work, app, disc, finish, reads, halted, rough>>

uuid_list_net_first == <<"wifi", "net", "main">>
uuid_list == <<"wifi", "main", "net">>

Services == {"wifi", "main", "net"}

TypeOK ==
  /\ link \in {"none", "creating", "up", "closing"}
  /\ scan \in BOOLEAN /\ scanDue \in BOOLEAN /\ secured \in BOOLEAN
  /\ work \subseteq {"discover", "idle"}
  /\ st \in {"UNKNOWN", "OFFLINE", "ONLINE", "CONNECTED", "NEED_PAIRING", "PAIRING"}
  /\ idleTimer \in BOOLEAN /\ justPaired \in BOOLEAN /\ forceConnect \in BOOLEAN
  /\ idx \in 0..Len(uuid_list)
  /\ dm \in Services \cup {"free"}
  /\ svc \in [Services -> {"none", "fresh", "stale"}]
  /\ cconn \in BOOLEAN
  /\ fin \in {"idle", "ssid", "pass", "poll", "tail"}
  /\ finQ \in BOOLEAN
  /\ polls \in 0..HwPolls
  /\ readOut \in BOOLEAN /\ readSem \in {0, 1}
  /\ halted \in BOOLEAN /\ refused \in BOOLEAN /\ rough \in {"no", "before", "now"}

\* gopro_bt_start, its stack calls having succeeded: the first search is scheduled.
Init ==
  /\ link = "none" /\ scan = FALSE /\ scanDue = TRUE /\ secured = FALSE
  /\ work = {}
  /\ st = "UNKNOWN" /\ idleTimer = FALSE /\ justPaired = FALSE /\ forceConnect = FALSE
  /\ idx = 0 /\ dm = "free" /\ svc = [s \in Services |-> "none"] /\ cconn = FALSE
  /\ fin = "idle" /\ finQ = FALSE /\ polls = 0
  /\ readOut = FALSE /\ readSem = 0 /\ refused = FALSE
  /\ halted = FALSE /\ rough = "no"

-----------------------------------------------------------------------------
(* Searching *)

\* The finish handler can pass the semaphore it waits for.  It is then at most
\* microseconds from doing so, and scan_work waits for 50 ms or 3 s.
FinReady == fin \in {"ssid", "pass"} /\ readSem = 1

\* scan_work_handler: after an error it returns and nothing schedules it again.
ScanWork ==
  /\ scanDue
  /\ ~FinReady
  /\ scanDue' = FALSE
  /\ \/ scan' = TRUE /\ idleTimer' = TRUE
     \/ "hci" \in Faults /\ scan' \in {scan, FALSE} /\ UNCHANGED idleTimer
  /\ UNCHANGED <<link, secured, work, st, justPaired, forceConnect, disc, finish, reads, halted, rough>>

BleConnectScanning ==
  /\ UNCHANGED scan
  /\ link' = IF link = "none" THEN "creating" ELSE link

\* ble_connect: stop the search, create the connection; the error is returned to
\* eir_found, which drops it.  CONFIG_BT_CONN_CHECK_NULL_BEFORE_CREATE refuses to
\* overwrite default_conn.
BleConnect ==
  \/ /\ scan' = FALSE
     /\ link' = IF link = "none" THEN "creating" ELSE link
  \/ /\ "hci" \in Faults
     /\ scan' \in {scan, FALSE}
     /\ UNCHANGED link

\* scan_filter_match and eir_found on a report that carries a known camera state.
Advert(mode) ==
  /\ scan
  /\ idleTimer' = TRUE
  /\ st' = mode
  /\ IF mode = "OFFLINE" /\ ~forceConnect THEN UNCHANGED <<scan, link>> ELSE BleConnect
  /\ UNCHANGED <<scanDue, secured, work, justPaired, forceConnect, disc, finish, reads, halted, rough>>

IdleTick ==
  /\ idleTimer
  /\ work' = work \cup {"idle"}
  /\ UNCHANGED <<radio, app, disc, finish, reads, halted, rough>>

SetIdleLedOnly == UNCHANGED st
SetIdle == st' = "UNKNOWN"

IdleWork ==
  /\ "idle" \in work
  /\ work' = work \ {"idle"}
  /\ SetIdle
  /\ UNCHANGED <<radio, idleTimer, justPaired, forceConnect, disc, finish, reads, halted, rough>>

\* gopro_ctrl_parse: the force-connect command of the CAN side.
CtrlForce ==
  /\ forceConnect' = TRUE
  /\ UNCHANGED <<radio, work, st, idleTimer, justPaired, disc, finish, reads, halted, rough>>

-----------------------------------------------------------------------------
(* The link *)

ScheduleScanNot == UNCHANGED scanDue
\* k_work_schedule(&scan_work): 50 ms after a failed connection, 3 s after a lost one.
ScheduleScan == scanDue' = TRUE

ConnectFailed ==
  /\ link = "creating"
  /\ link' = "none"
  /\ ScheduleScan
  /\ UNCHANGED <<scan, secured, work, app, disc, finish, reads, halted, rough>>

StopIdleTimerNot == UNCHANGED idleTimer
StopIdleTimer == idleTimer' = FALSE

\* connected: when bt_conn_set_security fails, the discovery starts at once.
Connected ==
  /\ link = "creating"
  /\ link' = "up"
  /\ StopIdleTimer
  /\ \/ UNCHANGED work
     \/ "hci" \in Faults /\ work' = work \cup {"discover"}
  /\ scan' = FALSE
  /\ rough' = IF rough = "now" THEN "before" ELSE rough
  /\ UNCHANGED <<scanDue, secured, st, justPaired, forceConnect, disc, finish, reads, halted>>

\* security_changed without error, and gatt_discover.
SecurityChanged ==
  /\ link = "up"
  /\ ~secured \/ "resec" \in Faults
  /\ secured' = TRUE
  /\ work' = work \cup {"discover"}
  /\ UNCHANGED <<link, scan, scanDue, app, disc, finish, reads, halted, rough>>

PairingComplete ==
  /\ link = "up" /\ secured
  /\ justPaired' = TRUE
  /\ UNCHANGED <<radio, work, st, idleTimer, forceConnect, disc, finish, reads, halted, rough>>

\* security_changed with an error, which may be that the key is missing.
SecurityFailed ==
  /\ link = "up"
  /\ "sec" \in Faults
  /\ ~secured \/ "resec" \in Faults
  /\ st' \in {st, "NEED_PAIRING"}
  /\ link' = "closing"
  /\ rough' = "now"
  /\ UNCHANGED <<scan, scanDue, secured, work, idleTimer, justPaired, forceConnect, disc, finish, reads, halted>>

\* The handles of gopro_client after a discovery of service s.  Every
\* handles_assign clears its own before it reads the new ones, and the main
\* service's clears all four control handles, the NET service's among them.
Assign(s, result) ==
  [t \in Services |-> IF t = s THEN result
                      ELSE IF s = "main" /\ t = "net" THEN "none" ELSE svc[t]]

Outlive(f) == [s \in Services |-> IF f[s] = "fresh" THEN "stale" ELSE f[s]]

\* The stack ends an interrupted discovery before it reports the loss of the link:
\* as an error, as not found, or as complete with what was seen so far.
AbortDiscovery ==
  \/ /\ svc' = Outlive(svc)
     /\ UNCHANGED <<work, cconn>>
  \/ /\ dm # "free"
     /\ work' = work \cup {"discover"}
     /\ \/ svc' = Outlive(svc) /\ UNCHANGED cconn
        \/ svc' = Outlive(Assign(dm, "none")) /\ UNCHANGED cconn
        \/ svc' = Outlive(Assign(dm, "fresh")) /\ cconn' = TRUE

AbortReadNoGive == UNCHANGED readSem
\* on_read_ssid and on_read_pass give ble_read_sem before they look at the error.
AbortRead == readSem' = IF readOut THEN 1 ELSE readSem

\* The stack sees the loss of the link, and from now on refuses requests on it.
LinkLost ==
  /\ link = "up"
  /\ "drop" \in Faults
  /\ link' = "closing"
  /\ rough' = "now"
  /\ UNCHANGED <<scan, scanDue, secured, work, app, disc, finish, reads, halted>>

\* disconnected, with the callbacks of the procedures it ends.  The stack calls them
\* from one item of the system work queue, behind the items submitted before.
\* gopro_state.state, gopro_client.conn and uuid_index stay as they are.
Disconnected ==
  /\ link = "closing"
  /\ "discover" \notin work
  /\ link' = "none"
  /\ ScheduleScan
  /\ secured' = FALSE
  /\ AbortDiscovery
  /\ dm' = "free"
  /\ AbortRead
  /\ readOut' = FALSE
  /\ UNCHANGED <<scan, idx, app, finish, halted, refused, rough>>

-----------------------------------------------------------------------------
(* Discovery of the services *)

\* bt_gatt_dm_start for the next service: refused while the manager is locked, an
\* assertion of the stack on a NULL connection, an error on one that is not up.
DmStart(s) ==
  \/ dm # "free" /\ UNCHANGED <<dm, halted, rough>>
  \/ dm = "free" /\ link = "none" /\ halted' = TRUE /\ UNCHANGED <<dm, rough>>
  \/ dm = "free" /\ link \in {"creating", "closing"} /\ UNCHANGED <<dm, halted, rough>>
  \/ dm = "free" /\ link = "up" /\ dm' = s /\ UNCHANGED <<halted, rough>>
  \/ /\ dm = "free" /\ link = "up" /\ "gatt" \in Faults
     /\ rough' = "now"
     /\ UNCHANGED <<dm, halted>>

\* discovery_start_work_handler: the index moves on whatever bt_gatt_dm_start says.
DiscoverStart ==
  /\ "discover" \in work
  /\ work' = work \ {"discover"}
  /\ IF idx = Len(uuid_list)
       THEN finQ' = TRUE /\ UNCHANGED <<idx, dm, halted, rough>>
       ELSE idx' = idx + 1 /\ DmStart(uuid_list[idx + 1]) /\ UNCHANGED finQ
  /\ UNCHANGED <<radio, app, svc, cconn, fin, polls, reads>>

DropNextService == UNCHANGED work
\* The completion and not-found callbacks submit discovery_start_work again.
NextService == work' = work \cup {"discover"}

\* discovery_complete: assign the handles, release the data, go on.
DmComplete ==
  /\ dm # "free" /\ link = "up"
  /\ \/ svc' = Assign(dm, "fresh") /\ cconn' = TRUE /\ UNCHANGED rough
     \/ "gatt" \in Faults /\ svc' = Assign(dm, "none") /\ rough' = "now" /\ UNCHANGED cconn
  /\ dm' = "free"
  /\ NextService
  /\ UNCHANGED <<radio, app, idx, finish, reads, halted>>

\* discovery_service_not_found goes on with the next service, discovery_error stops.
DmFailed ==
  /\ dm # "free" /\ link = "up"
  /\ "gatt" \in Faults
  /\ dm' = "free"
  /\ rough' = "now"
  /\ NextService \/ UNCHANGED work
  /\ UNCHANGED <<radio, app, idx, svc, cconn, finish, reads, halted>>

-----------------------------------------------------------------------------
(* The finish handler, on my_work_q *)

\* bt_gopro_client_get: no request leaves, and no callback will come, when the
\* client has no connection or bt_gatt_read refuses.
ClientGet ==
  \/ cconn /\ link = "up" /\ readOut' = TRUE /\ refused' = FALSE /\ UNCHANGED rough
  \/ ~(cconn /\ link = "up") /\ refused' = TRUE /\ UNCHANGED <<readOut, rough>>
  \/ "gatt" \in Faults /\ refused' = TRUE /\ rough' = "now" /\ UNCHANGED readOut

FinStart ==
  /\ finQ /\ fin = "idle" /\ work = {}
  /\ finQ' = FALSE
  /\ fin' = "ssid"
  /\ ClientGet
  /\ UNCHANGED <<radio, work, app, disc, polls, readSem, halted>>

\* read_func[handle] for the SSID and the password.
OnRead == readSem' = 1

ReadDone ==
  /\ readOut /\ link = "up"
  /\ readOut' = FALSE
  /\ OnRead
  /\ UNCHANGED <<radio, work, app, disc, finish, halted, refused, rough>>

TakeReadSemPeek == readSem = 1 /\ UNCHANGED readSem
TakeReadSem == readSem = 1 /\ readSem' = 0

FinSsid ==
  /\ fin = "ssid" /\ work = {}
  /\ TakeReadSem
  /\ fin' = "pass"
  /\ ClientGet
  /\ UNCHANGED <<radio, work, app, disc, finQ, polls, halted>>

\* The four subscriptions, and the connected state whatever has become of the link.
FinPass ==
  /\ fin = "pass" /\ work = {}
  /\ TakeReadSem
  /\ fin' = "poll"
  /\ polls' = HwPolls
  /\ st' = "CONNECTED"
  /\ UNCHANGED <<radio, work, idleTimer, justPaired, forceConnect, disc, finQ, readOut, refused, halted, rough>>

PollOutcomesPastEnd == IF polls = 0 THEN {"tail"} ELSE {"poll", "tail"}
\* The loop ends with an answer or after its last round.
PollOutcomes == IF polls = 1 THEN {"tail"} ELSE {"poll", "tail"}

\* One hardware info poll: answered within a second, or not.
FinPoll ==
  /\ fin = "poll" /\ work = {}
  /\ polls' = polls - 1
  /\ fin' \in PollOutcomes
  /\ UNCHANGED <<radio, work, app, disc, finQ, reads, halted, rough>>

FinTail ==
  /\ fin = "tail" /\ work = {}
  /\ fin' = "idle"
  /\ justPaired' = FALSE
  /\ forceConnect' = FALSE
  /\ UNCHANGED <<radio, work, st, idleTimer, disc, finQ, polls, reads, halted, rough>>

-----------------------------------------------------------------------------
Kernel == ScanWork \/ IdleTick \/ IdleWork \/ DiscoverStart
Thread == FinStart \/ FinSsid \/ FinPass \/ FinPoll \/ FinTail
Peer   == \/ ConnectFailed \/ Connected \/ SecurityChanged \/ SecurityFailed
          \/ Disconnected \/ DmComplete \/ DmFailed \/ ReadDone
Free   == \/ \E mode \in {"OFFLINE", "ONLINE", "PAIRING"} : Advert(mode)
          \/ PairingComplete \/ LinkLost \/ CtrlForce

Next == \/ ~halted /\ (Kernel \/ Thread \/ Peer \/ Free)
        \/ halted /\ UNCHANGED vars

Spec == Init /\ [][Next]_vars

\* Timers expire, work queues run their items, and the stack reports the outcome of
\* every procedure it accepted, the disconnection it was asked for among them.
Fairness ==
  /\ WF_vars(ScanWork) /\ WF_vars(IdleTick) /\ WF_vars(IdleWork) /\ WF_vars(DiscoverStart)
  /\ WF_vars(~halted /\ Thread)
  /\ WF_vars(ConnectFailed \/ Connected)
  /\ WF_vars(~secured /\ (SecurityChanged \/ SecurityFailed))
  /\ WF_vars(DmComplete \/ DmFailed)
  /\ WF_vars(ReadDone)
  /\ WF_vars(Disconnected)

FairSpec == Spec /\ Fairness

-----------------------------------------------------------------------------
(* Properties *)

\* The radio does one thing: nothing searches, and no search is scheduled, while a
\* connection is being made or is up, so scan_work never stops or restarts the
\* controller's scan under a connection (scan_work_handler, ble_connect).
RadioExclusive == (scan \/ scanDue) => link = "none"

\* The search is never abandoned: without a connection the controller scans or
\* scan_work is scheduled ("Search for GoPro camera and connect it").
SearchPursued == link = "none" => scan \/ scanDue

\* A token of ble_read_sem belongs to the wait in progress: the finish handler never
\* meets the token of an earlier session, and never has two reads in flight
\* (discovery_finish_work_handler, on_read_ssid, on_read_pass).
ReadTokenOwned ==
  /\ readOut => fin \in {"ssid", "pass"} /\ readSem = 0
  /\ readSem = 1 => fin \in {"ssid", "pass"}

\* Whatever is lost or fails, the finish handler waits for ble_read_sem, which it does
\* without a timeout, only while an answer is on its way or there, or because its own
\* read never left (bt_gopro_client_get, whose result it does not look at).
FinishNotStranded ==
  fin \in {"ssid", "pass"} => readOut \/ readSem = 1 \/ refused

\* As long as no link and no GATT call has failed since boot, a camera that is reported
\* as connected has all its handles, all read on the link that is up.
ConnectedIsDiscovered ==
  rough = "no" /\ st = "CONNECTED" => link = "up" /\ \A s \in Services : svc[s] = "fresh"

\* While a link stays up the idle timer never takes the connected state away.
ConnectedSticks ==
  [][st = "CONNECTED" /\ link = "up" /\ link' = "up" => st' = "CONNECTED"]_vars

\* A connected state that outlived its link is withdrawn by the idle timer.
StaleConnectedCleared ==
  (st = "CONNECTED" /\ link = "none") ~> (st # "CONNECTED" \/ halted)

\* Every link on which nothing fails is brought to the connected state, the links after
\* lost and failed ones among them, unless the finish handler is still waiting for a
\* read that never left (discovery_start_work_handler, discovery_finish_work_handler).
LinkGetsConnected ==
  link = "up" ~> \/ st = "CONNECTED" \/ link # "up" \/ rough = "now"
                 \/ fin \in {"ssid", "pass"} /\ refused

\* The discovery manager is never started without a connection object.
DiscoveryHasConn == ~halted
=============================================================================

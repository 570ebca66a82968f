--------------------------- MODULE BleLink_proofs ---------------------------
(***************************************************************************)
(* Safety of the BLE link (BleLink) for every number of polls and every set *)
(* of faults.  The inductive invariant joins the type invariant with three  *)
(* facts the stated properties need to be inductive: a poll round is only   *)
(* begun while rounds are left (PollsLeft), a search and a scheduled search *)
(* exclude each other and any connection (RadioInv), and the finish handler *)
(* and the idle timer are quiet outside the link they belong to (QuietInv). *)
(* A link on which nothing fails is followed through its phases (SmoothInv). *)
(***************************************************************************)
EXTENDS BleLink, TLAPS

\* A search and a scheduled search exclude each other and any connection.
RadioInv == RadioExclusive /\ ~(scan /\ scanDue)

\* Reads live on a link; when a connection is being made, the finish handler is not
\* about to set the connected state; on a link the idle timer neither runs nor has
\* work pending against the connected state.
QuietInv ==
  /\ readOut => link \in {"up", "closing"}
  /\ scan \/ link = "creating" => ~FinReady
  /\ link = "creating" => st # "CONNECTED"
  /\ link \in {"up", "closing"} => ~idleTimer
  /\ st = "CONNECTED" /\ link = "up" => "idle" \notin work

\* A round of the poll loop is only begun while rounds are left.
PollsLeft == fin = "poll" => polls # 0

IInv == TypeOK /\ PollsLeft /\ RadioInv /\ ReadTokenOwned /\ QuietInv

-----------------------------------------------------------------------------
(* The type invariant in four parts, each within reach of one solver *)

CountersOK == idx \in 0..Len(uuid_list) /\ polls \in 0..HwPolls

HandlesOK == dm \in Services \cup {"free"} /\ svc \in [Services -> {"none", "fresh", "stale"}]

BoolsOK ==
  /\ scan \in BOOLEAN /\ scanDue \in BOOLEAN /\ secured \in BOOLEAN
  /\ idleTimer \in BOOLEAN /\ justPaired \in BOOLEAN /\ forceConnect \in BOOLEAN
  /\ cconn \in BOOLEAN /\ finQ \in BOOLEAN /\ readOut \in BOOLEAN
  /\ halted \in BOOLEAN /\ refused \in BOOLEAN

EnumsOK ==
  /\ link \in {"none", "creating", "up", "closing"}
  /\ work \subseteq {"discover", "idle"}
  /\ st \in {"UNKNOWN", "OFFLINE", "ONLINE", "CONNECTED", "NEED_PAIRING", "PAIRING"}
  /\ fin \in {"idle", "ssid", "pass", "poll", "tail"}
  /\ readSem \in {0, 1} /\ rough \in {"no", "before", "now"}

\* The four parts together are the type invariant.
LEMMA TypeParts == TypeOK <=> CountersOK /\ HandlesOK /\ BoolsOK /\ EnumsOK
  BY DEF TypeOK, CountersOK, HandlesOK, BoolsOK, EnumsOK

\* The services in the order of uuid_list are services (uuid_list).
LEMMA UuidList == Len(uuid_list) = 3 /\ \A i \in 0..2 : uuid_list[i + 1] \in Services
  BY DEF uuid_list, Services

\* Replacing the origin of the handles keeps their type (handles_assign).
LEMMA SvcTypes ==
  ASSUME svc \in [Services -> {"none", "fresh", "stale"}],
         NEW s \in Services, NEW r \in {"none", "fresh"}
  PROVE  /\ Assign(s, r) \in [Services -> {"none", "fresh", "stale"}]
         /\ Outlive(svc) \in [Services -> {"none", "fresh", "stale"}]
         /\ Outlive(Assign(s, r)) \in [Services -> {"none", "fresh", "stale"}]
  BY DEF Assign, Outlive, Services

\* The initial state satisfies the inductive invariant.
LEMMA InitIInv == Init => IInv
<1> SUFFICES ASSUME Init PROVE IInv
  OBVIOUS
<1> USE DEF Init
<1>1. TypeOK
  <2>1. idx \in 0..Len(uuid_list) /\ polls \in 0..HwPolls
    BY UuidList, LinkConstants
  <2>2. svc \in [Services -> {"none", "fresh", "stale"}]
    BY DEF Services
  <2> QED
    BY <2>1, <2>2 DEF TypeOK
<1>2. PollsLeft /\ RadioInv /\ ReadTokenOwned /\ QuietInv
  BY DEF PollsLeft, RadioInv, RadioExclusive, ReadTokenOwned, QuietInv, FinReady
<1> QED
  BY <1>1, <1>2 DEF IInv

-----------------------------------------------------------------------------
\* The service index stays within uuid_list and the poll loop ends at its last round
\* (discovery_start_work_handler, discovery_finish_work_handler).
LEMMA CountersStep ==
  ASSUME CountersOK, PollsLeft, [Next]_vars PROVE CountersOK' /\ PollsLeft'
<1> USE LinkConstants, UuidList DEF CountersOK, PollsLeft
<1>1. CASE ScanWork
  BY <1>1 DEF ScanWork, radio, app, disc, finish, reads
<1>2. CASE IdleTick
  BY <1>2 DEF IdleTick, radio, app, disc, finish, reads
<1>3. CASE IdleWork
  BY <1>3 DEF IdleWork, SetIdle, radio, app, disc, finish, reads
<1>4. CASE DiscoverStart
  <2>1. idx' \in 0..Len(uuid_list)
    <3>1. CASE idx = Len(uuid_list)
      BY <1>4, <3>1 DEF DiscoverStart
    <3>2. CASE idx # Len(uuid_list)
      BY <1>4, <3>2 DEF DiscoverStart
    <3> QED
      BY <3>1, <3>2
  <2>2. UNCHANGED <<fin, polls>>
    BY <1>4 DEF DiscoverStart
  <2> QED
    BY <2>1, <2>2
<1>5. CASE FinStart
  BY <1>5 DEF FinStart, ClientGet, radio, app, disc, finish, reads
<1>6. CASE FinSsid
  BY <1>6 DEF FinSsid, TakeReadSem, ClientGet, radio, app, disc, finish, reads
<1>7. CASE FinPass
  BY <1>7 DEF FinPass, TakeReadSem, radio, app, disc, finish, reads
<1>8. CASE FinPoll
  BY <1>8 DEF FinPoll, PollOutcomes, radio, app, disc, finish, reads
<1>9. CASE FinTail
  BY <1>9 DEF FinTail, radio, app, disc, finish, reads
<1>10. CASE ConnectFailed
  BY <1>10 DEF ConnectFailed, ScheduleScan, radio, app, disc, finish, reads
<1>11. CASE Connected
  BY <1>11 DEF Connected, StopIdleTimer, radio, app, disc, finish, reads
<1>12. CASE SecurityChanged
  BY <1>12 DEF SecurityChanged, radio, app, disc, finish, reads
<1>13. CASE SecurityFailed
  BY <1>13 DEF SecurityFailed, radio, app, disc, finish, reads
<1>14. CASE Disconnected
  BY <1>14 DEF Disconnected, ScheduleScan, AbortDiscovery, AbortRead, radio, app, disc, finish, reads
<1>15. CASE DmComplete
  BY <1>15 DEF DmComplete, NextService, radio, app, disc, finish, reads
<1>16. CASE DmFailed
  BY <1>16 DEF DmFailed, NextService, radio, app, disc, finish, reads
<1>17. CASE ReadDone
  BY <1>17 DEF ReadDone, OnRead, radio, app, disc, finish, reads
<1>18. ASSUME NEW mode \in {"OFFLINE", "ONLINE", "PAIRING"}, Advert(mode) PROVE CountersOK' /\ PollsLeft'
  BY <1>18 DEF Advert, BleConnect, radio, app, disc, finish, reads
<1>19. CASE PairingComplete
  BY <1>19 DEF PairingComplete, radio, app, disc, finish, reads
<1>20. CASE LinkLost
  BY <1>20 DEF LinkLost, radio, app, disc, finish, reads
<1>21. CASE CtrlForce
  BY <1>21 DEF CtrlForce, radio, app, disc, finish, reads
<1>22. CASE UNCHANGED vars
  BY <1>22 DEF vars, radio, app, disc, finish, reads
<1> QED
  BY <1>1, <1>2, <1>3, <1>4, <1>5, <1>6, <1>7, <1>8, <1>9, <1>10, <1>11, <1>12, <1>13, <1>14, <1>15, <1>16, <1>17, <1>18, <1>19, <1>20, <1>21, <1>22 DEF Next, Kernel, Thread, Peer, Free

\* Every handler keeps the types of the discovery manager and of the handles.
LEMMA HandlesStep == ASSUME CountersOK, HandlesOK, [Next]_vars PROVE HandlesOK'
<1> USE DEF HandlesOK
<1>1. CASE ScanWork
  BY <1>1 DEF ScanWork, radio, app, disc, finish, reads
<1>2. CASE IdleTick
  BY <1>2 DEF IdleTick, radio, app, disc, finish, reads
<1>3. CASE IdleWork
  BY <1>3 DEF IdleWork, SetIdle, radio, app, disc, finish, reads
<1>4. CASE DiscoverStart
  <2>1. CASE idx = Len(uuid_list)
    BY <1>4, <2>1 DEF DiscoverStart
  <2>2. CASE idx # Len(uuid_list)
    <3>1. uuid_list[idx + 1] \in Services
      BY <2>2, UuidList DEF CountersOK
    <3> QED
      BY <1>4, <2>2, <3>1 DEF DiscoverStart, DmStart
  <2> QED
    BY <2>1, <2>2
<1>5. CASE FinStart
  BY <1>5 DEF FinStart, ClientGet, radio, app, disc, finish, reads
<1>6. CASE FinSsid
  BY <1>6 DEF FinSsid, TakeReadSem, ClientGet, radio, app, disc, finish, reads
<1>7. CASE FinPass
  BY <1>7 DEF FinPass, TakeReadSem, radio, app, disc, finish, reads
<1>8. CASE FinPoll
  BY <1>8 DEF FinPoll, PollOutcomes, radio, app, disc, finish, reads
<1>9. CASE FinTail
  BY <1>9 DEF FinTail, radio, app, disc, finish, reads
<1>10. CASE ConnectFailed
  BY <1>10 DEF ConnectFailed, ScheduleScan, radio, app, disc, finish, reads
<1>11. CASE Connected
  BY <1>11 DEF Connected, StopIdleTimer, radio, app, disc, finish, reads
<1>12. CASE SecurityChanged
  BY <1>12 DEF SecurityChanged, radio, app, disc, finish, reads
<1>13. CASE SecurityFailed
  BY <1>13 DEF SecurityFailed, radio, app, disc, finish, reads
<1>14. CASE Disconnected
  <2>1. \/ svc' = Outlive(svc)
        \/ dm # "free" /\ \E r \in {"none", "fresh"} : svc' = Outlive(Assign(dm, r))
    BY <1>14 DEF Disconnected, AbortDiscovery
  <2>2. Outlive(svc) \in [Services -> {"none", "fresh", "stale"}]
    BY DEF Outlive
  <2>3. dm' = "free"
    BY <1>14 DEF Disconnected
  <2> QED
    BY <2>1, <2>2, <2>3, SvcTypes
<1>15. CASE DmComplete
  <2>1. \E r \in {"none", "fresh"} : svc' = Assign(dm, r)
    BY <1>15 DEF DmComplete
  <2>2. dm # "free" /\ dm' = "free"
    BY <1>15 DEF DmComplete
  <2> QED
    BY <2>1, <2>2, SvcTypes
<1>16. CASE DmFailed
  BY <1>16 DEF DmFailed, NextService, radio, app, disc, finish, reads
<1>17. CASE ReadDone
  BY <1>17 DEF ReadDone, OnRead, radio, app, disc, finish, reads
<1>18. ASSUME NEW mode \in {"OFFLINE", "ONLINE", "PAIRING"}, Advert(mode) PROVE HandlesOK'
  BY <1>18 DEF Advert, BleConnect, radio, app, disc, finish, reads
<1>19. CASE PairingComplete
  BY <1>19 DEF PairingComplete, radio, app, disc, finish, reads
<1>20. CASE LinkLost
  BY <1>20 DEF LinkLost, radio, app, disc, finish, reads
<1>21. CASE CtrlForce
  BY <1>21 DEF CtrlForce, radio, app, disc, finish, reads
<1>22. CASE UNCHANGED vars
  BY <1>22 DEF vars, radio, app, disc, finish, reads
<1> QED
  BY <1>1, <1>2, <1>3, <1>4, <1>5, <1>6, <1>7, <1>8, <1>9, <1>10, <1>11, <1>12, <1>13, <1>14, <1>15, <1>16, <1>17, <1>18, <1>19, <1>20, <1>21, <1>22 DEF Next, Kernel, Thread, Peer, Free

\* Every handler keeps the types of the flags.
LEMMA BoolsStep == ASSUME BoolsOK, [Next]_vars PROVE BoolsOK'
<1> USE DEF BoolsOK
<1>1. CASE ScanWork
  BY <1>1 DEF ScanWork, radio, app, disc, finish, reads
<1>2. CASE IdleTick
  BY <1>2 DEF IdleTick, radio, app, disc, finish, reads
<1>3. CASE IdleWork
  BY <1>3 DEF IdleWork, SetIdle, radio, app, disc, finish, reads
<1>4. CASE DiscoverStart
  BY <1>4 DEF DiscoverStart, DmStart, radio, app, disc, finish, reads
<1>5. CASE FinStart
  BY <1>5 DEF FinStart, ClientGet, radio, app, disc, finish, reads
<1>6. CASE FinSsid
  BY <1>6 DEF FinSsid, TakeReadSem, ClientGet, radio, app, disc, finish, reads
<1>7. CASE FinPass
  BY <1>7 DEF FinPass, TakeReadSem, radio, app, disc, finish, reads
<1>8. CASE FinPoll
  BY <1>8 DEF FinPoll, PollOutcomes, radio, app, disc, finish, reads
<1>9. CASE FinTail
  BY <1>9 DEF FinTail, radio, app, disc, finish, reads
<1>10. CASE ConnectFailed
  BY <1>10 DEF ConnectFailed, ScheduleScan, radio, app, disc, finish, reads
<1>11. CASE Connected
  BY <1>11 DEF Connected, StopIdleTimer, radio, app, disc, finish, reads
<1>12. CASE SecurityChanged
  BY <1>12 DEF SecurityChanged, radio, app, disc, finish, reads
<1>13. CASE SecurityFailed
  BY <1>13 DEF SecurityFailed, radio, app, disc, finish, reads
<1>14. CASE Disconnected
  BY <1>14 DEF Disconnected, ScheduleScan, AbortDiscovery, AbortRead, radio, app, disc, finish, reads
<1>15. CASE DmComplete
  BY <1>15 DEF DmComplete, NextService, radio, app, disc, finish, reads
<1>16. CASE DmFailed
  BY <1>16 DEF DmFailed, NextService, radio, app, disc, finish, reads
<1>17. CASE ReadDone
  BY <1>17 DEF ReadDone, OnRead, radio, app, disc, finish, reads
<1>18. ASSUME NEW mode \in {"OFFLINE", "ONLINE", "PAIRING"}, Advert(mode) PROVE BoolsOK'
  BY <1>18 DEF Advert, BleConnect, radio, app, disc, finish, reads
<1>19. CASE PairingComplete
  BY <1>19 DEF PairingComplete, radio, app, disc, finish, reads
<1>20. CASE LinkLost
  BY <1>20 DEF LinkLost, radio, app, disc, finish, reads
<1>21. CASE CtrlForce
  BY <1>21 DEF CtrlForce, radio, app, disc, finish, reads
<1>22. CASE UNCHANGED vars
  BY <1>22 DEF vars, radio, app, disc, finish, reads
<1> QED
  BY <1>1, <1>2, <1>3, <1>4, <1>5, <1>6, <1>7, <1>8, <1>9, <1>10, <1>11, <1>12, <1>13, <1>14, <1>15, <1>16, <1>17, <1>18, <1>19, <1>20, <1>21, <1>22 DEF Next, Kernel, Thread, Peer, Free

\* Every handler keeps the types of the states and of the semaphore.
LEMMA EnumsStep == ASSUME EnumsOK, [Next]_vars PROVE EnumsOK'
<1> USE DEF EnumsOK
<1>1. CASE ScanWork
  BY <1>1 DEF ScanWork, radio, app, disc, finish, reads
<1>2. CASE IdleTick
  BY <1>2 DEF IdleTick, radio, app, disc, finish, reads
<1>3. CASE IdleWork
  BY <1>3 DEF IdleWork, SetIdle, radio, app, disc, finish, reads
<1>4. CASE DiscoverStart
  BY <1>4 DEF DiscoverStart, DmStart, radio, app, disc, finish, reads
<1>5. CASE FinStart
  BY <1>5 DEF FinStart, ClientGet, radio, app, disc, finish, reads
<1>6. CASE FinSsid
  BY <1>6 DEF FinSsid, TakeReadSem, ClientGet, radio, app, disc, finish, reads
<1>7. CASE FinPass
  BY <1>7 DEF FinPass, TakeReadSem, radio, app, disc, finish, reads
<1>8. CASE FinPoll
  BY <1>8 DEF FinPoll, PollOutcomes, radio, app, disc, finish, reads
<1>9. CASE FinTail
  BY <1>9 DEF FinTail, radio, app, disc, finish, reads
<1>10. CASE ConnectFailed
  BY <1>10 DEF ConnectFailed, ScheduleScan, radio, app, disc, finish, reads
<1>11. CASE Connected
  BY <1>11 DEF Connected, StopIdleTimer, radio, app, disc, finish, reads
<1>12. CASE SecurityChanged
  BY <1>12 DEF SecurityChanged, radio, app, disc, finish, reads
<1>13. CASE SecurityFailed
  BY <1>13 DEF SecurityFailed, radio, app, disc, finish, reads
<1>14. CASE Disconnected
  BY <1>14 DEF Disconnected, ScheduleScan, AbortDiscovery, AbortRead, radio, app, disc, finish, reads
<1>15. CASE DmComplete
  BY <1>15 DEF DmComplete, NextService, radio, app, disc, finish, reads
<1>16. CASE DmFailed
  BY <1>16 DEF DmFailed, NextService, radio, app, disc, finish, reads
<1>17. CASE ReadDone
  BY <1>17 DEF ReadDone, OnRead, radio, app, disc, finish, reads
<1>18. ASSUME NEW mode \in {"OFFLINE", "ONLINE", "PAIRING"}, Advert(mode) PROVE EnumsOK'
  BY <1>18 DEF Advert, BleConnect, radio, app, disc, finish, reads
<1>19. CASE PairingComplete
  BY <1>19 DEF PairingComplete, radio, app, disc, finish, reads
<1>20. CASE LinkLost
  BY <1>20 DEF LinkLost, radio, app, disc, finish, reads
<1>21. CASE CtrlForce
  BY <1>21 DEF CtrlForce, radio, app, disc, finish, reads
<1>22. CASE UNCHANGED vars
  BY <1>22 DEF vars, radio, app, disc, finish, reads
<1> QED
  BY <1>1, <1>2, <1>3, <1>4, <1>5, <1>6, <1>7, <1>8, <1>9, <1>10, <1>11, <1>12, <1>13, <1>14, <1>15, <1>16, <1>17, <1>18, <1>19, <1>20, <1>21, <1>22 DEF Next, Kernel, Thread, Peer, Free

\* Every handler keeps a search, a scheduled search and a connection apart.
LEMMA RadioStep == ASSUME RadioInv, [Next]_vars PROVE RadioInv'
<1> USE DEF RadioInv, RadioExclusive
<1>1. CASE ScanWork
  BY <1>1 DEF ScanWork, radio, app, disc, finish, reads
<1>2. CASE IdleTick
  BY <1>2 DEF IdleTick, radio, app, disc, finish, reads
<1>3. CASE IdleWork
  BY <1>3 DEF IdleWork, SetIdle, radio, app, disc, finish, reads
<1>4. CASE DiscoverStart
  BY <1>4 DEF DiscoverStart, DmStart, radio, app, disc, finish, reads
<1>5. CASE FinStart
  BY <1>5 DEF FinStart, ClientGet, radio, app, disc, finish, reads
<1>6. CASE FinSsid
  BY <1>6 DEF FinSsid, TakeReadSem, ClientGet, radio, app, disc, finish, reads
<1>7. CASE FinPass
  BY <1>7 DEF FinPass, TakeReadSem, radio, app, disc, finish, reads
<1>8. CASE FinPoll
  BY <1>8 DEF FinPoll, PollOutcomes, radio, app, disc, finish, reads
<1>9. CASE FinTail
  BY <1>9 DEF FinTail, radio, app, disc, finish, reads
<1>10. CASE ConnectFailed
  BY <1>10 DEF ConnectFailed, ScheduleScan, radio, app, disc, finish, reads
<1>11. CASE Connected
  BY <1>11 DEF Connected, StopIdleTimer, radio, app, disc, finish, reads
<1>12. CASE SecurityChanged
  BY <1>12 DEF SecurityChanged, radio, app, disc, finish, reads
<1>13. CASE SecurityFailed
  BY <1>13 DEF SecurityFailed, radio, app, disc, finish, reads
<1>14. CASE Disconnected
  BY <1>14 DEF Disconnected, ScheduleScan, AbortDiscovery, AbortRead, radio, app, disc, finish, reads
<1>15. CASE DmComplete
  BY <1>15 DEF DmComplete, NextService, radio, app, disc, finish, reads
<1>16. CASE DmFailed
  BY <1>16 DEF DmFailed, NextService, radio, app, disc, finish, reads
<1>17. CASE ReadDone
  BY <1>17 DEF ReadDone, OnRead, radio, app, disc, finish, reads
<1>18. ASSUME NEW mode \in {"OFFLINE", "ONLINE", "PAIRING"}, Advert(mode) PROVE RadioInv'
  BY <1>18 DEF Advert, BleConnect, radio, app, disc, finish, reads
<1>19. CASE PairingComplete
  BY <1>19 DEF PairingComplete, radio, app, disc, finish, reads
<1>20. CASE LinkLost
  BY <1>20 DEF LinkLost, radio, app, disc, finish, reads
<1>21. CASE CtrlForce
  BY <1>21 DEF CtrlForce, radio, app, disc, finish, reads
<1>22. CASE UNCHANGED vars
  BY <1>22 DEF vars, radio, app, disc, finish, reads
<1> QED
  BY <1>1, <1>2, <1>3, <1>4, <1>5, <1>6, <1>7, <1>8, <1>9, <1>10, <1>11, <1>12, <1>13, <1>14, <1>15, <1>16, <1>17, <1>18, <1>19, <1>20, <1>21, <1>22 DEF Next, Kernel, Thread, Peer, Free

\* Every handler keeps the token of ble_read_sem with the wait it answers.
LEMMA ReadStep == ASSUME BoolsOK, EnumsOK, ReadTokenOwned, [Next]_vars PROVE ReadTokenOwned'
<1> USE DEF BoolsOK, EnumsOK, ReadTokenOwned
<1>1. CASE ScanWork
  BY <1>1 DEF ScanWork, radio, app, disc, finish, reads
<1>2. CASE IdleTick
  BY <1>2 DEF IdleTick, radio, app, disc, finish, reads
<1>3. CASE IdleWork
  BY <1>3 DEF IdleWork, SetIdle, radio, app, disc, finish, reads
<1>4. CASE DiscoverStart
  BY <1>4 DEF DiscoverStart, DmStart, radio, app, disc, finish, reads
<1>5. CASE FinStart
  BY <1>5 DEF FinStart, ClientGet, radio, app, disc, finish, reads
<1>6. CASE FinSsid
  BY <1>6 DEF FinSsid, TakeReadSem, ClientGet, radio, app, disc, finish, reads
<1>7. CASE FinPass
  BY <1>7 DEF FinPass, TakeReadSem, radio, app, disc, finish, reads
<1>8. CASE FinPoll
  BY <1>8 DEF FinPoll, PollOutcomes, radio, app, disc, finish, reads
<1>9. CASE FinTail
  BY <1>9 DEF FinTail, radio, app, disc, finish, reads
<1>10. CASE ConnectFailed
  BY <1>10 DEF ConnectFailed, ScheduleScan, radio, app, disc, finish, reads
<1>11. CASE Connected
  BY <1>11 DEF Connected, StopIdleTimer, radio, app, disc, finish, reads
<1>12. CASE SecurityChanged
  BY <1>12 DEF SecurityChanged, radio, app, disc, finish, reads
<1>13. CASE SecurityFailed
  BY <1>13 DEF SecurityFailed, radio, app, disc, finish, reads
<1>14. CASE Disconnected
  BY <1>14 DEF Disconnected, ScheduleScan, AbortDiscovery, AbortRead, radio, app, disc, finish, reads
<1>15. CASE DmComplete
  BY <1>15 DEF DmComplete, NextService, radio, app, disc, finish, reads
<1>16. CASE DmFailed
  BY <1>16 DEF DmFailed, NextService, radio, app, disc, finish, reads
<1>17. CASE ReadDone
  BY <1>17 DEF ReadDone, OnRead, radio, app, disc, finish, reads
<1>18. ASSUME NEW mode \in {"OFFLINE", "ONLINE", "PAIRING"}, Advert(mode) PROVE ReadTokenOwned'
  BY <1>18 DEF Advert, BleConnect, radio, app, disc, finish, reads
<1>19. CASE PairingComplete
  BY <1>19 DEF PairingComplete, radio, app, disc, finish, reads
<1>20. CASE LinkLost
  BY <1>20 DEF LinkLost, radio, app, disc, finish, reads
<1>21. CASE CtrlForce
  BY <1>21 DEF CtrlForce, radio, app, disc, finish, reads
<1>22. CASE UNCHANGED vars
  BY <1>22 DEF vars, radio, app, disc, finish, reads
<1> QED
  BY <1>1, <1>2, <1>3, <1>4, <1>5, <1>6, <1>7, <1>8, <1>9, <1>10, <1>11, <1>12, <1>13, <1>14, <1>15, <1>16, <1>17, <1>18, <1>19, <1>20, <1>21, <1>22 DEF Next, Kernel, Thread, Peer, Free

\* Every handler keeps the finish handler and the idle timer quiet.
LEMMA QuietStep ==
  ASSUME BoolsOK, EnumsOK, RadioInv, ReadTokenOwned, QuietInv, [Next]_vars PROVE QuietInv'
<1> USE DEF BoolsOK, EnumsOK, RadioInv, RadioExclusive, ReadTokenOwned, QuietInv, FinReady
<1>1. CASE ScanWork
  BY <1>1 DEF ScanWork, radio, app, disc, finish, reads
<1>2. CASE IdleTick
  BY <1>2 DEF IdleTick, radio, app, disc, finish, reads
<1>3. CASE IdleWork
  BY <1>3 DEF IdleWork, SetIdle, radio, app, disc, finish, reads
<1>4. CASE DiscoverStart
  BY <1>4 DEF DiscoverStart, DmStart, radio, app, disc, finish, reads
<1>5. CASE FinStart
  BY <1>5 DEF FinStart, ClientGet, radio, app, disc, finish, reads
<1>6. CASE FinSsid
  BY <1>6 DEF FinSsid, TakeReadSem, ClientGet, radio, app, disc, finish, reads
<1>7. CASE FinPass
  BY <1>7 DEF FinPass, TakeReadSem, radio, app, disc, finish, reads
<1>8. CASE FinPoll
  BY <1>8 DEF FinPoll, PollOutcomes, radio, app, disc, finish, reads
<1>9. CASE FinTail
  BY <1>9 DEF FinTail, radio, app, disc, finish, reads
<1>10. CASE ConnectFailed
  BY <1>10 DEF ConnectFailed, ScheduleScan, radio, app, disc, finish, reads
<1>11. CASE Connected
  BY <1>11 DEF Connected, StopIdleTimer, radio, app, disc, finish, reads
<1>12. CASE SecurityChanged
  BY <1>12 DEF SecurityChanged, radio, app, disc, finish, reads
<1>13. CASE SecurityFailed
  BY <1>13 DEF SecurityFailed, radio, app, disc, finish, reads
<1>14. CASE Disconnected
  BY <1>14 DEF Disconnected, ScheduleScan, AbortDiscovery, AbortRead, radio, app, disc, finish, reads
<1>15. CASE DmComplete
  BY <1>15 DEF DmComplete, NextService, radio, app, disc, finish, reads
<1>16. CASE DmFailed
  BY <1>16 DEF DmFailed, NextService, radio, app, disc, finish, reads
<1>17. CASE ReadDone
  BY <1>17 DEF ReadDone, OnRead, radio, app, disc, finish, reads
<1>18. ASSUME NEW mode \in {"OFFLINE", "ONLINE", "PAIRING"}, Advert(mode) PROVE QuietInv'
  BY <1>18 DEF Advert, BleConnect, radio, app, disc, finish, reads
<1>19. CASE PairingComplete
  BY <1>19 DEF PairingComplete, radio, app, disc, finish, reads
<1>20. CASE LinkLost
  BY <1>20 DEF LinkLost, radio, app, disc, finish, reads
<1>21. CASE CtrlForce
  BY <1>21 DEF CtrlForce, radio, app, disc, finish, reads
<1>22. CASE UNCHANGED vars
  BY <1>22 DEF vars, radio, app, disc, finish, reads
<1> QED
  BY <1>1, <1>2, <1>3, <1>4, <1>5, <1>6, <1>7, <1>8, <1>9, <1>10, <1>11, <1>12, <1>13, <1>14, <1>15, <1>16, <1>17, <1>18, <1>19, <1>20, <1>21, <1>22 DEF Next, Kernel, Thread, Peer, Free

-----------------------------------------------------------------------------
(* The theorems *)

\* Every step keeps the inductive invariant.
LEMMA IInvStep == ASSUME IInv, [Next]_vars PROVE IInv'
<1>1. CountersOK /\ HandlesOK /\ BoolsOK /\ EnumsOK
  BY TypeParts DEF IInv
<1>2. CountersOK' /\ HandlesOK' /\ BoolsOK' /\ EnumsOK' /\ PollsLeft'
  BY <1>1, CountersStep, HandlesStep, BoolsStep, EnumsStep DEF IInv
<1>3. TypeOK'
  BY <1>2 DEF TypeOK, CountersOK, HandlesOK, BoolsOK, EnumsOK
<1>4. RadioInv' /\ ReadTokenOwned' /\ QuietInv'
  BY <1>1, RadioStep, ReadStep, QuietStep DEF IInv
<1> QED
  BY <1>2, <1>3, <1>4 DEF IInv

\* The inductive invariant holds of every reachable state.
THEOREM LinkInvariant == Spec => []IInv
  BY InitIInv, IInvStep, PTL DEF Spec

\* Type correctness of the link's state.
THEOREM LinkTypeOK == Spec => []TypeOK
  BY LinkInvariant, PTL DEF IInv

\* No search runs and none is scheduled while a connection is made or up.
THEOREM RadioIsExclusive == Spec => []RadioExclusive
<1>1. IInv => RadioExclusive
  BY DEF IInv, RadioInv
<1> QED
  BY <1>1, LinkInvariant, PTL

\* A token of ble_read_sem always belongs to the wait in progress, whatever is lost.
THEOREM ReadTokenIsOwned == Spec => []ReadTokenOwned
<1>1. IInv => ReadTokenOwned
  BY DEF IInv
<1> QED
  BY <1>1, LinkInvariant, PTL

\* Whatever fails, the finish handler waits for an answer that is on its way or there, unless
\* its own read never left (discovery_finish_work_handler, ble_read_sem).
THEOREM FinishIsNotStranded == Spec => []FinishNotStranded
<1> USE DEF FinishNotStranded
<1>1. Init => FinishNotStranded
  BY DEF Init
<1>2. FinishNotStranded /\ [Next]_vars => FinishNotStranded'
  <2> SUFFICES ASSUME FinishNotStranded, [Next]_vars PROVE FinishNotStranded'
    OBVIOUS
  <2> USE DEF finish, reads
  <2>1. CASE Kernel
    BY <2>1 DEF Kernel, ScanWork, IdleTick, IdleWork, DiscoverStart
  <2>2. CASE FinStart
    BY <2>2 DEF FinStart, ClientGet
  <2>3. CASE FinSsid
    BY <2>3 DEF FinSsid, ClientGet
  <2>4. CASE FinPass \/ FinPoll \/ FinTail
    BY <2>4 DEF FinPass, FinPoll, PollOutcomes, FinTail
  <2>5. CASE ReadDone
    BY <2>5 DEF ReadDone, OnRead
  <2>6. CASE Disconnected
    BY <2>6 DEF Disconnected, AbortRead
  <2>7. CASE ConnectFailed \/ Connected \/ SecurityChanged \/ SecurityFailed
    BY <2>7 DEF ConnectFailed, Connected, SecurityChanged, SecurityFailed
  <2>8. CASE DmComplete \/ DmFailed
    BY <2>8 DEF DmComplete, DmFailed
  <2>9. CASE Free
    BY <2>9 DEF Free, Advert, PairingComplete, LinkLost, CtrlForce
  <2>10. CASE UNCHANGED vars
    BY <2>10 DEF vars
  <2> QED
    BY <2>1, <2>2, <2>3, <2>4, <2>5, <2>6, <2>7, <2>8, <2>9, <2>10 DEF Next, Thread, Peer
<1> QED
  BY <1>1, <1>2, PTL DEF Spec

\* While a link stays up no handler takes the connected state away.
THEOREM ConnectedStateSticks == Spec => ConnectedSticks
<1> DEFINE Stays == st = "CONNECTED" /\ link = "up" /\ link' = "up" => st' = "CONNECTED"
<1>1. IInv /\ [Next]_vars => [Stays]_vars
  <2> SUFFICES ASSUME IInv, [Next]_vars, st = "CONNECTED", link = "up", link' = "up"
               PROVE  st' = "CONNECTED"
    OBVIOUS
  <2> USE DEF IInv, RadioInv, RadioExclusive, QuietInv
  <2>1. CASE ScanWork
    BY <2>1 DEF ScanWork, radio, app, disc, finish, reads
  <2>2. CASE IdleTick
    BY <2>2 DEF IdleTick, radio, app, disc, finish, reads
  <2>3. CASE IdleWork
    BY <2>3 DEF IdleWork, SetIdle, radio, app, disc, finish, reads
  <2>4. CASE DiscoverStart
    BY <2>4 DEF DiscoverStart, DmStart, radio, app, disc, finish, reads
  <2>5. CASE FinStart
    BY <2>5 DEF FinStart, ClientGet, radio, app, disc, finish, reads
  <2>6. CASE FinSsid
    BY <2>6 DEF FinSsid, TakeReadSem, ClientGet, radio, app, disc, finish, reads
  <2>7. CASE FinPass
    BY <2>7 DEF FinPass, TakeReadSem, radio, app, disc, finish, reads
  <2>8. CASE FinPoll
    BY <2>8 DEF FinPoll, PollOutcomes, radio, app, disc, finish, reads
  <2>9. CASE FinTail
    BY <2>9 DEF FinTail, radio, app, disc, finish, reads
  <2>10. CASE ConnectFailed
    BY <2>10 DEF ConnectFailed, ScheduleScan, radio, app, disc, finish, reads
  <2>11. CASE Connected
    BY <2>11 DEF Connected, StopIdleTimer, radio, app, disc, finish, reads
  <2>12. CASE SecurityChanged
    BY <2>12 DEF SecurityChanged, radio, app, disc, finish, reads
  <2>13. CASE SecurityFailed
    BY <2>13 DEF SecurityFailed, radio, app, disc, finish, reads
  <2>14. CASE Disconnected
    BY <2>14 DEF Disconnected, ScheduleScan, AbortDiscovery, AbortRead, radio, app, disc, finish, reads
  <2>15. CASE DmComplete
    BY <2>15 DEF DmComplete, NextService, radio, app, disc, finish, reads
  <2>16. CASE DmFailed
    BY <2>16 DEF DmFailed, NextService, radio, app, disc, finish, reads
  <2>17. CASE ReadDone
    BY <2>17 DEF ReadDone, OnRead, radio, app, disc, finish, reads
  <2>18. ASSUME NEW mode \in {"OFFLINE", "ONLINE", "PAIRING"}, Advert(mode) PROVE st' = "CONNECTED"
    BY <2>18 DEF Advert, BleConnect, radio, app, disc, finish, reads
  <2>19. CASE PairingComplete
    BY <2>19 DEF PairingComplete, radio, app, disc, finish, reads
  <2>20. CASE LinkLost
    BY <2>20 DEF LinkLost, radio, app, disc, finish, reads
  <2>21. CASE CtrlForce
    BY <2>21 DEF CtrlForce, radio, app, disc, finish, reads
  <2>22. CASE UNCHANGED vars
    BY <2>22 DEF vars, radio, app, disc, finish, reads
  <2> QED
    BY <2>1, <2>2, <2>3, <2>4, <2>5, <2>6, <2>7, <2>8, <2>9, <2>10, <2>11, <2>12, <2>13, <2>14, <2>15, <2>16, <2>17, <2>18, <2>19, <2>20, <2>21, <2>22 DEF Next, Kernel, Thread, Peer, Free
<1>2. QED
  BY <1>1, LinkInvariant, PTL DEF Spec, ConnectedSticks

\* If no call into the controller fails, the search is never abandoned.
THEOREM SearchIsPursued == ASSUME "hci" \notin Faults PROVE Spec => []SearchPursued
<1> USE DEF SearchPursued
<1>1. Init => SearchPursued
  BY DEF Init
<1>2. IInv /\ SearchPursued /\ [Next]_vars => SearchPursued'
  <2> SUFFICES ASSUME IInv, SearchPursued, [Next]_vars PROVE SearchPursued'
    OBVIOUS
  <2> USE DEF IInv, RadioInv, RadioExclusive
  <2>1. CASE ScanWork
    BY <2>1 DEF ScanWork, radio, app, disc, finish, reads
  <2>2. CASE IdleTick
    BY <2>2 DEF IdleTick, radio, app, disc, finish, reads
  <2>3. CASE IdleWork
    BY <2>3 DEF IdleWork, SetIdle, radio, app, disc, finish, reads
  <2>4. CASE DiscoverStart
    BY <2>4 DEF DiscoverStart, DmStart, radio, app, disc, finish, reads
  <2>5. CASE FinStart
    BY <2>5 DEF FinStart, ClientGet, radio, app, disc, finish, reads
  <2>6. CASE FinSsid
    BY <2>6 DEF FinSsid, TakeReadSem, ClientGet, radio, app, disc, finish, reads
  <2>7. CASE FinPass
    BY <2>7 DEF FinPass, TakeReadSem, radio, app, disc, finish, reads
  <2>8. CASE FinPoll
    BY <2>8 DEF FinPoll, PollOutcomes, radio, app, disc, finish, reads
  <2>9. CASE FinTail
    BY <2>9 DEF FinTail, radio, app, disc, finish, reads
  <2>10. CASE ConnectFailed
    BY <2>10 DEF ConnectFailed, ScheduleScan, radio, app, disc, finish, reads
  <2>11. CASE Connected
    BY <2>11 DEF Connected, StopIdleTimer, radio, app, disc, finish, reads
  <2>12. CASE SecurityChanged
    BY <2>12 DEF SecurityChanged, radio, app, disc, finish, reads
  <2>13. CASE SecurityFailed
    BY <2>13 DEF SecurityFailed, radio, app, disc, finish, reads
  <2>14. CASE Disconnected
    BY <2>14 DEF Disconnected, ScheduleScan, AbortDiscovery, AbortRead, radio, app, disc, finish, reads
  <2>15. CASE DmComplete
    BY <2>15 DEF DmComplete, NextService, radio, app, disc, finish, reads
  <2>16. CASE DmFailed
    BY <2>16 DEF DmFailed, NextService, radio, app, disc, finish, reads
  <2>17. CASE ReadDone
    BY <2>17 DEF ReadDone, OnRead, radio, app, disc, finish, reads
  <2>18. ASSUME NEW mode \in {"OFFLINE", "ONLINE", "PAIRING"}, Advert(mode) PROVE SearchPursued'
    BY <2>18 DEF Advert, BleConnect, radio, app, disc, finish, reads
  <2>19. CASE PairingComplete
    BY <2>19 DEF PairingComplete, radio, app, disc, finish, reads
  <2>20. CASE LinkLost
    BY <2>20 DEF LinkLost, radio, app, disc, finish, reads
  <2>21. CASE CtrlForce
    BY <2>21 DEF CtrlForce, radio, app, disc, finish, reads
  <2>22. CASE UNCHANGED vars
    BY <2>22 DEF vars, radio, app, disc, finish, reads
  <2> QED
    BY <2>1, <2>2, <2>3, <2>4, <2>5, <2>6, <2>7, <2>8, <2>9, <2>10, <2>11, <2>12, <2>13, <2>14, <2>15, <2>16, <2>17, <2>18, <2>19, <2>20, <2>21, <2>22 DEF Next, Kernel, Thread, Peer, Free
<1>3. QED
  BY <1>1, <1>2, LinkInvariant, PTL DEF Spec

-----------------------------------------------------------------------------
(* A link on which nothing fails: the four phases it goes through *)

\* The first n services of uuid_list have their handles from this link.
Fresh(n) ==
  /\ n >= 1 => svc["wifi"] = "fresh"
  /\ n >= 2 => svc["main"] = "fresh"
  /\ n >= 3 => svc["net"] = "fresh"

FinishQuiet == fin = "idle" /\ ~finQ /\ st # "CONNECTED"
LinkSecured == link = "up" /\ secured

BeforeDiscovery ==
  /\ FinishQuiet
  /\ ~secured /\ "discover" \notin work /\ dm = "free" /\ idx = 0

\* The handler is about to look for the service after the first idx.
BetweenServices ==
  /\ FinishQuiet /\ LinkSecured
  /\ "discover" \in work /\ dm = "free"
  /\ Fresh(idx) /\ (idx > 0 => cconn)

\* The discovery manager works on service idx.
InService ==
  /\ FinishQuiet /\ LinkSecured
  /\ "discover" \notin work /\ idx > 0 /\ dm = uuid_list[idx]
  /\ Fresh(idx - 1)

\* Every service is there, and the finish handler runs, is about to, or has run.
Finishing ==
  /\ LinkSecured
  /\ "discover" \notin work /\ dm = "free" /\ idx = Len(uuid_list)
  /\ Fresh(idx) /\ cconn
  /\ finQ => fin = "idle" /\ st # "CONNECTED"

SmoothInv == rough = "no" => BeforeDiscovery \/ BetweenServices \/ InService \/ Finishing

\* The three services of uuid_list, by number.
LEMMA UuidOrder ==
  /\ Len(uuid_list) = 3
  /\ uuid_list[1] = "wifi" /\ uuid_list[2] = "main" /\ uuid_list[3] = "net"
  BY DEF uuid_list

\* A discovery step of a link on which nothing fails (discovery_start_work_handler).
LEMMA SmoothStart ==
  ASSUME CountersOK, rough' = "no", SmoothInv, DiscoverStart PROVE SmoothInv'
<1>1. rough = "no"
  BY DEF DiscoverStart, DmStart
<1>2. BetweenServices
  BY <1>1 DEF SmoothInv, DiscoverStart, BeforeDiscovery, InService, Finishing
<1>3. UNCHANGED <<link, secured, st, svc, cconn, fin>> /\ "discover" \notin work'
  BY DEF DiscoverStart, radio, app, reads
<1>4. CASE idx = Len(uuid_list)
  <2>1. UNCHANGED <<idx, dm>>
    BY <1>4 DEF DiscoverStart
  <2>2. Finishing'
    BY <1>2, <1>3, <1>4, <2>1, UuidOrder
       DEF BetweenServices, FinishQuiet, LinkSecured, Finishing, Fresh
  <2> QED
    BY <2>2 DEF SmoothInv
<1>5. CASE idx # Len(uuid_list)
  <2>1. idx' = idx + 1 /\ dm' = uuid_list[idx'] /\ UNCHANGED finQ
    BY <1>1, <1>2, <1>5 DEF DiscoverStart, DmStart, BetweenServices, LinkSecured
  <2>2. idx \in Nat /\ idx' - 1 = idx /\ idx' > 0
    BY <2>1, UuidOrder DEF CountersOK
  <2>3. FinishQuiet' /\ LinkSecured' /\ Fresh(idx - 1)'
    BY <1>2, <1>3, <2>1, <2>2 DEF BetweenServices, FinishQuiet, LinkSecured, Fresh
  <2>4. InService'
    BY <1>3, <2>1, <2>2, <2>3 DEF InService
  <2> QED
    BY <2>4 DEF SmoothInv
<1> QED
  BY <1>4, <1>5

\* A service found on such a link has its handles from it (discovery_complete).
LEMMA SmoothComplete ==
  ASSUME CountersOK, HandlesOK, rough' = "no", SmoothInv, DmComplete PROVE SmoothInv'
<1>1. rough = "no" /\ svc' = Assign(dm, "fresh") /\ cconn'
  BY DEF DmComplete
<1>2. InService
  BY <1>1 DEF SmoothInv, DmComplete, BeforeDiscovery, BetweenServices, Finishing
<1>3. /\ UNCHANGED <<link, secured, st, idx, fin, finQ>>
      /\ dm' = "free" /\ "discover" \in work'
  BY DEF DmComplete, NextService, radio, app, finish
<1>4. idx \in {1, 2, 3}
  BY <1>2, UuidOrder DEF InService, CountersOK
<1>5. Fresh(idx)'
  <2>1. CASE idx = 1
    BY <1>1, <1>2, <1>3, <2>1, UuidOrder DEF InService, Fresh, Assign, Services
  <2>2. CASE idx = 2
    BY <1>1, <1>2, <1>3, <2>2, UuidOrder DEF InService, Fresh, Assign, Services
  <2>3. CASE idx = 3
    BY <1>1, <1>2, <1>3, <2>3, UuidOrder DEF InService, Fresh, Assign, Services
  <2> QED
    BY <1>4, <2>1, <2>2, <2>3
<1>6. BetweenServices'
  BY <1>1, <1>2, <1>3, <1>5 DEF InService, BetweenServices, FinishQuiet, LinkSecured
<1> QED
  BY <1>6 DEF SmoothInv

\* A connection that goes away before anything was discovered leaves nothing behind.
LEMMA SmoothLost == ASSUME rough' = "no", SmoothInv, Disconnected PROVE SmoothInv'
<1>1. BeforeDiscovery
  BY DEF SmoothInv, Disconnected, BetweenServices, InService, Finishing, LinkSecured
<1>2. BeforeDiscovery'
  BY <1>1 DEF Disconnected, AbortDiscovery, BeforeDiscovery, FinishQuiet, app, finish
<1> QED
  BY <1>2 DEF SmoothInv

\* Without repeated security changes and failing calls into the controller, a link on which
\* nothing fails stays in its phases.
LEMMA SmoothStep ==
  ASSUME IInv, SmoothInv, [Next]_vars, "resec" \notin Faults, "hci" \notin Faults
  PROVE  SmoothInv'
<1> SUFFICES ASSUME rough' = "no" PROVE SmoothInv'
  BY DEF SmoothInv
<1>a. CountersOK /\ HandlesOK /\ RadioExclusive /\ ReadTokenOwned
  BY TypeParts DEF IInv, RadioInv
<1> USE DEF SmoothInv, BeforeDiscovery, BetweenServices, InService, Finishing, FinishQuiet,
            LinkSecured, Fresh
<1>1. CASE ScanWork
  BY <1>1 DEF ScanWork, radio, app, disc, finish, reads
<1>2. CASE IdleTick
  BY <1>2 DEF IdleTick, radio, app, disc, finish, reads
<1>3. CASE IdleWork
  BY <1>3 DEF IdleWork, SetIdle, radio, app, disc, finish, reads
<1>4. CASE DiscoverStart
  BY <1>a, <1>4, SmoothStart
<1>5. CASE FinStart
  BY <1>a, <1>5 DEF FinStart, ClientGet, radio, app, disc, finish, reads
<1>6. CASE FinSsid
  BY <1>a, <1>6 DEF FinSsid, TakeReadSem, ClientGet, radio, app, disc, finish, reads
<1>7. CASE FinPass
  BY <1>a, <1>7 DEF FinPass, TakeReadSem, radio, app, disc, finish, reads
<1>8. CASE FinPoll
  BY <1>8 DEF FinPoll, PollOutcomes, radio, app, disc, finish, reads
<1>9. CASE FinTail
  BY <1>9 DEF FinTail, radio, app, disc, finish, reads
<1>10. CASE ConnectFailed
  BY <1>10 DEF ConnectFailed, ScheduleScan, radio, app, disc, finish, reads
<1>11. CASE Connected
  BY <1>11 DEF Connected, radio, app, disc, finish, reads
<1>12. CASE SecurityChanged
  BY <1>12 DEF SecurityChanged, radio, app, disc, finish, reads
<1>13. CASE SecurityFailed
  BY <1>13 DEF SecurityFailed, radio, app, disc, finish, reads
<1>14. CASE Disconnected
  BY <1>14, SmoothLost
<1>15. CASE DmComplete
  BY <1>a, <1>15, SmoothComplete
<1>16. CASE DmFailed
  BY <1>16 DEF DmFailed, radio, app, disc, finish, reads
<1>17. CASE ReadDone
  BY <1>a, <1>17 DEF ReadDone, OnRead, radio, app, disc, finish, reads
<1>18. ASSUME NEW mode \in {"OFFLINE", "ONLINE", "PAIRING"}, Advert(mode) PROVE SmoothInv'
  BY <1>a, <1>18 DEF Advert, BleConnect, RadioExclusive, radio, app, disc, finish, reads
<1>19. CASE PairingComplete
  BY <1>19 DEF PairingComplete, radio, app, disc, finish, reads
<1>20. CASE LinkLost
  BY <1>20 DEF LinkLost, radio, app, disc, finish, reads
<1>21. CASE CtrlForce
  BY <1>21 DEF CtrlForce, radio, app, disc, finish, reads
<1>22. CASE UNCHANGED vars
  BY <1>22 DEF vars, radio, app, disc, finish, reads
<1> QED
  BY <1>1, <1>2, <1>3, <1>4, <1>5, <1>6, <1>7, <1>8, <1>9, <1>10, <1>11, <1>12, <1>13, <1>14, <1>15, <1>16, <1>17, <1>18, <1>19, <1>20, <1>21, <1>22 DEF Next, Kernel, Thread, Peer, Free

\* As long as nothing fails, a link goes through its four phases, provided the security level
\* changes once and the controller refuses no call.
THEOREM SmoothPhases ==
  ASSUME "resec" \notin Faults, "hci" \notin Faults PROVE Spec => []SmoothInv
<1>1. Init => SmoothInv
  BY DEF Init, SmoothInv, BeforeDiscovery, FinishQuiet
<1>2. IInv /\ SmoothInv /\ [Next]_vars => SmoothInv'
  BY SmoothStep
<1> QED
  BY <1>1, <1>2, LinkInvariant, PTL DEF Spec

\* As long as nothing has failed, a camera reported as connected has all its handles, all read
\* on the link that is up.
THEOREM ConnectedCameraIsDiscovered ==
  ASSUME "resec" \notin Faults, "hci" \notin Faults PROVE Spec => []ConnectedIsDiscovered
<1>1. SmoothInv => ConnectedIsDiscovered
  BY UuidOrder DEF SmoothInv, BeforeDiscovery, BetweenServices, InService, Finishing,
         FinishQuiet, LinkSecured, Fresh, ConnectedIsDiscovered, Services
<1> QED
  BY <1>1, SmoothPhases, PTL
=============================================================================

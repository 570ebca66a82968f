--------------------------- MODULE CanBus_proofs ---------------------------
(***************************************************************************)
(* The CAN side (CanBus), for every pool, number of mailboxes, set of status *)
(* messages and number of commands and faults.                               *)
(*                                                                         *)
(* One frame at a time: OneFrameOut is not inductive, for it says nothing of *)
(* where the transmit task stands.  The invariant adds that a task which     *)
(* waits for a frame has none under way, and that a frame under way is       *)
(* either with the controller or its report is in the semaphore (UnderWay).  *)
(*                                                                         *)
(* What the camera reported is what the gateway holds (StatusInv), for       *)
(* messages of any number of values.  The functions that the folds and the   *)
(* loop over a message define are shown to exist, round by round; then each  *)
(* value of a message is found at its place (Places), the loop stops at      *)
(* these places and no others, and the last value of each identifier stays   *)
(* (Latest).                                                                 *)
(***************************************************************************)
EXTENDS CanBus, SequenceTheorems, WellFoundedInduction, TLAPS

\* The controller has no frame, or one.
Empty == mailbox = <<>>
OneFrame == mailbox = <<mailbox[1]>>

\* Where the frame of the transmit task is, as long as no report was late.
UnderWay ==
  ~slow =>
    \/ task.at = "wait" /\ ~task.sent /\ sem = 0 /\ Empty
    \/ task.at = "sem" /\ ~task.sent /\ sem = 0 /\ Empty
    \/ task.at = "sem" /\ task.sent /\ sem = 0 /\ OneFrame
    \/ task.at = "sem" /\ task.sent /\ sem = 1 /\ Empty

IInv == TypeOK /\ UnderWay

-----------------------------------------------------------------------------
\* What the controller does with an empty mailbox and with its only frame.
LEMMA OneMailbox ==
  ASSUME NEW f
  PROVE  /\ Append(<<>>, f) = <<f>> /\ <<f>>[1] = f
         /\ Len(<<>>) = 0 /\ Len(<<f>>) = 1
         /\ RemoveAt(<<f>>, 1) = <<>>
<1>1. Append(<<>>, f) = <<f>> /\ <<f>>[1] = f /\ Len(<<>>) = 0 /\ Len(<<f>>) = 1
  OBVIOUS
<1>2. SubSeq(<<f>>, 1, 0) = <<>> /\ SubSeq(<<f>>, 2, 1) = <<>>
  OBVIOUS
<1>3. RemoveAt(<<f>>, 1) = SubSeq(<<f>>, 1, 0) \o SubSeq(<<f>>, 2, 1)
  BY <1>1 DEF RemoveAt
<1>4. <<>> \o <<>> = <<>>
  OBVIOUS
<1> QED
  BY <1>1, <1>2, <1>3, <1>4

\* The initial state satisfies the inductive invariant.
LEMMA InitIInv == Init => IInv
<1> SUFFICES ASSUME Init PROVE IInv
  OBVIOUS
<1>1. task = [at |-> "wait", sent |-> FALSE] /\ sem = 0 /\ mailbox = <<>>
  BY DEF Init
<1>2. TypeOK
  <2>1. changes \in 0..MaxChanges /\ cmds \in 0..MaxCmds /\ faults \in 0..MaxFaults
    BY CanConstants DEF Init
  <2>2. work \in BOOLEAN /\ slow \in BOOLEAN
    BY DEF Init
  <2> QED
    BY <1>1, <2>1, <2>2 DEF TypeOK
<1>3. UnderWay
  BY <1>1 DEF UnderWay, Empty
<1> QED
  BY <1>2, <1>3 DEF IInv

\* A step of the timer, the work queue, the camera, the link or the bus leaves the
\* transmit task and the controller alone.
LEMMA OthersKeepUnderWay ==
  ASSUME IInv, UNCHANGED <<task, sem, mailbox, slow>>
  PROVE  UnderWay'
  BY DEF IInv, UnderWay, Empty, OneFrame

\* Every step preserves the types.
LEMMA NextTypeOK == TypeOK /\ [Next]_vars => TypeOK'
<1> SUFFICES ASSUME TypeOK, [Next]_vars PROVE TypeOK'
  OBVIOUS
<1> USE CanConstants DEF TypeOK
<1>1. ASSUME NEW r \in Reports, StatusReport(r) PROVE TypeOK'
  BY <1>1 DEF StatusReport, Change, thread, device
<1>2. ASSUME NEW s, gopro_client_set_sate(s) PROVE TypeOK'
  BY <1>2 DEF gopro_client_set_sate, Change, thread, device
<1>3. CASE can_tx_timer_handler
  BY <1>3 DEF can_tx_timer_handler, camera, thread, device
<1>4. CASE can_tx_work_handler
  <2>1. faults' \in 0..MaxFaults
    BY <1>4 DEF can_tx_work_handler, Publish, Fault
  <2> QED
    BY <1>4, <2>1 DEF can_tx_work_handler, camera, thread
<1>5. ASSUME NEW control \in BOOLEAN, rx_callback_function(control) PROVE TypeOK'
  BY <1>5 DEF rx_callback_function, Publish, Fault, camera, thread
<1>6. CASE Send
  <2>1. task' \in [at : {"wait", "sem"}, sent : BOOLEAN]
    <3>1. CASE task' = [at |-> "sem", sent |-> TRUE]
      BY <3>1
    <3>2. CASE task' = [at |-> "sem", sent |-> FALSE]
      BY <3>2
    <3> QED
      BY <1>6, <3>1, <3>2 DEF Send
  <2>2. faults' \in 0..MaxFaults
    BY <1>6 DEF Send, Fault
  <2> QED
    BY <1>6, <2>1, <2>2 DEF Send, camera
<1>7. CASE SemTaken
  BY <1>7 DEF SemTaken, camera, device
<1>8. CASE SemTimeout
  <2>1. task' \in [at : {"wait", "sem"}, sent : BOOLEAN]
    BY <1>8 DEF SemTimeout
  <2>2. faults' \in 0..MaxFaults
    BY <1>8 DEF SemTimeout, Fault
  <2>3. slow' \in BOOLEAN
    BY <1>8 DEF SemTimeout
  <2> QED
    BY <1>8, <2>1, <2>2, <2>3 DEF SemTimeout, camera
<1>9. ASSUME NEW i \in 1..Len(mailbox), Transmit(i) PROVE TypeOK'
  BY <1>9 DEF Transmit, can_tx_callback, Fault, camera
<1>10. CASE UNCHANGED vars
  BY <1>10 DEF vars, camera, thread, device
<1> QED
  BY <1>1, <1>2, <1>3, <1>4, <1>5, <1>6, <1>7, <1>8, <1>9, <1>10
  DEF Next, can_tx_subscriber_task, Controller

\* Every step keeps the frame of the transmit task in its place.
LEMMA NextUnderWay == IInv /\ [Next]_vars => UnderWay'
<1> SUFFICES ASSUME IInv, [Next]_vars PROVE UnderWay'
  OBVIOUS
<1>1. ASSUME NEW r \in Reports, StatusReport(r) PROVE UnderWay'
  BY <1>1, OthersKeepUnderWay DEF StatusReport, thread, device
<1>2. ASSUME NEW s, gopro_client_set_sate(s) PROVE UnderWay'
  BY <1>2, OthersKeepUnderWay DEF gopro_client_set_sate, thread, device
<1>3. CASE can_tx_timer_handler
  BY <1>3, OthersKeepUnderWay DEF can_tx_timer_handler, thread, device
<1>4. CASE can_tx_work_handler
  BY <1>4, OthersKeepUnderWay DEF can_tx_work_handler, thread
<1>5. ASSUME NEW control \in BOOLEAN, rx_callback_function(control) PROVE UnderWay'
  BY <1>5, OthersKeepUnderWay DEF rx_callback_function, thread
<1>6. CASE Send
  <2> SUFFICES ASSUME ~slow' PROVE UnderWay'
    BY DEF UnderWay
  <2>1. sem = 0 /\ Empty /\ sem' = 0
    BY <1>6 DEF Send, IInv, UnderWay
  <2>2. CASE mailbox' = Append(mailbox, Head(queue)) /\ task' = [at |-> "sem", sent |-> TRUE]
    <3>1. mailbox' = <<Head(queue)>>
      BY <2>1, <2>2, OneMailbox DEF Empty
    <3>2. OneFrame'
      BY <3>1, OneMailbox DEF OneFrame
    <3> QED
      BY <2>1, <2>2, <3>2 DEF UnderWay
  <2>3. CASE UNCHANGED mailbox /\ task' = [at |-> "sem", sent |-> FALSE]
    BY <2>1, <2>3 DEF UnderWay, Empty
  <2> QED
    BY <1>6, <2>2, <2>3 DEF Send
<1>7. CASE SemTaken
  BY <1>7 DEF SemTaken, device, IInv, UnderWay, Empty
<1>8. CASE SemTimeout
  <2>1. CASE task.sent
    BY <1>8, <2>1 DEF SemTimeout, UnderWay
  <2>2. CASE ~task.sent
    BY <1>8, <2>2 DEF SemTimeout, IInv, UnderWay, Empty
  <2> QED
    BY <2>1, <2>2
<1>9. ASSUME NEW i \in 1..Len(mailbox), Transmit(i) PROVE UnderWay'
  <2> SUFFICES ASSUME ~slow' PROVE UnderWay'
    BY DEF UnderWay
  <2>1. mailbox # <<>>
    BY OneMailbox
  <2>2. task.at = "sem" /\ task.sent /\ OneFrame
    BY <1>9, <2>1 DEF Transmit, IInv, UnderWay, Empty
  <2>3. Len(mailbox) = 1
    BY <2>2, OneMailbox DEF OneFrame
  <2>4. mailbox' = <<>>
    <3>1. i = 1
      BY <2>3
    <3> QED
      BY <1>9, <2>2, <3>1, OneMailbox DEF Transmit, OneFrame
  <2>5. sem' = 1 /\ task' = task
    BY <1>9 DEF Transmit, can_tx_callback
  <2> QED
    BY <2>2, <2>4, <2>5 DEF UnderWay, Empty
<1>10. CASE UNCHANGED vars
  BY <1>10, OthersKeepUnderWay DEF vars, thread, device
<1> QED
  BY <1>1, <1>2, <1>3, <1>4, <1>5, <1>6, <1>7, <1>8, <1>9, <1>10
  DEF Next, can_tx_subscriber_task, Controller

\* The invariant of the transmit task: a frame under way is with the controller or its
\* report is in can_tx_sem, never both, and there is none while the task waits for one.
THEOREM TransmitInvariant == Spec => []IInv
<1>1. IInv /\ [Next]_vars => IInv'
  BY NextTypeOK, NextUnderWay DEF IInv
<1> QED
  BY InitIInv, <1>1, PTL DEF Spec

\* can_tx_subscriber_task hands over one frame at a time, as long as no report of the
\* controller comes after the 50 ms.
THEOREM OneFrameAtATime == Spec => []OneFrameOut
<1>1. IInv => OneFrameOut
  <2> SUFFICES ASSUME IInv, ~slow PROVE OneFrameOut
    BY DEF OneFrameOut
  <2>1. CASE Empty
    <3>1. mailbox = <<>> /\ Len(mailbox) = 0
      BY <2>1, OneMailbox DEF Empty
    <3>2. task.sent => sem = 1
      BY <3>1 DEF IInv, UnderWay, OneFrame
    <3> QED
      BY <3>1, <3>2 DEF IInv, UnderWay, OneFrameOut
  <2>2. CASE OneFrame /\ ~Empty
    <3>1. Len(mailbox) = 1
      BY <2>2, OneMailbox DEF OneFrame
    <3> QED
      BY <2>2, <3>1 DEF IInv, UnderWay, OneFrameOut
  <2> QED
    BY <2>1, <2>2 DEF IInv, UnderWay
<1> QED
  BY TransmitInvariant, <1>1, PTL

-----------------------------------------------------------------------------
(* Induction over data, by a least counterexample *)

\* A set of numbers has a least one.
LEMMA LeastNatural ==
  ASSUME NEW T, T \subseteq Nat, T # {}
  PROVE  \E m \in T : \A k \in T : m <= k
<1> DEFINE R == {p \in Nat \X Nat : p[1] < p[2]}
<1>1. IsWellFoundedOn(R, Nat)
  BY NatLessThanWellFounded DEF OpToRel
<1> HIDE DEF R
<1>2. PICK m \in T : \A k \in T : ~ (<<k, m>> \in R)
  BY <1>1, WFMin
<1>3. \A k \in T : ~ (k < m)
  BY <1>2 DEF R
<1> QED
  BY <1>3

\* What holds of 0, and of k + 1 when it holds of k, holds up to n.
LEMMA UpToN ==
  ASSUME NEW n \in Nat, NEW H, 0 \in H, \A k \in Nat : k < n /\ k \in H => k + 1 \in H
  PROVE  \A k \in Nat : k <= n => k \in H
<1> DEFINE T == {k \in Nat : k <= n /\ k \notin H}
<1>1. SUFFICES ASSUME T # {} PROVE FALSE
  OBVIOUS
<1>2. PICK m \in T : \A k \in T : m <= k
  BY <1>1, LeastNatural
<1>3. m \in Nat \ {0} /\ m <= n /\ m \notin H
  OBVIOUS
<1>4. m - 1 \in Nat /\ m - 1 < n /\ (m - 1) + 1 = m /\ ~(m <= m - 1)
  BY <1>3
<1>5. m - 1 \in H
  BY <1>2, <1>4
<1> QED
  BY <1>3, <1>4, <1>5

\* A set of numbers up to n has a greatest one.
LEMMA MaxIs ==
  ASSUME NEW n \in Nat, NEW s \in SUBSET (1..n), s # {}
  PROVE  Max(s) \in s /\ \A y \in s : y <= Max(s)
<1> DEFINE Bounds == {u \in Nat : \A y \in s : y <= u}
<1>1. n \in Bounds /\ Bounds \subseteq Nat
  OBVIOUS
<1>2. PICK u \in Bounds : \A v \in Bounds : u <= v
  BY <1>1, LeastNatural
<1>3. u \in s
  <2>1. SUFFICES ASSUME u \notin s
                 PROVE  FALSE
    OBVIOUS
  <2>2. PICK y \in s : TRUE
    OBVIOUS
  <2>3. u - 1 \in Nat
    <3>1. y \in 1..n /\ y <= u /\ u \in Nat
      BY <2>2
    <3> QED
      BY <3>1
  <2>4. \A z \in s : z <= u - 1
    BY <2>1
  <2>5. u - 1 \in Bounds
    BY <2>3, <2>4
  <2> QED
    BY <1>2, <2>5
<1>4. \A y \in s : u >= y /\ y <= u
  OBVIOUS
<1> HIDE DEF Bounds
<1>5. \E x \in s : \A y \in s : x >= y
  BY <1>3, <1>4
<1>6. Max(s) \in s /\ \A y \in s : Max(s) >= y
  BY <1>5 DEF Max
<1> QED
  BY <1>6

\* The numbers up to j + 1 are those up to j, and j + 1.
LEMMA UpToNext ==
  ASSUME NEW j \in Nat
  PROVE  /\ Max(1..(j + 1)) = j + 1 /\ 1..(j + 1) # {}
         /\ (1..(j + 1)) \ {j + 1} = 1..j
<1>1. j + 1 \in 1..(j + 1)
  OBVIOUS
<1>2. Max(1..(j + 1)) \in 1..(j + 1) /\ j + 1 <= Max(1..(j + 1))
  <2>1. 1..(j + 1) # {} /\ j + 1 \in Nat
    BY <1>1
  <2> QED
    BY <1>1, <2>1, MaxIs
<1>3. Max(1..(j + 1)) = j + 1
  BY <1>2
<1> QED
  BY <1>1, <1>3

\* The results of folding the numbers of the sets up to n, the greatest one last, with a
\* function G over the values in S.
Results(n, S, base, G) ==
  {f \in [SUBSET (1..n) -> S] :
     /\ f[{}] = base
     /\ \A s \in SUBSET (1..n) : s # {} => f[s] = G[<<f[s \ {Max(s)}], Max(s)>>]}

\* They exist.
LEMMA ResultsExist ==
  ASSUME NEW S, NEW base \in S, NEW n \in Nat, NEW G \in [S \X (1..n) -> S]
  PROVE  \E f : f \in Results(n, S, base, G)
<1> DEFINE H == {k \in Nat : k <= n => \E f : f \in Results(k, S, base, G)}
<1>1. 0 \in H
  <2>1. SUBSET (1..0) = {{}}
    OBVIOUS
  <2>2. PICK f : f = [s \in SUBSET (1..0) |-> base]
    OBVIOUS
  <2>3. f \in Results(0, S, base, G)
    BY <2>1, <2>2 DEF Results
  <2> QED
    BY <2>3
<1>2. ASSUME NEW k \in Nat, k < n, k \in H PROVE k + 1 \in H
  <2>1. PICK g : g \in Results(k, S, base, G)
    BY <1>2
  <2>2. PICK m : m = k + 1
    OBVIOUS
  <2>3. m \in 1..n /\ m \in Nat
    BY <1>2, <2>2
  <2>4. PICK f : f = [s \in SUBSET (1..m) |-> IF m \in s THEN G[<<g[s \ {m}], m>>] ELSE g[s]]
    OBVIOUS
  <2>5. \A s \in SUBSET (1..m) : s \ {m} \in SUBSET (1..k) /\ (m \notin s => s \in SUBSET (1..k))
    BY <2>2
  <2>6. f \in [SUBSET (1..m) -> S]
    <3>1. \A s \in SUBSET (1..k) : g[s] \in S
      BY <2>1 DEF Results
    <3>2. \A x \in S : G[<<x, m>>] \in S
      BY <2>3
    <3>3. ASSUME NEW s \in SUBSET (1..m) PROVE f[s] \in S
      BY <2>4, <2>5, <3>1, <3>2
    <3> QED
      BY <2>4, <3>3
  <2>7. f[{}] = base
    BY <2>1, <2>4 DEF Results
  <2>8. ASSUME NEW s \in SUBSET (1..m), s # {}
        PROVE  f[s] = G[<<f[s \ {Max(s)}], Max(s)>>]
    <3>0. Max(s) \in s /\ \A y \in s : y <= Max(s)
      BY <2>3, <2>8, MaxIs
    <3>1. CASE m \notin s
      <4>1. \A x \in s : s \ {x} \in SUBSET (1..m) /\ m \notin s \ {x}
        BY <3>1
      <4>2. f[s] = g[s] /\ f[s \ {Max(s)}] = g[s \ {Max(s)}]
        BY <2>4, <3>0, <3>1, <4>1
      <4>3. g[s] = G[<<g[s \ {Max(s)}], Max(s)>>]
        BY <2>1, <2>5, <2>8, <3>1 DEF Results
      <4> QED
        BY <4>2, <4>3
    <3>2. CASE m \in s
      <4>1. Max(s) = m
        <5>1. Max(s) \in 1..m /\ m <= Max(s)
          BY <3>0, <3>2
        <5> QED
          BY <5>1, <2>3
      <4>2. s \ {m} \in SUBSET (1..m) /\ m \notin s \ {m}
        OBVIOUS
      <4>3. f[s] = G[<<g[s \ {m}], m>>] /\ f[s \ {m}] = g[s \ {m}]
        BY <2>4, <3>2, <4>2
      <4> QED
        BY <4>1, <4>3
    <3> QED
      BY <3>1, <3>2
  <2>9. f \in Results(m, S, base, G)
    BY <2>6, <2>7, <2>8 DEF Results
  <2> QED
    BY <2>2, <2>9
<1> HIDE DEF H
<1>3. n \in H
  BY <1>1, <1>2, UpToN
<1> QED
  BY <1>3 DEF H

\* The results of applying G to base and to 1, 2, ..., n in turn.
Rounds(n, S, base, G) ==
  {f \in [0..n -> S] : f[0] = base /\ \A k \in 1..n : f[k] = G[<<f[k - 1], k>>]}

\* They exist.
LEMMA RoundsExist ==
  ASSUME NEW S, NEW base \in S, NEW n \in Nat, NEW G \in [S \X (1..n) -> S]
  PROVE  \E f : f \in Rounds(n, S, base, G)
<1> DEFINE H == {k \in Nat : k <= n => \E f : f \in Rounds(k, S, base, G)}
<1>1. 0 \in H
  <2>1. [k \in 0..0 |-> base] \in Rounds(0, S, base, G)
    BY DEF Rounds
  <2> QED
    BY <2>1
<1>2. ASSUME NEW k \in Nat, k < n, k \in H PROVE k + 1 \in H
  <2>1. PICK g : g \in Rounds(k, S, base, G)
    BY <1>2
  <2>2. PICK m \in 1..n : m = k + 1
    BY <1>2
  <2>3. PICK f : f = [i \in 0..m |-> IF i = m THEN G[<<g[k], m>>] ELSE g[i]]
    OBVIOUS
  <2>4. g \in [0..k -> S] /\ g[0] = base /\ \A i \in 1..k : g[i] = G[<<g[i - 1], i>>]
    BY <2>1 DEF Rounds
  <2>5. /\ \A i \in 0..m : i = m \/ i \in 0..k
        /\ \A i \in 1..m : i = m \/ i \in 1..k
        /\ \A i \in 0..k : i \in 0..m /\ i # m
        /\ \A i \in 1..k : i - 1 \in 0..k
        /\ k \in 0..k /\ m - 1 = k /\ 0 \in 0..k /\ m \in 0..m
    BY <2>2
  <2>6. G[<<g[k], m>>] \in S
    BY <2>4, <2>5
  <2>7. f \in [0..m -> S]
    BY <2>3, <2>4, <2>5, <2>6
  <2>8. f[0] = base
    BY <2>3, <2>4, <2>5
  <2>9. ASSUME NEW i \in 1..m PROVE f[i] = G[<<f[i - 1], i>>]
    <3>1. CASE i = m
      <4>1. f[m] = G[<<g[k], m>>] /\ f[k] = g[k]
        BY <2>3, <2>5
      <4>2. i - 1 = k
        BY <3>1, <2>5
      <4> QED
        BY <3>1, <4>1, <4>2
    <3>2. CASE i \in 1..k
      <4>1. g[i] = G[<<g[i - 1], i>>]
        BY <3>2, <2>4
      <4>2. i \in 0..m /\ i # m /\ i - 1 \in 0..m /\ i - 1 # m
        BY <3>2, <2>2
      <4>3. f[i] = g[i] /\ f[i - 1] = g[i - 1]
        BY <4>2, <2>3
      <4> QED
        BY <4>1, <4>3
    <3> QED
      BY <3>1, <3>2, <2>5
  <2>10. f \in Rounds(m, S, base, G)
    BY <2>7, <2>8, <2>9 DEF Rounds
  <2> QED
    BY <2>2, <2>10
<1> HIDE DEF H
<1>3. n \in H
  BY <1>1, <1>2, UpToN
<1> QED
  BY <1>3 DEF H

-----------------------------------------------------------------------------
(* The numbers of the camera *)

\* The bytes of a number.
LEMMA BytesAre ==
  ASSUME NEW n \in Nat
  PROVE  /\ Bytes(n) \in Seq(Nat) /\ Len(Bytes(n)) \in 1..2
         /\ n < 256 => Len(Bytes(n)) = 1 /\ Bytes(n)[1] = n
         /\ ~(n < 256) => /\ Len(Bytes(n)) = 2
                          /\ Bytes(n)[1] * 256 + Bytes(n)[2] = n
<1>1. CASE n < 256
  <2>1. Bytes(n) = <<n>>
    BY <1>1 DEF Bytes
  <2> QED
    BY <1>1, <2>1
<1>2. CASE ~(n < 256)
  <2>1. PICK a \in Nat, b \in Nat : a = n \div 256 /\ b = n % 256 /\ a * 256 + b = n
    OBVIOUS
  <2>2. Bytes(n) = <<a, b>>
    BY <1>2, <2>1 DEF Bytes
  <2> QED
    BY <1>2, <2>1, <2>2
<1> QED
  BY <1>1, <1>2

\* One step of the fold over the bytes.
CountStep(bytes, f, s) == IF s = {} THEN 0 ELSE f[s \ {Max(s)}] * 256 + bytes[Max(s)]

Counts(bytes, n, f) ==
  /\ f[{}] = 0
  /\ \A s \in SUBSET (1..n) : s # {} => f[s] = f[s \ {Max(s)}] * 256 + bytes[Max(s)]

\* The fold over the bytes, the first byte first.
LEMMA CountIs ==
  ASSUME NEW bytes \in Seq(Nat), NEW n, n = Len(bytes)
  PROVE  \E f : Counts(bytes, n, f) /\ video_count(bytes) = f[1..n]
<1>1. n \in Nat /\ DOMAIN bytes = 1..n /\ \A i \in 1..n : bytes[i] \in Nat
  OBVIOUS
<1>2. PICK G : G = [x \in Nat \X (1..n) |-> x[1] * 256 + bytes[x[2]]]
  OBVIOUS
<1>3. G \in [Nat \X (1..n) -> Nat] /\ \A y \in Nat, i \in 1..n : G[<<y, i>>] = y * 256 + bytes[i]
  <2>1. ASSUME NEW x \in Nat \X (1..n) PROVE x[1] * 256 + bytes[x[2]] \in Nat
    BY <1>1
  <2>2. G \in [Nat \X (1..n) -> Nat]
    BY <1>2, <2>1
  <2>3. ASSUME NEW y \in Nat, NEW i \in 1..n PROVE G[<<y, i>>] = y * 256 + bytes[i]
    <3>1. <<y, i>> \in Nat \X (1..n) /\ <<y, i>>[1] = y /\ <<y, i>>[2] = i
      OBVIOUS
    <3>2. G[<<y, i>>] = <<y, i>>[1] * 256 + bytes[<<y, i>>[2]]
      BY <1>2, <3>1
    <3> QED
      BY <3>1, <3>2
  <2> QED
    BY <2>2, <2>3
<1>4. PICK g : g \in Results(n, Nat, 0, G)
  <2>1. n \in Nat /\ 0 \in Nat /\ G \in [Nat \X (1..n) -> Nat]
    BY <1>1, <1>3
  <2> QED
    BY <2>1, ResultsExist
<1>5. \E f : f = [s \in SUBSET (1..n) |-> CountStep(bytes, f, s)]
  <2>1. ASSUME NEW s \in SUBSET (1..n) PROVE g[s] = CountStep(bytes, g, s)
    <3>1. CASE s = {}
      BY <3>1, <1>4 DEF Results, CountStep
    <3>2. CASE s # {}
      <4>1. Max(s) \in 1..n
        BY <3>2, <1>1, MaxIs
      <4>2. s \ {Max(s)} \in SUBSET (1..n)
        OBVIOUS
      <4>3. g[s \ {Max(s)}] \in Nat
        BY <4>2, <1>4 DEF Results
      <4>4. g[s] = G[<<g[s \ {Max(s)}], Max(s)>>]
        BY <3>2, <1>4 DEF Results
      <4>5. G[<<g[s \ {Max(s)}], Max(s)>>] = g[s \ {Max(s)}] * 256 + bytes[Max(s)]
        BY <4>1, <4>3, <1>3
      <4> QED
        BY <3>2, <4>4, <4>5 DEF CountStep
    <3> QED
      BY <3>1, <3>2
  <2>2. g = [s \in SUBSET (1..n) |-> CountStep(bytes, g, s)]
    BY <2>1, <1>4 DEF Results
  <2> QED
    BY <2>2
<1>6. video_count(bytes) = (CHOOSE f : f = [s \in SUBSET (1..n) |-> CountStep(bytes, f, s)])[1..n]
  BY <1>1 DEF video_count, FoldLeft, MapThenFoldSet, CountStep
<1>7. PICK f : /\ f = [s \in SUBSET (1..n) |-> CountStep(bytes, f, s)]
               /\ video_count(bytes) = f[1..n]
  BY <1>5, <1>6
<1>8. Counts(bytes, n, f)
  <2>1. ASSUME NEW s \in SUBSET (1..n) PROVE f[s] = CountStep(bytes, f, s)
    BY <1>7, <2>1
  <2> QED
    BY <2>1 DEF Counts, CountStep
<1> QED
  BY <1>7, <1>8

\* Reading the bytes of a number gives the number (gopro_parse_query_status_notify).
LEMMA CountOfBytes ==
  ASSUME NEW n \in Nat
  PROVE  video_count(Bytes(n)) = n
<1>1. PICK b : b = Bytes(n) /\ b \in Seq(Nat)
  BY BytesAre
<1>2. PICK f : Counts(b, Len(b), f) /\ video_count(b) = f[1..Len(b)]
  BY <1>1, CountIs
<1>0. f[{}] = 0
  BY <1>2 DEF Counts
<1>3. ASSUME 1 <= Len(b) PROVE f[1..1] = f[{}] * 256 + b[1]
  <2>1. Max(1..(0 + 1)) = 0 + 1 /\ 1..(0 + 1) # {} /\ (1..(0 + 1)) \ {0 + 1} = 1..0
    BY UpToNext
  <2>2. Max(1..1) = 1 /\ 1..1 # {} /\ (1..1) \ {1} = {}
    BY <2>1
  <2>3. 1..1 \in SUBSET (1..Len(b))
    BY <1>1, <1>3
  <2>4. f[1..1] = f[(1..1) \ {Max(1..1)}] * 256 + b[Max(1..1)]
    BY <1>2, <2>2, <2>3 DEF Counts
  <2> QED
    BY <2>2, <2>4
<1>4. ASSUME 2 <= Len(b) PROVE f[1..2] = f[1..1] * 256 + b[2]
  <2>1. Max(1..(1 + 1)) = 1 + 1 /\ 1..(1 + 1) # {} /\ (1..(1 + 1)) \ {1 + 1} = 1..1
    BY UpToNext
  <2>2. Max(1..2) = 2 /\ 1..2 # {} /\ (1..2) \ {2} = 1..1
    BY <2>1
  <2>3. 1..2 \in SUBSET (1..Len(b))
    BY <1>1, <1>4
  <2>4. f[1..2] = f[(1..2) \ {Max(1..2)}] * 256 + b[Max(1..2)]
    BY <1>2, <2>2, <2>3 DEF Counts
  <2> QED
    BY <2>2, <2>4
<1>5. CASE n < 256
  <2>1. Len(b) = 1 /\ b[1] = n
    BY <1>1, <1>5, BytesAre
  <2>2. video_count(b) = 0 * 256 + n
    BY <1>0, <1>2, <1>3, <2>1
  <2> QED
    BY <1>1, <2>2
<1>6. CASE ~(n < 256)
  <2>1. Len(b) = 2 /\ b[1] * 256 + b[2] = n
    BY <1>1, <1>6, BytesAre
  <2>2. b[1] \in Nat
    BY <1>1, <2>1
  <2>3. f[1..1] = 0 * 256 + b[1]
    BY <1>0, <1>2, <1>3, <2>1
  <2>4. f[1..1] = b[1]
    BY <2>2, <2>3
  <2>5. video_count(b) = b[1] * 256 + b[2]
    BY <1>2, <1>4, <2>1, <2>4
  <2> QED
    BY <1>1, <2>1, <2>5
<1> QED
  BY <1>5, <1>6

-----------------------------------------------------------------------------
(* Where the values of a message are *)

\* The sequence w is s and then t.
Joined(w, s, t) ==
  /\ Len(s) \in Nat /\ Len(t) \in Nat /\ Len(w) = Len(s) + Len(t)
  /\ \A i \in 1..Len(s) : w[i] = s[i]
  /\ \A i \in 1..Len(t) : w[Len(s) + i] = t[i]

\* What putting one sequence after another does.
LEMMA ConcatIs ==
  ASSUME NEW S, NEW s \in Seq(S), NEW t \in Seq(S), NEW w, w = s \o t
  PROVE  w \in Seq(S) /\ Joined(w, s, t)
  BY DEF Joined

\* What a value is in a message.
Chunk(v) == <<v.id, Len(Bytes(v.n))>> \o Bytes(v.n)

\* Its identifier, its length and its bytes.
LEMMA ChunkIs ==
  ASSUME NEW v \in Value
  PROVE  /\ Chunk(v) \in Seq(Nat) /\ Len(Bytes(v.n)) \in 1..2
         /\ Len(Chunk(v)) = 2 + Len(Bytes(v.n))
         /\ Chunk(v)[1] = v.id /\ Chunk(v)[2] = Len(Bytes(v.n))
         /\ \A j \in 1..Len(Bytes(v.n)) : Chunk(v)[2 + j] = Bytes(v.n)[j]
<1>1. v.id \in Nat /\ v.n \in Nat
  BY DEF Value
<1>2. PICK b : b = Bytes(v.n) /\ b \in Seq(Nat) /\ Len(b) \in 1..2
  BY <1>1, BytesAre
<1>3. PICK h : h = <<v.id, Len(b)>>
  OBVIOUS
<1>4. h \in Seq(Nat) /\ Len(h) = 2 /\ h[1] = v.id /\ h[2] = Len(b)
  BY <1>1, <1>2, <1>3
<1>5. PICK c : c = Chunk(v) /\ c = h \o b
  BY <1>2, <1>3 DEF Chunk
<1>6. /\ c \in Seq(Nat) /\ Len(c) = Len(h) + Len(b)
      /\ \A i \in 1..Len(h) : c[i] = h[i]
      /\ \A i \in 1..Len(b) : c[Len(h) + i] = b[i]
  <2>1. c \in Seq(Nat) /\ Joined(c, h, b)
    BY <1>2, <1>4, <1>5, ConcatIs
  <2> QED
    BY <2>1 DEF Joined
<1>7. 1 \in 1..2 /\ 2 \in 1..2
  OBVIOUS
<1> QED
  BY <1>2, <1>4, <1>5, <1>6, <1>7

\* f has the first values of a list, one after the other.
Flat(L, f) ==
  /\ f \in [0..Len(L) -> Seq(Nat)] /\ f[0] = <<>>
  /\ \A k \in 1..Len(L) : f[k] = f[k - 1] \o Chunk(L[k])

\* The function that FlattenSeq defines.
Flattened(c, n, e) == e = [i \in 1..n |-> IF i = 1 THEN c[i] ELSE e[i - 1] \o c[i]]

\* A message is the two bytes of its head and the values of its list.
LEMMA FlatIs ==
  ASSUME NEW L \in Seq(Value)
  PROVE  \E f : Flat(L, f) /\ FlattenSeq([i \in DOMAIN L |-> Chunk(L[i])]) = f[Len(L)]
<1>1. PICK n \in Nat : n = Len(L) /\ DOMAIN L = 1..n /\ \A i \in 1..n : L[i] \in Value
  OBVIOUS
<1>2. PICK c : c = [i \in 1..n |-> Chunk(L[i])]
  OBVIOUS
<1>3. Len(c) = n /\ \A i \in 1..n : c[i] = Chunk(L[i]) /\ c[i] \in Seq(Nat)
  <2>1. \A i \in 1..n : c[i] = Chunk(L[i]) /\ c[i] \in Seq(Nat)
    BY <1>1, <1>2, ChunkIs
  <2>2. Len(c) = n
    BY <1>1, <1>2
  <2> QED
    BY <2>1, <2>2
<1>4. PICK G : G = [x \in Seq(Nat) \X (1..n) |-> x[1] \o c[x[2]]]
  OBVIOUS
<1>5. /\ G \in [Seq(Nat) \X (1..n) -> Seq(Nat)]
      /\ \A y \in Seq(Nat), i \in 1..n : G[<<y, i>>] = y \o c[i]
  <2>1. ASSUME NEW x \in Seq(Nat) \X (1..n) PROVE x[1] \o c[x[2]] \in Seq(Nat)
    <3>1. x[1] \in Seq(Nat) /\ c[x[2]] \in Seq(Nat)
      BY <1>3
    <3>2. PICK w : w = x[1] \o c[x[2]]
      OBVIOUS
    <3>3. w \in Seq(Nat)
      BY <3>1, <3>2, ConcatIs
    <3> QED
      BY <3>2, <3>3
  <2>2. G \in [Seq(Nat) \X (1..n) -> Seq(Nat)]
    BY <1>4, <2>1
  <2>3. ASSUME NEW y \in Seq(Nat), NEW i \in 1..n PROVE G[<<y, i>>] = y \o c[i]
    <3>1. <<y, i>> \in Seq(Nat) \X (1..n) /\ <<y, i>>[1] = y /\ <<y, i>>[2] = i
      OBVIOUS
    <3>2. G[<<y, i>>] = <<y, i>>[1] \o c[<<y, i>>[2]]
      BY <1>4, <3>1
    <3> QED
      BY <3>1, <3>2
  <2> QED
    BY <2>2, <2>3
<1>6. PICK f : f \in Rounds(n, Seq(Nat), <<>>, G)
  <2>1. <<>> \in Seq(Nat)
    OBVIOUS
  <2> QED
    BY <2>1, <1>5, RoundsExist
<1>7. /\ f \in [0..n -> Seq(Nat)] /\ f[0] = <<>>
      /\ \A k \in 1..n : f[k] = f[k - 1] \o c[k] /\ f[k - 1] \in Seq(Nat)
  <2>1. f \in [0..n -> Seq(Nat)] /\ f[0] = <<>> /\ \A k \in 1..n : f[k] = G[<<f[k - 1], k>>]
    BY <1>6 DEF Rounds
  <2>2. ASSUME NEW k \in 1..n PROVE f[k] = f[k - 1] \o c[k] /\ f[k - 1] \in Seq(Nat)
    <3>1. k - 1 \in 0..n
      OBVIOUS
    <3>2. f[k - 1] \in Seq(Nat)
      BY <2>1, <3>1
    <3>3. G[<<f[k - 1], k>>] = f[k - 1] \o c[k]
      BY <3>2, <1>5
    <3> QED
      BY <2>1, <3>2, <3>3
  <2> QED
    BY <2>1, <2>2
<1>8. Flat(L, f)
  BY <1>1, <1>3, <1>7 DEF Flat
<1>9. FlattenSeq(c) = f[n]
  <2>1. CASE n = 0
    <3>1. c = <<>> /\ FlattenSeq(c) = c
      BY <2>1, <1>2, <1>3 DEF FlattenSeq
    <3> QED
      BY <2>1, <3>1, <1>7
  <2>2. CASE n # 0
    <3>1. \E e : Flattened(c, n, e)
      <4>1. PICK e : e = [i \in 1..n |-> f[i]]
        OBVIOUS
      <4>2. ASSUME NEW i \in 1..n PROVE e[i] = IF i = 1 THEN c[i] ELSE e[i - 1] \o c[i]
        <5>1. CASE i = 1
          <6>0. 1 \in 1..n /\ 1 - 1 = 0
            BY <5>1
          <6>1. f[1] = f[1 - 1] \o c[1] /\ f[0] = <<>> /\ c[1] \in Seq(Nat)
            BY <6>0, <1>3, <1>7
          <6>2. <<>> \o c[1] = c[1]
            BY <6>1, ConcatEmptySeq
          <6>3. f[1] = c[1]
            BY <6>0, <6>1, <6>2
          <6>4. e[1] = f[1]
            BY <4>1, <5>1
          <6> QED
            BY <5>1, <6>3, <6>4
        <5>2. CASE i # 1
          <6>1. i - 1 \in 1..n
            BY <5>2
          <6> QED
            BY <4>1, <5>2, <6>1, <1>7
        <5> QED
          BY <5>1, <5>2
      <4>3. Flattened(c, n, e)
        BY <4>1, <4>2 DEF Flattened
      <4> QED
        BY <4>3
    <3>2. FlattenSeq(c) = (CHOOSE e : Flattened(c, n, e))[n]
      BY <2>2, <1>3 DEF FlattenSeq, Flattened
    <3>3. PICK e : Flattened(c, n, e) /\ FlattenSeq(c) = e[n]
      BY <3>1, <3>2
    <3>4. \A i \in 1..n : e[i] = IF i = 1 THEN c[i] ELSE e[i - 1] \o c[i]
      BY <3>3 DEF Flattened
    <3>5. PICK H : H = {k \in Nat : k = 0 \/ e[k] = f[k]}
      OBVIOUS
    <3>6. 0 \in H
      BY <3>5
    <3>7. ASSUME NEW k \in Nat, k < n, k \in H PROVE k + 1 \in H
      <4>1. k + 1 \in 1..n /\ (k + 1) - 1 = k
        BY <3>7
      <4>2. f[k + 1] = f[k] \o c[k + 1]
        BY <4>1, <1>7
      <4>3. CASE k = 0
        <5>1. k + 1 = 1 /\ 1 \in 1..n /\ f[k] = <<>>
          BY <4>1, <4>3, <1>7
        <5>2. c[1] \in Seq(Nat) /\ e[1] = c[1] /\ f[1] = <<>> \o c[1]
          BY <4>2, <5>1, <3>4, <1>3
        <5>3. <<>> \o c[1] = c[1]
          BY <5>2, ConcatEmptySeq
        <5>4. e[k + 1] = f[k + 1]
          BY <5>1, <5>2, <5>3
        <5> QED
          BY <5>4, <3>5
      <4>4. CASE k # 0
        <5>0. k + 1 # 1
          BY <4>4
        <5>1. e[k + 1] = e[(k + 1) - 1] \o c[k + 1]
          BY <4>1, <5>0, <3>4
        <5>2. e[k] = f[k]
          BY <4>4, <3>5, <3>7
        <5>3. e[k + 1] = f[k + 1]
          BY <4>1, <4>2, <5>1, <5>2
        <5> QED
          BY <5>3, <3>5
      <4> QED
        BY <4>3, <4>4
    <3>8. n \in H
      <4>1. \A k \in Nat : k < n /\ k \in H => k + 1 \in H
        BY <3>7
      <4>2. \A k \in Nat : k <= n => k \in H
        BY <3>6, <4>1, UpToN
      <4> QED
        BY <4>2
    <3>9. e[n] = f[n]
      BY <3>5, <3>8, <2>2
    <3> QED
      BY <3>3, <3>9
  <2> QED
    BY <2>1, <2>2
<1>10. [i \in DOMAIN L |-> Chunk(L[i])] = c
  BY <1>1, <1>2
<1> QED
  BY <1>1, <1>8, <1>9, <1>10

\* The first values of a list are the front of all of them.
LEMMA FlatFront ==
  ASSUME NEW L \in Seq(Value), NEW f, Flat(L, f), NEW k \in 0..Len(L)
  PROVE  /\ f[k] \in Seq(Nat) /\ f[Len(L)] \in Seq(Nat)
         /\ Len(f[k]) <= Len(f[Len(L)])
         /\ \A i \in 1..Len(f[k]) : f[Len(L)][i] = f[k][i]
<1>1. PICK n \in Nat : n = Len(L) /\ \A i \in 1..n : L[i] \in Value
  OBVIOUS
<1>2. /\ \A j \in 0..n : f[j] \in Seq(Nat) /\ Len(f[j]) \in Nat
      /\ \A j \in 1..n : f[j] = f[j - 1] \o Chunk(L[j])
  <2>1. f \in [0..n -> Seq(Nat)] /\ \A j \in 1..n : f[j] = f[j - 1] \o Chunk(L[j])
    BY <1>1 DEF Flat
  <2>2. ASSUME NEW j \in 0..n PROVE f[j] \in Seq(Nat) /\ Len(f[j]) \in Nat
    BY <2>1
  <2> QED
    BY <2>1, <2>2
<1>3. PICK H : H = {j \in Nat : \/ j < k
                                \/ /\ Len(f[k]) <= Len(f[j])
                                   /\ \A i \in 1..Len(f[k]) : f[j][i] = f[k][i]}
  OBVIOUS
<1>4. k \in Nat /\ k <= n /\ k \in 0..n /\ n \in 0..n
  BY <1>1
<1>5. 0 \in H
  <2>1. k = 0 \/ 0 < k
    BY <1>4
  <2>2. CASE k = 0
    <3>1. Len(f[k]) <= Len(f[0])
      BY <1>2, <1>4, <2>2
    <3> QED
      BY <1>3, <2>2, <3>1
  <2> QED
    BY <1>3, <2>1, <2>2
<1>6. ASSUME NEW j \in Nat, j < n, j \in H PROVE j + 1 \in H
  <2>1. j \in 0..n /\ j + 1 \in 1..n /\ j + 1 \in 0..n /\ (j + 1) - 1 = j
    BY <1>6
  <2>2. CASE j + 1 < k
    BY <1>3, <2>2
  <2>3. CASE j + 1 = k
    <3>1. Len(f[k]) <= Len(f[j + 1])
      BY <1>2, <1>4, <2>3
    <3> QED
      BY <1>3, <2>3, <3>1
  <2>4. CASE k <= j
    <3>1. Len(f[k]) <= Len(f[j]) /\ \A i \in 1..Len(f[k]) : f[j][i] = f[k][i]
      BY <1>3, <1>4, <1>6, <2>4
    <3>2. PICK c \in Seq(Nat) : c = Chunk(L[j + 1])
      BY <2>1, <1>1, ChunkIs
    <3>3. PICK e, g : e = f[j] /\ e \in Seq(Nat) /\ g = f[j + 1] /\ g = e \o c
      BY <2>1, <3>2, <1>2
    <3>4. /\ Len(g) = Len(e) + Len(c) /\ Len(c) \in Nat /\ Len(e) \in Nat
          /\ \A i \in 1..Len(e) : g[i] = e[i]
      <4>1. Joined(g, e, c)
        BY <3>2, <3>3, ConcatIs
      <4> QED
        BY <4>1 DEF Joined
    <3>5. PICK l \in Nat : l = Len(f[k])
      BY <1>2, <1>4
    <3>6. l <= Len(e) /\ \A i \in 1..l : e[i] = f[k][i]
      BY <3>1, <3>3, <3>5
    <3>7. l <= Len(g) /\ \A i \in 1..l : i \in 1..Len(e)
      BY <3>4, <3>5, <3>6
    <3>8. \A i \in 1..l : g[i] = f[k][i]
      BY <3>4, <3>6, <3>7
    <3>9. Len(f[k]) <= Len(f[j + 1]) /\ \A i \in 1..Len(f[k]) : f[j + 1][i] = f[k][i]
      BY <3>3, <3>5, <3>7, <3>8
    <3> QED
      BY <1>3, <3>9
  <2> QED
    BY <1>4, <2>2, <2>3, <2>4
<1>7. n \in H
  <2>1. \A j \in Nat : j < n /\ j \in H => j + 1 \in H
    BY <1>6
  <2>2. \A j \in Nat : j <= n => j \in H
    BY <1>5, <2>1, UpToN
  <2> QED
    BY <2>2
<1>8. Len(f[k]) <= Len(f[n]) /\ \A i \in 1..Len(f[k]) : f[n][i] = f[k][i]
  BY <1>3, <1>4, <1>7
<1> QED
  BY <1>1, <1>2, <1>4, <1>8

\* The value v is in the message m from p on, up to q.
At(m, v, p, q) ==
  /\ p \in Nat /\ q = p + 2 + Len(Bytes(v.n)) /\ p >= 3 /\ q <= Len(m) + 1
  /\ m[p] = v.id /\ m[p + 1] = Len(Bytes(v.n))
  /\ \A j \in 1..Len(Bytes(v.n)) : m[p + 1 + j] = Bytes(v.n)[j]

\* The places of the values of a list in a message, the last one its end.
Places(m, L, at) ==
  /\ at \in [1..(Len(L) + 1) -> Nat]
  /\ at[1] = 3 /\ at[Len(L) + 1] = Len(m) + 1
  /\ \A k \in 1..Len(L) : At(m, L[k], at[k], at[k + 1])

\* A message is its head and the values, one after the other.
LEMMA MessageIs ==
  ASSUME NEW r \in Reports
  PROVE  /\ Encode(r) \in Seq(Nat) /\ Encode(r)[1] = r.id /\ Encode(r)[2] = r.result
         /\ \E at : Places(Encode(r), r.list, at)
<1>1. r.id \in Nat /\ r.result \in Nat /\ r.list \in Seq(Value)
  BY ReportConstants DEF GOPRO_QUERY_STATUS_GET_STATUS, GOPRO_QUERY_STATUS_REG_STATUS,
                         GOPRO_QUERY_STATUS_REG_STATUS_NOTIFY
<1>2. PICK L \in Seq(Value), n \in Nat : L = r.list /\ n = Len(L) /\ \A i \in 1..n : L[i] \in Value
  BY <1>1
<1>3. PICK f : Flat(L, f) /\ FlattenSeq([i \in DOMAIN L |-> Chunk(L[i])]) = f[n]
  BY <1>2, FlatIs
<1>4. PICK h : h = <<r.id, r.result>>
  OBVIOUS
<1>5. h \in Seq(Nat) /\ Len(h) = 2 /\ h[1] = r.id /\ h[2] = r.result
  BY <1>1, <1>4
<1>6. PICK m : m = Encode(r)
  OBVIOUS
<1>7. m = h \o f[n]
  BY <1>2, <1>3, <1>4, <1>6 DEF Encode, Chunk
<1>8. /\ f[n] \in Seq(Nat)
      /\ \A k \in 0..n : /\ f[k] \in Seq(Nat) /\ Len(f[k]) \in Nat /\ Len(f[k]) <= Len(f[n])
                         /\ \A i \in 1..Len(f[k]) : f[n][i] = f[k][i]
  <2>1. ASSUME NEW k \in 0..n
        PROVE  /\ f[k] \in Seq(Nat) /\ f[n] \in Seq(Nat) /\ Len(f[k]) <= Len(f[n])
               /\ \A i \in 1..Len(f[k]) : f[n][i] = f[k][i]
    BY <1>2, <1>3, FlatFront
  <2>2. 0 \in 0..n
    OBVIOUS
  <2> QED
    BY <2>1, <2>2
<1>9. /\ m \in Seq(Nat) /\ Len(m) = 2 + Len(f[n]) /\ Len(m) \in Nat
      /\ m[1] = r.id /\ m[2] = r.result
      /\ \A i \in 1..Len(f[n]) : m[2 + i] = f[n][i]
  <2>1. PICK g \in Seq(Nat) : g = f[n]
    BY <1>8
  <2>2. /\ m \in Seq(Nat) /\ Len(m) = Len(h) + Len(g)
        /\ \A i \in 1..Len(h) : m[i] = h[i]
        /\ \A i \in 1..Len(g) : m[Len(h) + i] = g[i]
    <3>1. m \in Seq(Nat) /\ Joined(m, h, g)
      BY <1>5, <1>7, <2>1, ConcatIs
    <3> QED
      BY <3>1 DEF Joined
  <2>3. 1 \in 1..Len(h) /\ 2 \in 1..Len(h) /\ Len(m) \in Nat
    BY <1>5, <2>2
  <2> QED
    BY <2>1, <2>2, <2>3, <1>5
<1>10. PICK at : at = [k \in 1..(n + 1) |-> 3 + Len(f[k - 1])]
  OBVIOUS
<1>11. ASSUME NEW k \in 1..(n + 1) PROVE k - 1 \in 0..n /\ at[k] = 3 + Len(f[k - 1]) /\ at[k] \in Nat
  BY <1>8, <1>10
<1>12. at[1] = 3
  <2>1. 1 \in 1..(n + 1) /\ 1 - 1 = 0 /\ f[0] = <<>> /\ Len(<<>>) = 0
    BY <1>3 DEF Flat
  <2>2. at[1] = 3 + 0
    BY <1>10, <2>1
  <2> QED
    BY <2>2
<1>13. at[n + 1] = Len(m) + 1
  <2>1. n + 1 \in 1..(n + 1) /\ (n + 1) - 1 = n
    OBVIOUS
  <2>2. at[n + 1] = 3 + Len(f[n])
    BY <1>10, <2>1
  <2>3. Len(f[n]) \in Nat
    BY <1>8
  <2> QED
    BY <2>2, <2>3, <1>9
<1>14. ASSUME NEW k \in 1..n PROVE At(m, L[k], at[k], at[k + 1])
  <2>1. PICK c : c = Chunk(L[k])
    OBVIOUS
  <2>2. PICK b : b = Bytes(L[k].n)
    OBVIOUS
  <2>3. PICK e \in Seq(Nat), l \in Nat : e = f[k - 1] /\ l = Len(e)
    <3>1. k - 1 \in 0..n
      OBVIOUS
    <3> QED
      BY <3>1, <1>8
  <2>4. /\ c \in Seq(Nat) /\ Len(b) \in 1..2 /\ Len(c) = 2 + Len(b)
        /\ c[1] = L[k].id /\ c[2] = Len(b) /\ \A j \in 1..Len(b) : c[2 + j] = b[j]
    BY <1>2, <2>1, <2>2, ChunkIs
  <2>5. f[k] = e \o c
    BY <1>2, <1>3, <2>1, <2>3 DEF Flat
  <2>6. Len(f[k]) = l + Len(c) /\ \A i \in 1..Len(c) : f[k][l + i] = c[i]
    <3>1. PICK w : w = f[k] /\ w = e \o c
      BY <2>5
    <3>2. Joined(w, e, c)
      BY <2>3, <2>4, <3>1, ConcatIs
    <3>3. Len(w) = Len(e) + Len(c) /\ \A i \in 1..Len(c) : w[Len(e) + i] = c[i]
      BY <3>2 DEF Joined
    <3> QED
      BY <2>3, <3>1, <3>3
  <2>7. k \in 0..n /\ k \in 1..(n + 1) /\ k + 1 \in 1..(n + 1) /\ (k + 1) - 1 = k
    OBVIOUS
  <2>8. at[k] = 3 + l /\ at[k + 1] = 3 + Len(f[k])
    BY <1>11, <2>3, <2>7
  <2>9. Len(f[k]) <= Len(f[n]) /\ Len(f[n]) \in Nat /\ Len(f[k]) \in Nat
    BY <1>8, <2>7
  <2>10. ASSUME NEW i \in 1..Len(c) PROVE m[at[k] + i - 1] = c[i]
    <3>1. l + i \in 1..Len(f[k]) /\ l + i \in 1..Len(f[n])
      <4>0. Len(c) \in Nat
        BY <2>4
      <4>1. PICK x \in Nat, y \in Nat, z \in Nat : x = Len(c) /\ y = Len(f[k]) /\ z = Len(f[n])
        BY <4>0, <2>9
      <4>2. y = l + x /\ y <= z /\ i \in 1..x
        BY <2>6, <2>9, <4>1
      <4>3. l + i \in 1..y /\ l + i \in 1..z
        BY <4>2
      <4> QED
        BY <4>1, <4>3
    <3>2. m[2 + (l + i)] = f[n][l + i] /\ f[n][l + i] = f[k][l + i]
      BY <1>8, <1>9, <2>7, <3>1
    <3>3. f[k][l + i] = c[i]
      BY <2>6
    <3>4. at[k] + i - 1 = 2 + (l + i)
      BY <2>8
    <3> QED
      BY <3>2, <3>3, <3>4
  <2>11. at[k] \in Nat /\ at[k] >= 3
    BY <2>8
  <2>12. m[at[k]] = L[k].id /\ m[at[k] + 1] = Len(b)
    <3>1. 1 \in 1..Len(c) /\ 2 \in 1..Len(c) /\ at[k] + 1 - 1 = at[k] /\ at[k] + 2 - 1 = at[k] + 1
      BY <2>4, <2>11
    <3>2. m[at[k] + 1 - 1] = c[1] /\ m[at[k] + 2 - 1] = c[2]
      BY <2>10, <3>1
    <3> QED
      BY <2>4, <3>1, <3>2
  <2>13. ASSUME NEW j \in 1..Len(b) PROVE m[at[k] + 1 + j] = b[j]
    <3>1. 2 + j \in 1..Len(c) /\ at[k] + (2 + j) - 1 = at[k] + 1 + j
      BY <2>4, <2>11
    <3>2. m[at[k] + (2 + j) - 1] = c[2 + j]
      BY <2>10, <3>1
    <3> QED
      BY <2>4, <3>1, <3>2
  <2>14. at[k + 1] = at[k] + 2 + Len(b) /\ at[k + 1] <= Len(m) + 1
    BY <2>4, <2>6, <2>8, <2>9, <1>9
  <2> QED
    BY <2>2, <2>11, <2>12, <2>13, <2>14 DEF At
<1>15. Places(m, L, at)
  <2>1. at \in [1..(n + 1) -> Nat]
    BY <1>10, <1>11
  <2> QED
    BY <1>2, <1>12, <1>13, <1>14, <2>1 DEF Places
<1> QED
  BY <1>2, <1>6, <1>9, <1>15

-----------------------------------------------------------------------------
(* What the parsers read *)

\* The status after a value.
Updated(s, v) ==
  CASE v.id = GOPRO_STATUS_ID_ENCODING -> [s EXCEPT !.record = v.n]
    [] v.id = GOPRO_STATUS_ID_BAT_PERCENT -> [s EXCEPT !.battery = v.n]
    [] v.id = GOPRO_STATUS_ID_VIDEO_NUM -> [s EXCEPT !.video_count = v.n]
    [] OTHER -> s

\* A record state and a battery level have one byte.
Fits(v) == v.id \in {GOPRO_STATUS_ID_ENCODING, GOPRO_STATUS_ID_BAT_PERCENT} => v.n < 256

\* The bytes of a value in the message.
LEMMA BytesRead ==
  ASSUME NEW m \in Seq(Nat), NEW v \in Value, NEW p, NEW q, At(m, v, p, q)
  PROVE  SubSeq(m, p + 2, p + 1 + m[p + 1]) = Bytes(v.n)
<1>1. PICK b : b = Bytes(v.n)
  OBVIOUS
<1>2. v.n \in Nat
  BY DEF Value
<1>3. b \in Seq(Nat) /\ Len(b) \in 1..2
  BY <1>1, <1>2, BytesAre
<1>4. PICK l \in 1..2 : l = Len(b)
  BY <1>3
<1>5. /\ p \in Nat /\ p >= 3 /\ p + 2 + l <= Len(m) + 1 /\ m[p + 1] = l
      /\ \A j \in 1..l : m[p + 1 + j] = b[j]
  BY <1>1, <1>4 DEF At
<1>6. PICK c : c = SubSeq(m, p + 2, p + 1 + l)
  OBVIOUS
<1>7. Len(m) \in Nat /\ l \in Nat /\ l >= 1
  OBVIOUS
<1>8. c \in Seq(Nat) /\ Len(c) = l /\ \A j \in 1..l : c[j] = m[p + 1 + j]
  <2>1. PICK u \in Nat, w \in Nat : u = p + 2 /\ w = p + 1 + l
    BY <1>5, <1>7
  <2>2. u >= 1 /\ w <= Len(m) /\ w - u + 1 = l /\ u <= w
    BY <1>5, <1>7, <2>1
  <2>3. ASSUME NEW i \in u..w PROVE m[i] \in Nat
    <3>1. i \in 1..Len(m)
      BY <2>1, <2>2, <1>7
    <3> QED
      BY <3>1
  <2>4. /\ SubSeq(m, u, w) \in Seq(Nat)
        /\ Len(SubSeq(m, u, w)) = IF u <= w THEN w - u + 1 ELSE 0
        /\ \A j \in 1..(w - u + 1) : SubSeq(m, u, w)[j] = m[u + j - 1]
    <3>1. u \in Int /\ w \in Int /\ \A i \in u..w : m[i] \in Nat
      BY <2>1, <2>3
    <3> QED
      BY <3>1, SubSeqProperties
  <2>5. \A j \in 1..l : u + j - 1 = p + 1 + j
    BY <1>5, <2>1
  <2>6. c = SubSeq(m, u, w)
    BY <1>6, <2>1
  <2> QED
    BY <2>2, <2>4, <2>5, <2>6
<1>9. Len(c) = Len(b) /\ \A j \in 1..Len(c) : c[j] = b[j]
  BY <1>4, <1>5, <1>8
<1>10. c = b
  BY <1>3, <1>8, <1>9, SeqEqual
<1> QED
  BY <1>1, <1>5, <1>6, <1>10

\* An entry is read as its value, and the next one is where it ends.
LEMMA ValueRead ==
  ASSUME NEW m \in Seq(Nat), NEW v \in Value, Fits(v), NEW p, NEW q, At(m, v, p, q), NEW s
  PROVE  Entry(s, m, p) = Updated(s, v) /\ NextEntry(m, p) = q /\ p \in Nat /\ p < Len(m)
<1>1. v.n \in Nat /\ v.id \in Nat
  BY DEF Value
<1>2. PICK b : b = Bytes(v.n)
  OBVIOUS
<1>3. Len(b) \in 1..2 /\ (v.n < 256 => Len(b) = 1 /\ b[1] = v.n)
  BY <1>1, <1>2, BytesAre
<1>4. /\ p \in Nat /\ q = p + 2 + Len(b) /\ q <= Len(m) + 1
      /\ m[p] = v.id /\ m[p + 1] = Len(b)
      /\ \A j \in 1..Len(b) : m[p + 1 + j] = b[j]
  BY <1>2 DEF At
<1>5. p < Len(m)
  BY <1>3, <1>4
<1>6. ASSUME v.n < 256 PROVE m[p + 2] = v.n
  <2>1. 1 \in 1..Len(b) /\ p + 1 + 1 = p + 2
    BY <1>3, <1>4, <1>6
  <2>2. m[p + 1 + 1] = b[1]
    BY <1>4, <2>1
  <2> QED
    BY <1>3, <1>6, <2>1, <2>2
<1>7. GOPRO_STATUS_ID_ENCODING = 10 /\ GOPRO_STATUS_ID_VIDEO_NUM = 39 /\ GOPRO_STATUS_ID_BAT_PERCENT = 70
  BY DEF GOPRO_STATUS_ID_ENCODING, GOPRO_STATUS_ID_VIDEO_NUM, GOPRO_STATUS_ID_BAT_PERCENT
<1>8. CASE v.id = GOPRO_STATUS_ID_ENCODING
  <2>1. v.n < 256 /\ Len(b) = 1
    BY <1>3, <1>8 DEF Fits
  <2>2. Entry(s, m, p) = [s EXCEPT !.record = m[p + 2]]
    BY <1>4, <1>7, <1>8 DEF Entry
  <2>3. Updated(s, v) = [s EXCEPT !.record = v.n]
    BY <1>7, <1>8 DEF Updated
  <2>4. NextEntry(m, p) = p + 3 /\ q = p + 3
    BY <1>4, <1>8, <2>1 DEF NextEntry
  <2> QED
    BY <1>4, <1>5, <1>6, <2>1, <2>2, <2>3, <2>4
<1>9. CASE v.id = GOPRO_STATUS_ID_BAT_PERCENT
  <2>1. v.n < 256 /\ Len(b) = 1
    BY <1>3, <1>9 DEF Fits
  <2>2. Entry(s, m, p) = [s EXCEPT !.battery = m[p + 2]]
    BY <1>4, <1>7, <1>9 DEF Entry
  <2>3. Updated(s, v) = [s EXCEPT !.battery = v.n]
    BY <1>7, <1>9 DEF Updated
  <2>4. NextEntry(m, p) = p + 3 /\ q = p + 3
    BY <1>4, <1>9, <2>1 DEF NextEntry
  <2> QED
    BY <1>4, <1>5, <1>6, <2>1, <2>2, <2>3, <2>4
<1>10. CASE v.id \notin {GOPRO_STATUS_ID_ENCODING, GOPRO_STATUS_ID_BAT_PERCENT}
  <2>1. NextEntry(m, p) = q
    BY <1>4, <1>10 DEF NextEntry
  <2>2. CASE v.id = GOPRO_STATUS_ID_VIDEO_NUM
    <3>1. Entry(s, m, p) = [s EXCEPT !.video_count = video_count(SubSeq(m, p + 2, p + 1 + m[p + 1]))]
      BY <1>4, <1>7, <2>2 DEF Entry
    <3>2. video_count(SubSeq(m, p + 2, p + 1 + m[p + 1])) = v.n
      <4>1. SubSeq(m, p + 2, p + 1 + m[p + 1]) = Bytes(v.n)
        BY BytesRead
      <4>2. video_count(Bytes(v.n)) = v.n
        BY <1>1, CountOfBytes
      <4> QED
        BY <4>1, <4>2
    <3>3. Updated(s, v) = [s EXCEPT !.video_count = v.n]
      BY <1>7, <2>2 DEF Updated
    <3> QED
      BY <1>4, <1>5, <2>1, <3>1, <3>2, <3>3
  <2>3. CASE v.id # GOPRO_STATUS_ID_VIDEO_NUM
    <3>1. Entry(s, m, p) = s
      BY <1>4, <1>10, <2>3 DEF Entry
    <3>2. Updated(s, v) = s
      BY <1>10, <2>3 DEF Updated
    <3> QED
      BY <1>4, <1>5, <2>1, <3>1, <3>2
  <2> QED
    BY <2>2, <2>3
<1> QED
  BY <1>8, <1>9, <1>10

\* The function with which Entries walks through a message.
WalkStep(m, g, p) == IF p >= Len(m) THEN <<>> ELSE <<p>> \o g[NextEntry(m, p)]

Walk(m, g) == g = [p \in Nat |-> WalkStep(m, g, p)]

\* An entry ends behind where it starts.
LEMMA NextIsLater ==
  ASSUME NEW m \in Seq(Nat), NEW p \in Nat, p < Len(m)
  PROVE  NextEntry(m, p) \in Nat /\ p < NextEntry(m, p)
<1>1. Len(m) \in Nat /\ p + 1 \in 1..Len(m)
  OBVIOUS
<1>2. m[p + 1] \in Nat
  BY <1>1
<1>3. NextEntry(m, p) = p + 3 \/ NextEntry(m, p) = p + 2 + m[p + 1]
  BY DEF NextEntry
<1> QED
  BY <1>2, <1>3

\* It exists: after as many rounds as the message has bytes nothing changes any more.
LEMMA WalkExists ==
  ASSUME NEW m \in Seq(Nat)
  PROVE  \E g : Walk(m, g)
<1>1. PICK l \in Nat, n \in Nat : l = Len(m) /\ n = l + 1
  OBVIOUS
<1>2. PICK W : W = [Nat -> Seq(Nat)]
  OBVIOUS
<1>3. PICK G : G = [x \in W \X (1..n) |-> [p \in Nat |-> WalkStep(m, x[1], p)]]
  OBVIOUS
<1>4. ASSUME NEW w \in W PROVE [p \in Nat |-> WalkStep(m, w, p)] \in W
  <2>1. ASSUME NEW p \in Nat PROVE WalkStep(m, w, p) \in Seq(Nat)
    <3>1. CASE p >= Len(m)
      BY <3>1 DEF WalkStep
    <3>2. CASE ~(p >= Len(m))
      <4>1. NextEntry(m, p) \in Nat
        BY <3>2, <1>1, NextIsLater
      <4>2. PICK e \in Seq(Nat) : e = w[NextEntry(m, p)]
        BY <4>1, <1>2
      <4>3. <<p>> \in Seq(Nat)
        OBVIOUS
      <4>4. PICK u : u = <<p>> \o e
        OBVIOUS
      <4>5. u \in Seq(Nat)
        BY <4>3, <4>4, ConcatIs
      <4> QED
        BY <3>2, <4>2, <4>4, <4>5 DEF WalkStep
    <3> QED
      BY <3>1, <3>2
  <2> QED
    BY <2>1, <1>2
<1>5. G \in [W \X (1..n) -> W]
  <2>1. ASSUME NEW x \in W \X (1..n) PROVE [p \in Nat |-> WalkStep(m, x[1], p)] \in W
    <3>1. x[1] \in W
      OBVIOUS
    <3> QED
      BY <3>1, <1>4
  <2> QED
    BY <2>1, <1>3
<1>6. ASSUME NEW w \in W, NEW i \in 1..n, NEW p \in Nat PROVE G[<<w, i>>][p] = WalkStep(m, w, p)
  <2>1. <<w, i>> \in W \X (1..n) /\ <<w, i>>[1] = w
    OBVIOUS
  <2>2. G[<<w, i>>] = [q \in Nat |-> WalkStep(m, <<w, i>>[1], q)]
    BY <2>1, <1>3
  <2>3. G[<<w, i>>] = [q \in Nat |-> WalkStep(m, w, q)]
    BY <2>1, <2>2
  <2> QED
    BY <2>3
<1>7. PICK f : f \in Rounds(n, W, [p \in Nat |-> <<>>], G)
  <2>1. [p \in Nat |-> <<>>] \in W
    BY <1>2
  <2> QED
    BY <2>1, <1>5, RoundsExist
<1>8. /\ f[0] = [p \in Nat |-> <<>>]
      /\ \A k \in 0..n : f[k] \in W
      /\ \A k \in 0..l, p \in Nat : f[k + 1][p] = WalkStep(m, f[k], p)
  <2>1. f \in [0..n -> W] /\ f[0] = [p \in Nat |-> <<>>] /\ \A k \in 1..n : f[k] = G[<<f[k - 1], k>>]
    BY <1>7 DEF Rounds
  <2>2. ASSUME NEW k \in 0..l, NEW p \in Nat PROVE f[k + 1][p] = WalkStep(m, f[k], p)
    <3>1. k + 1 \in 1..n /\ (k + 1) - 1 = k /\ k \in 0..n
      BY <1>1
    <3>2. f[k] \in W
      BY <2>1, <3>1
    <3>3. f[k + 1] = G[<<f[k], k + 1>>]
      BY <2>1, <3>1
    <3>4. G[<<f[k], k + 1>>][p] = WalkStep(m, f[k], p)
      BY <3>1, <3>2, <1>6
    <3> QED
      BY <3>3, <3>4
  <2> QED
    BY <2>1, <2>2
<1>9. PICK H : H = {k \in Nat : \A p \in Nat : p + k >= l => f[k + 1][p] = f[k][p]}
  OBVIOUS
<1>10. 0 \in H
  <2>1. ASSUME NEW p \in Nat, p + 0 >= l PROVE f[0 + 1][p] = f[0][p]
    <3>1. 0 \in 0..l /\ p >= Len(m)
      BY <1>1, <2>1
    <3>2. f[0 + 1][p] = <<>>
      BY <3>1, <1>8 DEF WalkStep
    <3>3. f[0][p] = <<>>
      BY <1>8
    <3> QED
      BY <3>2, <3>3
  <2> QED
    BY <2>1, <1>9
<1>11. ASSUME NEW k \in Nat, k < l, k \in H PROVE k + 1 \in H
  <2>1. ASSUME NEW p \in Nat, p + (k + 1) >= l PROVE f[(k + 1) + 1][p] = f[k + 1][p]
    <3>1. k \in 0..l /\ k + 1 \in 0..l
      BY <1>11
    <3>2. f[(k + 1) + 1][p] = WalkStep(m, f[k + 1], p) /\ f[k + 1][p] = WalkStep(m, f[k], p)
      BY <3>1, <1>8
    <3>3. CASE p >= Len(m)
      BY <3>2, <3>3 DEF WalkStep
    <3>4. CASE ~(p >= Len(m))
      <4>1. PICK q \in Nat : q = NextEntry(m, p) /\ p < q
        <5>1. p < Len(m)
          BY <3>4, <1>1
        <5> QED
          BY <5>1, NextIsLater
      <4>2. q + k >= l
        BY <2>1, <4>1
      <4>3. f[k + 1][q] = f[k][q]
        BY <4>2, <1>9, <1>11
      <4> QED
        BY <3>2, <3>4, <4>1, <4>3 DEF WalkStep
    <3> QED
      BY <3>3, <3>4
  <2> QED
    BY <2>1, <1>9
<1>12. l \in H
  <2>1. \A k \in Nat : k < l /\ k \in H => k + 1 \in H
    BY <1>11
  <2>2. \A k \in Nat : k <= l => k \in H
    BY <1>10, <2>1, UpToN
  <2> QED
    BY <2>2
<1>13. \A p \in Nat : f[l][p] = WalkStep(m, f[l], p)
  <2>1. ASSUME NEW p \in Nat PROVE f[l][p] = WalkStep(m, f[l], p)
    <3>1. p + l >= l /\ l \in 0..l
      OBVIOUS
    <3>2. f[l + 1][p] = f[l][p]
      BY <3>1, <1>9, <1>12
    <3> QED
      BY <3>1, <3>2, <1>8
  <2> QED
    BY <2>1
<1>14. f[l] \in [Nat -> Seq(Nat)]
  <2>1. l \in 0..n
    BY <1>1
  <2> QED
    BY <2>1, <1>2, <1>8
<1>15. Walk(m, f[l])
  BY <1>13, <1>14 DEF Walk
<1> QED
  BY <1>15

\* The loop of gopro_parse_query_status_notify stops once at each value, in order.
LEMMA EntriesAre ==
  ASSUME NEW m \in Seq(Nat), NEW L \in Seq(Value), NEW at, Places(m, L, at),
         \A k \in 1..Len(L) : Fits(L[k])
  PROVE  Entries(m) = [k \in 1..Len(L) |-> at[k]]
<1>1. PICK n \in Nat : n = Len(L) /\ \A k \in 1..n : L[k] \in Value /\ Fits(L[k])
  OBVIOUS
<1>2. /\ at \in [1..(n + 1) -> Nat] /\ at[1] = 3 /\ at[n + 1] = Len(m) + 1
      /\ \A k \in 1..n : At(m, L[k], at[k], at[k + 1])
  BY <1>1 DEF Places
<1>3. Entries(m) = (CHOOSE g : Walk(m, g))[3]
  BY DEF Entries, Walk, WalkStep
<1>4. \E g : Walk(m, g)
  BY WalkExists
<1>5. PICK g : Walk(m, g) /\ Entries(m) = g[3]
  BY <1>3, <1>4
<1>6. ASSUME NEW p \in Nat PROVE g[p] = IF p >= Len(m) THEN <<>> ELSE <<p>> \o g[NextEntry(m, p)]
  BY <1>5 DEF Walk, WalkStep
<1>7. ASSUME NEW k \in 1..n PROVE g[at[k]] = <<at[k]>> \o g[at[k + 1]]
  <2>1. L[k] \in Value /\ Fits(L[k]) /\ At(m, L[k], at[k], at[k + 1])
    BY <1>1, <1>2
  <2>2. NextEntry(m, at[k]) = at[k + 1] /\ at[k] \in Nat /\ at[k] < Len(m)
    BY <2>1, ValueRead
  <2>3. ~(at[k] >= Len(m))
    BY <2>2
  <2> QED
    BY <2>2, <2>3, <1>6
\* The last d values are walked through from where they start.
<1>8. PICK H : H = {d \in Nat : d <= n => g[at[(n - d) + 1]] = [i \in 1..d |-> at[(n - d) + i]]}
  OBVIOUS
<1>9. 0 \in H
  <2>1. at[(n - 0) + 1] = Len(m) + 1 /\ Len(m) + 1 \in Nat /\ Len(m) + 1 >= Len(m)
    BY <1>2
  <2>2. g[at[(n - 0) + 1]] = <<>>
    BY <2>1, <1>6
  <2>3. [i \in 1..0 |-> at[(n - 0) + i]] = <<>>
    OBVIOUS
  <2> QED
    BY <2>2, <2>3, <1>8
<1>10. ASSUME NEW d \in Nat, d < n, d \in H PROVE d + 1 \in H
  <2>1. PICK k \in 1..n : k = n - d
    BY <1>10
  <2>2. (n - (d + 1)) + 1 = k /\ (n - d) + 1 = k + 1
    BY <2>1
  <2>3. PICK e : e = [i \in 1..d |-> at[k + i]] /\ g[at[k + 1]] = e
    BY <2>1, <2>2, <1>8, <1>10
  <2>4. PICK a : a = <<at[k]>>
    OBVIOUS
  <2>5. PICK w : w = a \o e /\ g[at[k]] = w
    BY <2>3, <2>4, <1>7
  <2>6. e \in Seq(Nat) /\ Len(e) = d /\ \A i \in 1..d : e[i] = at[k + i]
    <3>1. \A i \in 1..d : at[k + i] \in Nat
      <4>1. \A i \in 1..d : k + i \in 1..(n + 1)
        BY <2>1
      <4> QED
        BY <4>1, <1>2
    <3> QED
      BY <2>3, <3>1
  <2>7. a \in Seq(Nat) /\ Len(a) = 1 /\ a[1] = at[k]
    <3>1. at[k] \in Nat
      BY <1>2
    <3> QED
      BY <2>4, <3>1
  <2>8. w \in Seq(Nat) /\ Joined(w, a, e)
    BY <2>5, <2>6, <2>7, ConcatIs
  <2>9. /\ Len(w) = 1 + d
        /\ \A i \in 1..1 : w[i] = a[i]
        /\ \A i \in 1..d : w[1 + i] = at[k + i]
    BY <2>6, <2>7, <2>8 DEF Joined
  <2>10. PICK x : x = [i \in 1..(d + 1) |-> at[(k - 1) + i]]
    OBVIOUS
  <2>11. ASSUME NEW i \in 1..(d + 1) PROVE w[i] = x[i] /\ x[i] \in Nat
    <3>1. x[i] = at[(k - 1) + i] /\ (k - 1) + i \in 1..(n + 1)
      BY <2>1, <2>10
    <3>2. x[i] \in Nat
      BY <3>1, <1>2
    <3>3. CASE i = 1
      <4>1. w[1] = at[k] /\ (k - 1) + 1 = k
        BY <2>7, <2>9
      <4> QED
        BY <3>1, <3>2, <3>3, <4>1
    <3>4. CASE i # 1
      <4>1. i - 1 \in 1..d /\ 1 + (i - 1) = i /\ k + (i - 1) = (k - 1) + i
        BY <3>4
      <4>2. w[1 + (i - 1)] = at[k + (i - 1)]
        BY <4>1, <2>9
      <4> QED
        BY <3>1, <3>2, <4>1, <4>2
    <3> QED
      BY <3>3, <3>4
  <2>12. x \in Seq(Nat) /\ Len(x) = d + 1
    <3>1. \A i \in 1..(d + 1) : x[i] \in Nat
      BY <2>11
    <3>2. x \in [1..(d + 1) -> Nat]
      BY <2>10, <3>1
    <3>3. d + 1 \in Nat
      OBVIOUS
    <3> QED
      BY <3>2, <3>3
  <2>13. w = x
    <3>1. Len(w) = Len(x) /\ \A i \in 1..Len(w) : w[i] = x[i]
      BY <2>9, <2>11, <2>12
    <3> QED
      BY <2>8, <2>12, <3>1, SeqEqual
  <2>14. n - (d + 1) = k - 1
    BY <2>1
  <2>15. g[at[(n - (d + 1)) + 1]] = [i \in 1..(d + 1) |-> at[(n - (d + 1)) + i]]
    BY <2>2, <2>5, <2>10, <2>13, <2>14
  <2> QED
    BY <2>15, <1>8
<1>11. n \in H
  <2>1. \A k \in Nat : k < n /\ k \in H => k + 1 \in H
    BY <1>10
  <2>2. \A k \in Nat : k <= n => k \in H
    BY <1>9, <2>1, UpToN
  <2> QED
    BY <2>2
<1>12. g[at[(n - n) + 1]] = [i \in 1..n |-> at[(n - n) + i]]
  BY <1>8, <1>11
<1>13. (n - n) + 1 = 1 /\ \A i \in 1..n : (n - n) + i = i
  OBVIOUS
<1>14. g[3] = [i \in 1..n |-> at[i]]
  BY <1>2, <1>12, <1>13
<1> QED
  BY <1>1, <1>5, <1>14

\* The values the gateway keeps.
Statuses == [record : Nat, battery : Nat, video_count : Nat]

\* h has the status after each of the values.
Reads(L, s, h) ==
  h \in [0..Len(L) -> Statuses] /\ h[0] = s /\ \A k \in 1..Len(L) : h[k] = Updated(h[k - 1], L[k])

\* An update keeps the types.
LEMMA UpdatedTypes ==
  ASSUME NEW s \in Statuses, NEW v \in Value
  PROVE  Updated(s, v) \in Statuses
<1>1. v.n \in Nat
  BY DEF Value
<1>2. /\ [s EXCEPT !.record = v.n] \in Statuses /\ [s EXCEPT !.battery = v.n] \in Statuses
      /\ [s EXCEPT !.video_count = v.n] \in Statuses
  BY <1>1 DEF Statuses
<1> QED
  BY <1>2 DEF Updated

\* One step of the fold of gopro_parse_query_status_notify.
NotifyStep(m, e, f, s) == IF s = {} THEN status ELSE Entry(f[s \ {Max(s)}], m, e[Max(s)])

\* The parser applies the values in order.
LEMMA NotifyIs ==
  ASSUME NEW m \in Seq(Nat), NEW L \in Seq(Value), NEW at, Places(m, L, at),
         \A k \in 1..Len(L) : Fits(L[k]), status \in Statuses
  PROVE  \E h : Reads(L, status, h) /\ gopro_parse_query_status_notify(m) = h[Len(L)]
<1>1. PICK n \in Nat : n = Len(L) /\ \A k \in 1..n : L[k] \in Value /\ Fits(L[k])
  OBVIOUS
<1>2. PICK e : e = [k \in 1..n |-> at[k]] /\ Entries(m) = e
  BY <1>1, EntriesAre
<1>3. ASSUME NEW k \in 1..n, NEW s PROVE Entry(s, m, e[k]) = Updated(s, L[k])
  <2>1. L[k] \in Value /\ Fits(L[k]) /\ At(m, L[k], at[k], at[k + 1])
    BY <1>1 DEF Places
  <2>2. Entry(s, m, at[k]) = Updated(s, L[k])
    BY <2>1, ValueRead
  <2> QED
    BY <1>2, <2>2
<1>4. PICK G : G = [x \in Statuses \X (1..n) |-> Updated(x[1], L[x[2]])]
  OBVIOUS
<1>5. /\ G \in [Statuses \X (1..n) -> Statuses]
      /\ \A y \in Statuses, i \in 1..n : G[<<y, i>>] = Updated(y, L[i])
  <2>1. ASSUME NEW x \in Statuses \X (1..n) PROVE Updated(x[1], L[x[2]]) \in Statuses
    <3>1. x[1] \in Statuses /\ L[x[2]] \in Value
      BY <1>1
    <3> QED
      BY <3>1, UpdatedTypes
  <2>2. G \in [Statuses \X (1..n) -> Statuses]
    BY <1>4, <2>1
  <2>3. ASSUME NEW y \in Statuses, NEW i \in 1..n PROVE G[<<y, i>>] = Updated(y, L[i])
    <3>1. <<y, i>> \in Statuses \X (1..n) /\ <<y, i>>[1] = y /\ <<y, i>>[2] = i
      OBVIOUS
    <3>2. G[<<y, i>>] = Updated(<<y, i>>[1], L[<<y, i>>[2]])
      BY <1>4, <3>1
    <3> QED
      BY <3>1, <3>2
  <2> QED
    BY <2>2, <2>3
<1>6. PICK g : g \in Results(n, Statuses, status, G)
  BY <1>5, ResultsExist
<1>7. \E f : f = [s \in SUBSET (1..n) |-> NotifyStep(m, e, f, s)]
  <2>1. ASSUME NEW s \in SUBSET (1..n) PROVE g[s] = NotifyStep(m, e, g, s)
    <3>1. CASE s = {}
      BY <3>1, <1>6 DEF Results, NotifyStep
    <3>2. CASE s # {}
      <4>1. Max(s) \in 1..n
        BY <3>2, <1>1, MaxIs
      <4>2. s \ {Max(s)} \in SUBSET (1..n)
        OBVIOUS
      <4>3. g[s \ {Max(s)}] \in Statuses
        BY <4>2, <1>6 DEF Results
      <4>4. g[s] = G[<<g[s \ {Max(s)}], Max(s)>>]
        BY <3>2, <1>6 DEF Results
      <4>5. G[<<g[s \ {Max(s)}], Max(s)>>] = Updated(g[s \ {Max(s)}], L[Max(s)])
        BY <4>1, <4>3, <1>5
      <4>6. Entry(g[s \ {Max(s)}], m, e[Max(s)]) = Updated(g[s \ {Max(s)}], L[Max(s)])
        BY <4>1, <1>3
      <4> QED
        BY <3>2, <4>4, <4>5, <4>6 DEF NotifyStep
    <3> QED
      BY <3>1, <3>2
  <2>2. g = [s \in SUBSET (1..n) |-> NotifyStep(m, e, g, s)]
    BY <2>1, <1>6 DEF Results
  <2> QED
    BY <2>2
<1>8. gopro_parse_query_status_notify(m) =
        (CHOOSE f : f = [s \in SUBSET (1..n) |-> NotifyStep(m, e, f, s)])[1..n]
  <2>1. DOMAIN e = 1..n
    BY <1>2
  <2> QED
    BY <1>2, <2>1 DEF gopro_parse_query_status_notify, FoldLeft, MapThenFoldSet, NotifyStep
<1>9. PICK f : /\ f = [s \in SUBSET (1..n) |-> NotifyStep(m, e, f, s)]
               /\ gopro_parse_query_status_notify(m) = f[1..n]
  BY <1>7, <1>8
<1>10. ASSUME NEW s \in SUBSET (1..n) PROVE f[s] = NotifyStep(m, e, f, s)
  BY <1>9, <1>10
<1>11. f[1..0] = status
  <2>1. 1..0 = {} /\ {} \in SUBSET (1..n)
    OBVIOUS
  <2>2. f[{}] = NotifyStep(m, e, f, {})
    BY <2>1, <1>10
  <2> QED
    BY <2>1, <2>2 DEF NotifyStep
<1>12. ASSUME NEW k \in 1..n PROVE f[1..k] = Updated(f[1..(k - 1)], L[k])
  <2>1. PICK j \in Nat : j = k - 1 /\ j + 1 = k
    OBVIOUS
  <2>2. Max(1..(j + 1)) = j + 1 /\ 1..(j + 1) # {} /\ (1..(j + 1)) \ {j + 1} = 1..j
    BY UpToNext
  <2>3. Max(1..k) = k /\ 1..k # {} /\ (1..k) \ {k} = 1..(k - 1)
    BY <2>1, <2>2
  <2>4. 1..k \in SUBSET (1..n)
    OBVIOUS
  <2>5. f[1..k] = Entry(f[1..(k - 1)], m, e[k])
    BY <2>3, <2>4, <1>10 DEF NotifyStep
  <2> QED
    BY <2>5, <1>3
<1>13. PICK h : h = [k \in 0..n |-> f[1..k]]
  OBVIOUS
<1>14. h[0] = status /\ \A k \in 1..n : h[k] = Updated(h[k - 1], L[k])
  <2>1. 0 \in 0..n
    OBVIOUS
  <2>2. ASSUME NEW k \in 1..n PROVE h[k] = Updated(h[k - 1], L[k])
    <3>1. k \in 0..n /\ k - 1 \in 0..n
      OBVIOUS
    <3>2. h[k] = f[1..k] /\ h[k - 1] = f[1..(k - 1)]
      BY <3>1, <1>13
    <3> QED
      BY <3>2, <1>12
  <2> QED
    BY <2>1, <2>2, <1>11, <1>13
<1>15. \A k \in 0..n : h[k] \in Statuses
  <2>1. PICK H : H = {k \in Nat : h[k] \in Statuses}
    OBVIOUS
  <2>2. 0 \in H
    BY <2>1, <1>14
  <2>3. ASSUME NEW k \in Nat, k < n, k \in H PROVE k + 1 \in H
    <3>1. k + 1 \in 1..n /\ (k + 1) - 1 = k
      BY <2>3
    <3>2. h[k] \in Statuses /\ L[k + 1] \in Value
      BY <2>1, <2>3, <3>1, <1>1
    <3>3. h[k + 1] = Updated(h[k], L[k + 1])
      BY <3>1, <1>14
    <3> QED
      BY <3>2, <3>3, <2>1, UpdatedTypes
  <2>4. \A k \in Nat : k < n /\ k \in H => k + 1 \in H
    BY <2>3
  <2>5. \A k \in Nat : k <= n => k \in H
    BY <2>2, <2>4, UpToN
  <2> QED
    BY <2>1, <2>5
<1>16. Reads(L, status, h) /\ gopro_parse_query_status_notify(m) = h[n]
  <2>1. h \in [0..n -> Statuses]
    BY <1>13, <1>15
  <2>2. h[n] = f[1..n]
    BY <1>13
  <2> QED
    BY <2>1, <2>2, <1>1, <1>9, <1>14 DEF Reads
<1> QED
  BY <1>1, <1>16

-----------------------------------------------------------------------------
(* The status is what the camera has reported *)

\* x is the last value of an identifier among the first k, or else the one before them.
Latest(L, k, id, before, x) ==
  \/ x = before /\ \A i \in 1..k : L[i].id # id
  \/ \E i \in 1..k : x = L[i].n /\ L[i].id = id /\ \A j \in 1..k : L[j].id = id => j <= i

\* One value more.
LEMMA LatestNext ==
  ASSUME NEW L \in Seq(Value), NEW k \in 1..Len(L), NEW id, NEW before, NEW x,
         Latest(L, k - 1, id, before, x),
         NEW y, y = IF L[k].id = id THEN L[k].n ELSE x
  PROVE  Latest(L, k, id, before, y)
<1>1. k \in Nat /\ k >= 1 /\ k \in 1..k /\ \A i \in 1..k : i = k \/ i \in 1..(k - 1)
  OBVIOUS
<1>2. CASE L[k].id = id
  <2>1. \A j \in 1..k : j <= k
    OBVIOUS
  <2> QED
    BY <1>1, <1>2, <2>1 DEF Latest
<1>3. CASE L[k].id # id
  <2>1. CASE x = before /\ \A i \in 1..(k - 1) : L[i].id # id
    BY <1>1, <1>3, <2>1 DEF Latest
  <2>2. CASE \E i \in 1..(k - 1) : x = L[i].n /\ L[i].id = id /\ \A j \in 1..(k - 1) : L[j].id = id => j <= i
    <3>1. PICK i \in 1..(k - 1) : x = L[i].n /\ L[i].id = id /\ \A j \in 1..(k - 1) : L[j].id = id => j <= i
      BY <2>2
    <3>2. i \in 1..k /\ \A j \in 1..k : L[j].id = id => j <= i
      BY <1>1, <1>3, <3>1
    <3> QED
      BY <1>3, <3>1, <3>2 DEF Latest
  <2> QED
    BY <2>1, <2>2 DEF Latest
<1> QED
  BY <1>2, <1>3

\* The last of the values that count is the last one.
LEMMA LatestIs ==
  ASSUME NEW r, NEW n \in Nat, Counting(r) = 1..n, NEW id, NEW before, NEW x,
         Latest(r.list, n, id, before, x)
  PROVE  LastOf(r, id, before) = x
<1>1. PICK at : at = {i \in 1..n : r.list[i].id = id}
  OBVIOUS
<1>2. LastOf(r, id, before) =
        IF at = {} THEN before ELSE r.list[CHOOSE i \in at : \A j \in at : j <= i].n
  BY <1>1 DEF LastOf
<1>3. CASE x = before /\ \A i \in 1..n : r.list[i].id # id
  BY <1>1, <1>2, <1>3
<1>4. CASE \E i \in 1..n : /\ x = r.list[i].n /\ r.list[i].id = id
                           /\ \A j \in 1..n : r.list[j].id = id => j <= i
  <2>1. PICK i \in 1..n : /\ x = r.list[i].n /\ r.list[i].id = id
                          /\ \A j \in 1..n : r.list[j].id = id => j <= i
    BY <1>4
  <2>2. i \in at /\ \A j \in at : j <= i
    BY <1>1, <2>1
  <2>3. PICK c : c = CHOOSE k \in at : \A j \in at : j <= k
    OBVIOUS
  <2>4. c \in at /\ \A j \in at : j <= c
    BY <2>2, <2>3
  <2>5. c \in Nat /\ i \in Nat /\ c <= i /\ i <= c
    BY <1>1, <2>2, <2>4
  <2>6. c = i
    BY <2>5
  <2> QED
    BY <1>2, <2>1, <2>2, <2>3, <2>6
<1> QED
  BY <1>3, <1>4 DEF Latest

\* The values reported last, after a message.
NowReported(r, s) ==
  [record |-> LastOf(r, GOPRO_STATUS_ID_ENCODING, s.record),
   battery |-> LastOf(r, GOPRO_STATUS_ID_BAT_PERCENT, s.battery),
   video_count |-> LastOf(r, GOPRO_STATUS_ID_VIDEO_NUM, s.video_count)]

\* What one value does to each of the three.
LEMMA UpdatedIs ==
  ASSUME NEW s \in Statuses, NEW v \in Value, NEW t, t = Updated(s, v)
  PROVE  /\ t.record = IF v.id = GOPRO_STATUS_ID_ENCODING THEN v.n ELSE s.record
         /\ t.battery = IF v.id = GOPRO_STATUS_ID_BAT_PERCENT THEN v.n ELSE s.battery
         /\ t.video_count = IF v.id = GOPRO_STATUS_ID_VIDEO_NUM THEN v.n ELSE s.video_count
<1>1. GOPRO_STATUS_ID_ENCODING = 10 /\ GOPRO_STATUS_ID_VIDEO_NUM = 39 /\ GOPRO_STATUS_ID_BAT_PERCENT = 70
  BY DEF GOPRO_STATUS_ID_ENCODING, GOPRO_STATUS_ID_VIDEO_NUM, GOPRO_STATUS_ID_BAT_PERCENT
<1>2. CASE v.id = GOPRO_STATUS_ID_ENCODING
  <2>1. t = [s EXCEPT !.record = v.n]
    BY <1>1, <1>2 DEF Updated
  <2> QED
    BY <1>1, <1>2, <2>1 DEF Statuses
<1>3. CASE v.id = GOPRO_STATUS_ID_BAT_PERCENT
  <2>1. t = [s EXCEPT !.battery = v.n]
    BY <1>1, <1>3 DEF Updated
  <2> QED
    BY <1>1, <1>3, <2>1 DEF Statuses
<1>4. CASE v.id = GOPRO_STATUS_ID_VIDEO_NUM
  <2>1. t = [s EXCEPT !.video_count = v.n]
    BY <1>1, <1>4 DEF Updated
  <2> QED
    BY <1>1, <1>4, <2>1 DEF Statuses
<1>5. CASE v.id \notin {GOPRO_STATUS_ID_ENCODING, GOPRO_STATUS_ID_BAT_PERCENT, GOPRO_STATUS_ID_VIDEO_NUM}
  <2>1. t = s
    BY <1>5 DEF Updated
  <2> QED
    BY <1>5, <2>1
<1> QED
  BY <1>2, <1>3, <1>4, <1>5

\* Applying the values in order leaves the last of each identifier.
LEMMA ReadsAreReported ==
  ASSUME NEW r, Counting(r) = DOMAIN r.list, r.list \in Seq(Value),
         NEW s \in Statuses, NEW h, Reads(r.list, s, h)
  PROVE  h[Len(r.list)] = NowReported(r, s) /\ h[Len(r.list)] \in Statuses
<1>1. PICK L \in Seq(Value), n \in Nat : L = r.list /\ n = Len(L) /\ \A k \in 1..n : L[k] \in Value
  OBVIOUS
<1>2. h[0] = s /\ \A k \in 0..n : h[k] \in Statuses
  BY <1>1 DEF Reads
<1>3. \A k \in 1..n : h[k] = Updated(h[k - 1], L[k])
  BY <1>1 DEF Reads
<1>4. PICK H : H = {k \in Nat :
                      /\ Latest(L, k, GOPRO_STATUS_ID_ENCODING, s.record, h[k].record)
                      /\ Latest(L, k, GOPRO_STATUS_ID_BAT_PERCENT, s.battery, h[k].battery)
                      /\ Latest(L, k, GOPRO_STATUS_ID_VIDEO_NUM, s.video_count, h[k].video_count)}
  OBVIOUS
<1>5. 0 \in H
  <2>1. \A i \in 1..0 : FALSE
    OBVIOUS
  <2> QED
    BY <1>2, <1>4, <2>1 DEF Latest
<1>6. ASSUME NEW k \in Nat, k < n, k \in H PROVE k + 1 \in H
  <2>1. PICK j \in 1..n : j = k + 1 /\ j - 1 = k
    BY <1>6
  <2>2. PICK t : t = h[j]
    OBVIOUS
  <2>3. h[k] \in Statuses /\ L[j] \in Value /\ t = Updated(h[k], L[j])
    BY <2>1, <2>2, <1>1, <1>2, <1>3, <1>6
  <2>4. /\ t.record = IF L[j].id = GOPRO_STATUS_ID_ENCODING THEN L[j].n ELSE h[k].record
        /\ t.battery = IF L[j].id = GOPRO_STATUS_ID_BAT_PERCENT THEN L[j].n ELSE h[k].battery
        /\ t.video_count = IF L[j].id = GOPRO_STATUS_ID_VIDEO_NUM THEN L[j].n ELSE h[k].video_count
    BY <2>3, UpdatedIs
  <2>5. j \in 1..Len(L)
    BY <1>1
  <2>6. /\ Latest(L, j - 1, GOPRO_STATUS_ID_ENCODING, s.record, h[k].record)
        /\ Latest(L, j - 1, GOPRO_STATUS_ID_BAT_PERCENT, s.battery, h[k].battery)
        /\ Latest(L, j - 1, GOPRO_STATUS_ID_VIDEO_NUM, s.video_count, h[k].video_count)
    BY <1>4, <1>6, <2>1
  <2>7. Latest(L, j, GOPRO_STATUS_ID_ENCODING, s.record, t.record)
    BY <2>4, <2>5, <2>6, LatestNext
  <2>8. Latest(L, j, GOPRO_STATUS_ID_BAT_PERCENT, s.battery, t.battery)
    BY <2>4, <2>5, <2>6, LatestNext
  <2>9. Latest(L, j, GOPRO_STATUS_ID_VIDEO_NUM, s.video_count, t.video_count)
    BY <2>4, <2>5, <2>6, LatestNext
  <2> QED
    BY <1>4, <2>1, <2>2, <2>7, <2>8, <2>9
<1>7. n \in H
  <2>1. \A k \in Nat : k < n /\ k \in H => k + 1 \in H
    BY <1>6
  <2>2. \A k \in Nat : k <= n => k \in H
    BY <1>5, <2>1, UpToN
  <2> QED
    BY <2>2
<1>8. /\ Latest(r.list, Len(r.list), GOPRO_STATUS_ID_ENCODING, s.record, h[n].record)
      /\ Latest(r.list, Len(r.list), GOPRO_STATUS_ID_BAT_PERCENT, s.battery, h[n].battery)
      /\ Latest(r.list, Len(r.list), GOPRO_STATUS_ID_VIDEO_NUM, s.video_count, h[n].video_count)
  BY <1>1, <1>4, <1>7
<1>9. /\ LastOf(r, GOPRO_STATUS_ID_ENCODING, s.record) = h[n].record
      /\ LastOf(r, GOPRO_STATUS_ID_BAT_PERCENT, s.battery) = h[n].battery
      /\ LastOf(r, GOPRO_STATUS_ID_VIDEO_NUM, s.video_count) = h[n].video_count
  <2>1. n \in Nat /\ n = Len(r.list) /\ Counting(r) = 1..n
    BY <1>1
  <2> QED
    BY <1>8, <2>1, LatestIs
<1>10. h[n] \in Statuses
  BY <1>2
<1>11. h[n] = [record |-> h[n].record, battery |-> h[n].battery, video_count |-> h[n].video_count]
  BY <1>10 DEF Statuses
<1> QED
  BY <1>1, <1>9, <1>10, <1>11 DEF NowReported

\* The parser of a reply reads its first value, the one that counts.
LEMMA ReplyReads ==
  ASSUME NEW r \in Reports, r.id = GOPRO_QUERY_STATUS_GET_STATUS, r.result = 0, status \in Statuses
  PROVE  /\ gopro_parse_query_status_reply(Encode(r)) = NowReported(r, status)
         /\ gopro_parse_query_status_reply(Encode(r)) \in Statuses
<1>1. PICK L \in Seq(Value) : L = r.list /\ L # <<>>
  BY ReportConstants
<1>2. PICK one \in 1..Len(L) : one = 1 /\ one - 1 = 0
  BY <1>1
<1>3. PICK v \in Value : v = L[1] /\ Fits(v)
  BY <1>1, <1>2, ReportConstants DEF Fits
<1>4. PICK m, at : m = Encode(r) /\ m \in Seq(Nat) /\ Places(m, L, at)
  BY <1>1, MessageIs
<1>5. at[1] = 3 /\ At(m, v, at[1], at[1 + 1])
  <2>1. at[1] = 3 /\ \A k \in 1..Len(L) : At(m, L[k], at[k], at[k + 1])
    BY <1>4 DEF Places
  <2>2. At(m, L[one], at[one], at[one + 1])
    BY <2>1
  <2> QED
    BY <1>2, <1>3, <2>1, <2>2
<1>6. PICK t : t = Updated(status, v) /\ t \in Statuses
  BY UpdatedTypes
<1>7. Entry(status, m, 3) = t
  BY <1>3, <1>4, <1>5, <1>6, ValueRead
<1>8. /\ t.record = IF L[one].id = GOPRO_STATUS_ID_ENCODING THEN L[one].n ELSE status.record
      /\ t.battery = IF L[one].id = GOPRO_STATUS_ID_BAT_PERCENT THEN L[one].n ELSE status.battery
      /\ t.video_count = IF L[one].id = GOPRO_STATUS_ID_VIDEO_NUM THEN L[one].n ELSE status.video_count
  BY <1>2, <1>3, <1>6, UpdatedIs
<1>9. ASSUME NEW id, NEW x PROVE Latest(L, one - 1, id, x, x)
  <2>1. \A i \in 1..(one - 1) : FALSE
    BY <1>2
  <2> QED
    BY <2>1 DEF Latest
<1>10. /\ Latest(L, one, GOPRO_STATUS_ID_ENCODING, status.record, t.record)
       /\ Latest(L, one, GOPRO_STATUS_ID_BAT_PERCENT, status.battery, t.battery)
       /\ Latest(L, one, GOPRO_STATUS_ID_VIDEO_NUM, status.video_count, t.video_count)
  <2>1. Latest(L, one, GOPRO_STATUS_ID_ENCODING, status.record, t.record)
    BY <1>8, <1>9, LatestNext
  <2>2. Latest(L, one, GOPRO_STATUS_ID_BAT_PERCENT, status.battery, t.battery)
    BY <1>8, <1>9, LatestNext
  <2>3. Latest(L, one, GOPRO_STATUS_ID_VIDEO_NUM, status.video_count, t.video_count)
    BY <1>8, <1>9, LatestNext
  <2> QED
    BY <2>1, <2>2, <2>3
<1>11. Counting(r) = 1..one /\ one \in Nat
  BY <1>2 DEF Counting
<1>12. NowReported(r, status) = [record |-> t.record, battery |-> t.battery, video_count |-> t.video_count]
  BY <1>1, <1>10, <1>11, LatestIs DEF NowReported
<1>13. t = NowReported(r, status)
  BY <1>6, <1>12 DEF Statuses
<1> QED
  BY <1>4, <1>6, <1>7, <1>13 DEF gopro_parse_query_status_reply

\* Whatever the message, the parser leaves the values reported last.
LEMMA ParsedIsReported ==
  ASSUME NEW r \in Reports, status \in Statuses
  PROVE  /\ gopro_packet_parse_query(Encode(r)) = NowReported(r, status)
         /\ gopro_packet_parse_query(Encode(r)) \in Statuses
<1>1. PICK m : m = Encode(r)
  OBVIOUS
<1>2. /\ m \in Seq(Nat) /\ m[1] = r.id /\ m[2] = r.result
      /\ \E at : Places(m, r.list, at)
  BY <1>1, MessageIs
<1>3. /\ r.id \in {GOPRO_QUERY_STATUS_GET_STATUS, GOPRO_QUERY_STATUS_REG_STATUS,
                   GOPRO_QUERY_STATUS_REG_STATUS_NOTIFY}
      /\ r.result \in Nat /\ r.list \in Seq(Value)
      /\ \A k \in 1..Len(r.list) : Fits(r.list[k])
  BY ReportConstants DEF Fits
<1>4. CASE r.result # 0
  <2>1. gopro_packet_parse_query(m) = status
    BY <1>2, <1>4 DEF gopro_packet_parse_query
  <2>2. NowReported(r, status) = status
    <3>1. NowReported(r, status) =
            [record |-> status.record, battery |-> status.battery, video_count |-> status.video_count]
      BY <1>4 DEF NowReported, LastOf, Counting
    <3> QED
      BY <3>1 DEF Statuses
  <2> QED
    BY <1>1, <2>1, <2>2
<1>5. CASE r.result = 0
  <2>1. CASE r.id \in {GOPRO_QUERY_STATUS_REG_STATUS, GOPRO_QUERY_STATUS_REG_STATUS_NOTIFY}
    <3>1. gopro_packet_parse_query(m) = gopro_parse_query_status_notify(m)
      BY <1>2, <1>5, <2>1 DEF gopro_packet_parse_query, GOPRO_QUERY_STATUS_GET_STATUS,
         GOPRO_QUERY_STATUS_REG_STATUS, GOPRO_QUERY_STATUS_REG_STATUS_NOTIFY
    <3>2. PICK at : Places(m, r.list, at)
      BY <1>2
    <3>3. PICK h : Reads(r.list, status, h) /\ gopro_packet_parse_query(m) = h[Len(r.list)]
      BY <1>2, <1>3, <3>1, <3>2, NotifyIs
    <3>4. Counting(r) = DOMAIN r.list
      BY <1>5, <2>1 DEF Counting, GOPRO_QUERY_STATUS_GET_STATUS, GOPRO_QUERY_STATUS_REG_STATUS,
         GOPRO_QUERY_STATUS_REG_STATUS_NOTIFY
    <3> QED
      BY <1>1, <1>3, <3>3, <3>4, ReadsAreReported
  <2>2. CASE r.id = GOPRO_QUERY_STATUS_GET_STATUS
    <3>1. gopro_packet_parse_query(m) = gopro_parse_query_status_reply(m)
      BY <1>2, <1>5, <2>2 DEF gopro_packet_parse_query, GOPRO_QUERY_STATUS_GET_STATUS,
         GOPRO_QUERY_STATUS_REG_STATUS, GOPRO_QUERY_STATUS_REG_STATUS_NOTIFY
    <3> QED
      BY <1>1, <1>5, <2>2, <3>1, ReplyReads
  <2> QED
    BY <1>3, <2>1, <2>2
<1> QED
  BY <1>3, <1>4, <1>5

\* The status and what was reported are the same.
StatusInv == status \in Statuses /\ status = reported

\* A status message is the only step that changes them.
LEMMA StatusKept == StatusInv /\ [Next]_vars => StatusInv'
<1> SUFFICES ASSUME StatusInv, [Next]_vars PROVE StatusInv'
  OBVIOUS
<1>1. ASSUME NEW r \in Reports, StatusReport(r) PROVE StatusInv'
  <2>1. status' = gopro_packet_parse_query(Encode(r)) /\ reported' = NowReported(r, reported)
    BY <1>1 DEF StatusReport, NowReported
  <2>2. status \in Statuses /\ reported = status
    BY DEF StatusInv
  <2>3. /\ gopro_packet_parse_query(Encode(r)) = NowReported(r, status)
        /\ gopro_packet_parse_query(Encode(r)) \in Statuses
    BY <2>2, ParsedIsReported
  <2> QED
    BY <2>1, <2>2, <2>3 DEF StatusInv
<1>2. CASE UNCHANGED <<status, reported>>
  BY <1>2 DEF StatusInv
<1>3. ASSUME NEW s, gopro_client_set_sate(s) PROVE UNCHANGED <<status, reported>>
  BY <1>3 DEF gopro_client_set_sate
<1>4. ASSUME NEW control, rx_callback_function(control) PROVE UNCHANGED <<status, reported>>
  BY <1>4 DEF rx_callback_function, camera
<1>5. ASSUME NEW i, Transmit(i) PROVE UNCHANGED <<status, reported>>
  BY <1>5 DEF Transmit, camera
<1>6. can_tx_timer_handler \/ can_tx_work_handler => UNCHANGED <<status, reported>>
  BY DEF can_tx_timer_handler, can_tx_work_handler, camera
<1>7. can_tx_subscriber_task => UNCHANGED <<status, reported>>
  BY DEF can_tx_subscriber_task, Send, SemTaken, SemTimeout, camera
<1>8. UNCHANGED vars => UNCHANGED <<status, reported>>
  BY DEF vars, camera
<1> QED
  BY <1>1, <1>2, <1>3, <1>4, <1>5, <1>6, <1>7, <1>8 DEF Next, Controller

\* gopro_state holds, at any time, the last record state, battery level and number of
\* videos that the camera has reported: the parsers mix up or misread none of them.  Of a
\* notification of any number of values all are read, the unknown ones skipped; of the reply
\* to a request, however many values it has, the first alone (gopro_parse_query_status_reply).
THEOREM StatusIsReported == Spec => [](status = reported)
<1>1. Init => StatusInv
  BY DEF Init, NoStatus, StatusInv, Statuses
<1>2. StatusInv => status = reported
  BY DEF StatusInv
<1> QED
  BY <1>1, <1>2, StatusKept, PTL DEF Spec
=============================================================================

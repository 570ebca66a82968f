-------------------------- MODULE CanReply_proofs --------------------------
(***************************************************************************)
(* Safety of the CAN reply path (CanReply) for every number of callers,      *)
(* replies and heap blocks, and every set of failures; and that it           *)
(* implements the one-slot hand-over (OneSlot).  The inductive invariant     *)
(* says where the one reply that is under way may be: with a caller past     *)
(* can_reply_sem, in the channel, with isotp_tx_thread or with the stack,    *)
(* in one place at most and nowhere while the semaphore is free (SlotInv);   *)
(* and that every pointer to a block is the only user of a live block that   *)
(* holds the accepted reply (PtrInv).                                        *)
(***************************************************************************)
EXTENDS CanReply, TLAPS

\* A caller between can_reply_sem and the channel.
Crit(c) == pc[c] \in {"alloc", "pub"}

\* Nothing is between the channel and the end of a transmission.
Quiet == queue = <<>> /\ cur = None /\ sending = None

\* A caller past the semaphore is alone, with the reply it was taken for.
CritInv ==
  /\ \A c \in Callers : Crit(c) => sem = 0 /\ Quiet /\ arg[c] = held
  /\ \A c, d \in Callers : Crit(c) /\ Crit(d) => c = d

\* One reply at most is under way, none while the semaphore is free.
SlotInv ==
  /\ sem = 1 => Quiet
  /\ queue # <<>> => queue = <<queue[1]>> /\ cur = None /\ sending = None
  /\ cur # None => sending = None
  /\ sem = 0 => held \in Replies
  /\ \A c \in Callers : pc[c] # "idle" => arg[c] \in Replies

\* A block that carries the accepted reply.
Loaded(b) == heap[b] = "live" /\ text[b] = held

\* Whoever holds a pointer can read the accepted reply through it.
PtrInv ==
  /\ \A c \in Callers : ptr[c] # None <=> pc[c] = "pub"
  /\ \A c \in Callers : pc[c] = "pub" => Loaded(ptr[c])
  /\ queue # <<>> => Loaded(queue[1])
  /\ cur # None => Loaded(cur)
  /\ sending # None => Loaded(sending)

IInv == TypeOK /\ CritInv /\ SlotInv /\ PtrInv

-----------------------------------------------------------------------------
\* What the channel does with its one message (zbus_chan_pub, zbus_sub_wait_msg).
LEMMA OneMessage ==
  ASSUME NEW b
  PROVE  /\ <<b>> # <<>> /\ <<b>>[1] = b
         /\ Append(<<>>, b) = <<b>>
         /\ Head(<<b>>) = b /\ Tail(<<b>>) = <<>>
  OBVIOUS

\* The initial state satisfies the inductive invariant.
LEMMA InitIInv == Init => IInv
<1> SUFFICES ASSUME Init PROVE IInv
  OBVIOUS
<1>1. TypeOK
  <2>1. queue \in Seq(Bufs)
    BY DEF Init
  <2>2. /\ pc \in [Callers -> {"idle", "want", "alloc", "pub"}]
        /\ arg \in [Callers -> Replies \cup {None}]
        /\ ptr \in [Callers -> Bufs \cup {None}]
    BY DEF Init
  <2>3. /\ heap \in [Bufs -> {"free", "live"}]
        /\ text \in [Bufs -> Replies \cup {Junk}]
    BY DEF Init
  <2> QED
    BY <2>1, <2>2, <2>3 DEF Init, TypeOK
<1>2. CritInv /\ SlotInv /\ PtrInv
  BY DEF Init, CritInv, SlotInv, PtrInv, Crit, Quiet
<1> QED
  BY <1>1, <1>2 DEF IInv

-----------------------------------------------------------------------------
(* Each step preserves the inductive invariant *)

\* A call only names a reply (can_reply).
LEMMA CallStep == ASSUME IInv, NEW c \in Callers, NEW r \in Replies, Call(c, r) PROVE IInv'
<1> USE DEF IInv
<1>1. TypeOK'
  BY DEF TypeOK, Call, memory, thread
<1>2. CritInv'
  BY DEF CritInv, Crit, Quiet, Call, thread
<1>3. SlotInv'
  BY DEF TypeOK, SlotInv, Quiet, Call, thread
<1>4. PtrInv'
  BY DEF PtrInv, Loaded, Call, memory, thread
<1> QED
  BY <1>1, <1>2, <1>3, <1>4

\* The caller that gets the semaphore is the only one under way (can_reply).
LEMMA TakeStep == ASSUME IInv, NEW c \in Callers, Take(c) PROVE IInv'
<1> USE DEF IInv
<1>1. TypeOK'
  BY DEF TypeOK, Take, TakeReplySem, memory, thread
<1>2. CritInv'
  BY DEF CritInv, SlotInv, Crit, Quiet, Take, TakeReplySem, thread
<1>3. SlotInv'
  BY DEF SlotInv, Take, TakeReplySem, thread
<1>4. PtrInv'
  BY DEF CritInv, SlotInv, PtrInv, Crit, Quiet, Take, TakeReplySem, thread
<1> QED
  BY <1>1, <1>2, <1>3, <1>4

\* A caller that is refused changes nothing (can_reply).
LEMMA RefuseStep == ASSUME IInv, NEW c \in Callers, Refuse(c) PROVE IInv'
<1> USE DEF IInv
<1>1. TypeOK'
  BY DEF TypeOK, Refuse, memory, thread
<1>2. CritInv'
  BY DEF CritInv, Crit, Quiet, Refuse, thread
<1>3. SlotInv'
  BY DEF SlotInv, Refuse, thread
<1>4. PtrInv'
  BY DEF PtrInv, Loaded, Refuse, memory, thread
<1> QED
  BY <1>1, <1>2, <1>3, <1>4

\* A block is taken from the free ones and filled with the reply (can_reply).
LEMMA AllocStep == ASSUME IInv, NEW c \in Callers, Alloc(c) PROVE IInv'
<1> USE DEF IInv
<1>1. TypeOK'
  BY DEF TypeOK, SlotInv, Alloc, thread
<1>2. CritInv'
  BY DEF CritInv, Crit, Quiet, Alloc, thread
<1>3. SlotInv'
  BY DEF SlotInv, Quiet, Alloc, thread
<1>4. PtrInv'
  <2>1. \A d \in Callers : pc[d] # "pub"
    BY DEF CritInv, Crit, Alloc
  <2>2. PICK b \in Bufs : /\ heap' = [heap EXCEPT ![b] = "live"]
                          /\ text' = [text EXCEPT ![b] = arg[c]]
                          /\ ptr' = [ptr EXCEPT ![c] = b]
    BY DEF Alloc
  <2>3. b # None /\ Loaded(b)'
    BY <2>2, ReplyConstants DEF TypeOK, CritInv, Crit, Loaded, Alloc
  <2>4. \A d \in Callers : /\ pc'[d] = "pub" <=> d = c
                           /\ ptr'[d] = IF d = c THEN b ELSE None
    BY <2>1, <2>2 DEF TypeOK, PtrInv, Alloc
  <2>5. UNCHANGED thread /\ Quiet
    BY DEF CritInv, Crit, Alloc
  <2> QED
    BY <2>3, <2>4, <2>5 DEF PtrInv, Quiet, thread
<1> QED
  BY <1>1, <1>2, <1>3, <1>4

\* A failed encoding gives the semaphore back with nothing under way (can_reply).
LEMMA EncodeFailStep == ASSUME IInv, NEW c \in Callers, EncodeFail(c) PROVE IInv'
<1> USE DEF IInv
<1>1. TypeOK'
  BY DEF TypeOK, EncodeFail, memory, thread
<1>2. CritInv'
  BY DEF TypeOK, CritInv, Crit, EncodeFail
<1>3. SlotInv'
  BY DEF CritInv, SlotInv, Crit, Quiet, EncodeFail, thread
<1>4. PtrInv'
  BY DEF PtrInv, Loaded, EncodeFail, memory, thread
<1> QED
  BY <1>1, <1>2, <1>3, <1>4

\* A failed allocation leaves nothing under way (can_reply).
LEMMA AllocFailStep == ASSUME IInv, NEW c \in Callers, AllocFail(c) PROVE IInv'
<1> USE DEF IInv
<1>1. TypeOK'
  BY DEF TypeOK, AllocFail, memory, thread
<1>2. CritInv'
  BY DEF CritInv, Crit, Quiet, AllocFail, thread
<1>3. SlotInv'
  BY DEF SlotInv, Quiet, AllocFail, thread
<1>4. PtrInv'
  BY DEF PtrInv, Loaded, AllocFail, memory, thread
<1> QED
  BY <1>1, <1>2, <1>3, <1>4

\* The pointer moves from the caller to the channel (can_reply).
LEMMA PublishStep == ASSUME IInv, NEW c \in Callers, Publish(c) PROVE IInv'
<1> USE DEF IInv
<1>1. TypeOK'
  <2>1. ptr[c] \in Bufs
    BY DEF TypeOK, PtrInv, Publish
  <2>2. queue' \in Seq(Bufs)
    BY <2>1 DEF TypeOK, Publish
  <2> QED
    BY <2>2 DEF TypeOK, Publish, KeepAfterPub, memory
<1>2. CritInv'
  BY DEF TypeOK, CritInv, Crit, Publish
<1>3. SlotInv'
  <2>1. queue = <<>> /\ cur = None /\ sending = None /\ sem = 0 /\ ptr[c] \in Bufs
    BY DEF TypeOK, CritInv, PtrInv, Crit, Quiet, Publish
  <2>2. queue' = <<queue'[1]>>
    <3>1. queue' = <<ptr[c]>>
      BY <2>1 DEF Publish
    <3> QED
      BY <3>1
  <2>3. \A d \in Callers : pc'[d] # "idle" => pc[d] # "idle"
    BY DEF Publish
  <2> QED
    BY <2>1, <2>2, <2>3 DEF SlotInv, Publish, KeepAfterPub
<1>4. PtrInv'
  BY DEF TypeOK, PtrInv, Loaded, Publish, memory
<1> QED
  BY <1>1, <1>2, <1>3, <1>4

\* A refused pointer is freed by the only one who has it (can_reply).
LEMMA PublishFailStep == ASSUME IInv, NEW c \in Callers, PublishFail(c) PROVE IInv'
<1> USE DEF IInv
<1>1. TypeOK'
  BY DEF TypeOK, PublishFail, thread
<1>2. CritInv'
  BY DEF TypeOK, CritInv, Crit, PublishFail
<1>3. SlotInv'
  BY DEF CritInv, SlotInv, Crit, Quiet, PublishFail, thread
<1>4. PtrInv'
  BY DEF TypeOK, CritInv, PtrInv, Crit, Quiet, PublishFail, thread
<1> QED
  BY <1>1, <1>2, <1>3, <1>4

\* The pointer moves from the channel to the thread (isotp_tx_thread).
LEMMA TxWaitStep == ASSUME IInv, TxWait PROVE IInv'
<1> USE DEF IInv
<1>1. TypeOK'
  BY DEF TypeOK, TxWait, callers, memory
<1>2. CritInv'
  BY DEF CritInv, Crit, Quiet, TxWait, callers
<1>3. SlotInv'
  BY DEF SlotInv, Quiet, TxWait, callers
<1>4. PtrInv'
  BY DEF SlotInv, PtrInv, Loaded, TxWait, callers, memory
<1> QED
  BY <1>1, <1>2, <1>3, <1>4

\* The pointer moves from the thread to the stack (isotp_tx_thread).
LEMMA IsoSendStep == ASSUME IInv, IsoSend PROVE IInv'
<1> USE DEF IInv
<1>1. TypeOK'
  BY DEF TypeOK, IsoSend, callers, memory
<1>2. CritInv'
  BY DEF CritInv, Crit, Quiet, IsoSend, callers
<1>3. SlotInv'
  BY DEF SlotInv, Quiet, IsoSend, callers
<1>4. PtrInv'
  BY DEF PtrInv, Loaded, IsoSend, callers, memory
<1> QED
  BY <1>1, <1>2, <1>3, <1>4

\* A message the stack refuses is no longer under way (isotp_tx_thread).
LEMMA IsoSendFailStep == ASSUME IInv, IsoSendFail PROVE IInv'
<1> USE DEF IInv
<1>1. TypeOK'
  BY DEF TypeOK, IsoSendFail, callers, memory
<1>2. CritInv'
  BY DEF CritInv, Crit, Quiet, IsoSendFail, callers
<1>3. SlotInv'
  BY DEF SlotInv, Quiet, IsoSendFail, callers
<1>4. PtrInv'
  BY DEF PtrInv, Loaded, IsoSendFail, callers, memory
<1> QED
  BY <1>1, <1>2, <1>3, <1>4

\* The callback frees the block of the only pointer there is (isotpsend_callback).
LEMMA SendCallbackStep == ASSUME IInv, SendCallback PROVE IInv'
<1> USE DEF IInv
<1>1. TypeOK'
  <2>1. out' \in Replies \cup {None}
    BY DEF TypeOK, PtrInv, Loaded, SendCallback
  <2> QED
    BY <2>1 DEF TypeOK, SendCallback, callers
<1>2. CritInv'
  BY DEF CritInv, Crit, Quiet, SendCallback, callers
<1>3. SlotInv'
  BY DEF SlotInv, Quiet, SendCallback, callers
<1>4. PtrInv'
  BY DEF CritInv, SlotInv, PtrInv, Crit, Quiet, SendCallback, callers
<1> QED
  BY <1>1, <1>2, <1>3, <1>4

\* Another user of the heap gets no block that is in use.
LEMMA HeapReuseStep == ASSUME IInv, NEW b \in Bufs, HeapReuse(b) PROVE IInv'
<1> USE DEF IInv
<1>1. TypeOK'
  BY DEF TypeOK, HeapReuse, callers, thread
<1>2. CritInv'
  BY DEF CritInv, Crit, Quiet, HeapReuse, callers, thread
<1>3. SlotInv'
  BY DEF SlotInv, Quiet, HeapReuse, callers, thread
<1>4. PtrInv'
  BY DEF PtrInv, Loaded, HeapReuse, callers, thread
<1> QED
  BY <1>1, <1>2, <1>3, <1>4

\* Every step preserves the inductive invariant.
LEMMA NextIInv == IInv /\ [Next]_vars => IInv'
<1> SUFFICES ASSUME IInv, [Next]_vars PROVE IInv'
  OBVIOUS
<1>1. ASSUME NEW c \in Callers, NEW r \in Replies, Call(c, r) PROVE IInv'
  BY <1>1, CallStep
<1>2. ASSUME NEW c \in Callers, Reply(c) PROVE IInv'
  BY <1>2, TakeStep, RefuseStep, AllocStep, EncodeFailStep, AllocFailStep, PublishStep,
     PublishFailStep DEF Reply
<1>3. CASE IsoTx
  BY <1>3, TxWaitStep, IsoSendStep, IsoSendFailStep DEF IsoTx
<1>4. CASE SendCallback
  BY <1>4, SendCallbackStep
<1>5. ASSUME NEW b \in Bufs, HeapReuse(b) PROVE IInv'
  BY <1>5, HeapReuseStep
<1>6. CASE UNCHANGED vars
  BY <1>6 DEF IInv, TypeOK, CritInv, SlotInv, PtrInv, Crit, Quiet, Loaded, vars, callers, memory, thread
<1> QED
  BY <1>1, <1>2, <1>3, <1>4, <1>5, <1>6 DEF Next

-----------------------------------------------------------------------------
\* The inductive invariant holds in every reachable state.
THEOREM ReplyInvariant == Spec => []IInv
BY InitIInv, NextIInv, PTL DEF Spec

\* The state of the reply path keeps its types, whatever fails (can_reply,
\* isotp_tx_thread).
THEOREM ReplyTypeOK == Spec => []TypeOK
<1>1. IInv => TypeOK
  BY DEF IInv
<1> QED
  BY <1>1, ReplyInvariant, PTL

\* No block is freed while a caller, the channel, the thread or the stack still has
\* its pointer (k_free in can_reply and isotpsend_callback).
THEOREM NoneUsedAfterFree == Spec => []NoUseAfterFree
<1>1. IInv => NoUseAfterFree
  <2> SUFFICES ASSUME IInv, NEW b \in InUse \ {None} PROVE heap[b] = "live"
    BY DEF NoUseAfterFree
  <2>1. CASE b \in {ptr[c] : c \in Callers}
    BY <2>1 DEF IInv, PtrInv, Loaded
  <2>2. CASE b \in {queue[i] : i \in 1..Len(queue)}
    <3>1. PICK i \in 1..Len(queue) : b = queue[i]
      BY <2>2
    <3>2. queue # <<>> /\ Len(queue) = 1
      BY <3>1 DEF IInv, TypeOK, SlotInv
    <3> QED
      BY <3>1, <3>2 DEF IInv, PtrInv, Loaded
  <2>3. CASE b \in {cur, sending}
    BY <2>3 DEF IInv, PtrInv, Loaded
  <2> QED
    BY <2>1, <2>2, <2>3 DEF InUse
<1> QED
  BY <1>1, ReplyInvariant, PTL

\* While the stack sends, no other reply is past can_reply_sem (isotp_tx_thread).
THEOREM OneSendsAtATime == Spec => []SendAlone
<1>1. IInv => SendAlone
  BY DEF IInv, CritInv, SlotInv, SendAlone, Crit, Quiet
<1> QED
  BY <1>1, ReplyInvariant, PTL

-----------------------------------------------------------------------------
(* The reply path implements the one-slot hand-over *)

\* At first nothing is under way on either level.
LEMMA PortInit == Init => Port!Init
BY DEF Init, Port!Init

\* Every step of the code is a step of the hand-over or leaves it alone: the semaphore
\* puts, the callback delivers, a failure gives up.
LEMMA PortStep ==
  ASSUME IInv, [Next]_vars
  PROVE  [Port!Next]_<<IF sem = 1 THEN None ELSE held, out>>
<1> USE ReplyConstants DEF Port!Next, Port!Put, Port!Deliver, Port!GiveUp
<1>1. ASSUME NEW c \in Callers, Take(c)
      PROVE  Port!Put
  BY <1>1 DEF IInv, SlotInv, Take, TakeReplySem
<1>2. ASSUME NEW c \in Callers, EncodeFail(c) \/ PublishFail(c)
      PROVE  Port!GiveUp
  <2>1. sem = 0 /\ held \in Replies
    BY <1>2 DEF IInv, CritInv, SlotInv, Crit, EncodeFail, PublishFail
  <2> QED
    BY <1>2, <2>1 DEF EncodeFail, PublishFail
<1>3. ASSUME NEW c \in Callers,
             \/ \E r \in Replies : Call(c, r)
             \/ Refuse(c) \/ Alloc(c) \/ AllocFail(c) \/ Publish(c)
      PROVE  UNCHANGED <<sem, held, out>>
  BY <1>3 DEF Call, Refuse, Alloc, AllocFail, Publish, KeepAfterPub
<1>4. CASE IsoTx \/ \E b \in Bufs : HeapReuse(b)
  BY <1>4 DEF IsoTx, TxWait, IsoSend, IsoSendFail, HeapReuse
<1>5. CASE SendCallback
  <2>1. sem = 0 /\ held \in Replies /\ text[sending] = held
    BY <1>5 DEF IInv, TypeOK, SlotInv, PtrInv, Quiet, Loaded, SendCallback
  <2> QED
    BY <1>5, <2>1 DEF SendCallback
<1>6. CASE UNCHANGED vars
  BY <1>6 DEF vars
<1> QED
  BY <1>1, <1>2, <1>3, <1>4, <1>5, <1>6 DEF Next, Reply

\* What can_reply accepted comes out on the bus unchanged, at most once, and before the
\* next is accepted.
THEOREM ReplyPathIsOneSlot == Spec => PortSpec
<1>1. IInv /\ [Next]_vars => [Port!Next]_<<IF sem = 1 THEN None ELSE held, out>>
  BY PortStep
<1> QED
  BY PortInit, <1>1, ReplyInvariant, PTL DEF Spec, PortSpec, Port!Spec
=============================================================================

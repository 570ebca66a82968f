--------------------------- MODULE IsoTpRx_proofs ---------------------------
(***************************************************************************)
(* The hand-over of messages from the bus (IsoTpRx), for every number of     *)
(* messages, blocks and buffers and every set of failures: the subscriber     *)
(* reads alone, and the path is a one-slot hand-over (OneSlot).  The          *)
(* invariant says who has the message: the receiver until it has published    *)
(* it, then the channel or the subscriber, and only while                     *)
(* can_isotp_rx_sem is taken (HandInv); and that a buffer the receiver        *)
(* has filled is live and not empty (LoadedInv).  As long as nothing fails, the *)
(* blocks read and those in the stack follow one another (SentInv).  Of the     *)
(* network buffers, those that are free and those of the blocks in the stack    *)
(* are no more than there are (PoolInv).                                        *)
(***************************************************************************)
EXTENDS IsoTpRx, FiniteSetTheorems, TLAPS

\* The types that matter to the hand-over; the pools come last (PoolInv).
Types ==
  /\ wire \in [m : 0..MaxMsgs, k : 0..MaxBlocks, n : 0..MaxBlocks]
  /\ wire.n > 0 => wire.m > 0
  /\ fifo \in Seq(Block)
  /\ sem \in {0, 1}
  /\ rx \in {"take", "recv", "pub", "dead"}
  /\ ptr \in Bufs \cup {None}
  /\ heap \in [Bufs -> {"free", "live"}]
  /\ text \in [Bufs -> Seq(Block)]

\* Nobody but the receiver has a message, or one place has it and the receiver waits.
HandInv ==
  \/ queue = <<>> /\ sub = <<>> /\ (rx \in {"recv", "pub"} => sem = 0)
  \/ queue = <<ptr>> /\ sub = <<>> /\ rx = "take" /\ sem = 0
  \/ queue = <<>> /\ sub = <<ptr>> /\ rx = "take" /\ sem = 0

\* The buffer of a thread that goes on is live and holds at least one block.
LoadedInv ==
  ptr # None /\ rx # "dead" => heap[ptr] = "live" /\ text[ptr] # <<>>

IInv == Types /\ HandInv /\ LoadedInv

-----------------------------------------------------------------------------
\* What a queue of one message does.
LEMMA OnePointer ==
  ASSUME NEW p
  PROVE  /\ Append(<<>>, p) = <<p>> /\ Head(<<p>>) = p /\ Tail(<<p>>) = <<>>
         /\ <<p>> # <<>> /\ <<p>>[1] = p
         /\ <<p>> \o <<>> = <<p>> /\ <<>> \o <<p>> = <<p>>
  OBVIOUS

\* The initial state satisfies the inductive invariant.
LEMMA InitIInv == Init => IInv
<1> SUFFICES ASSUME Init PROVE IInv
  OBVIOUS
<1>1. Types
  <2>1. fifo \in Seq(Block) /\ text \in [Bufs -> Seq(Block)]
    BY DEF Init
  <2>2. heap \in [Bufs -> {"free", "live"}] /\ ptr \in Bufs \cup {None}
    BY DEF Init
  <2>3. wire \in [m : 0..MaxMsgs, k : 0..MaxBlocks, n : 0..MaxBlocks] /\ ~(wire.n > 0)
    BY RxConstants DEF Init
  <2>4. sem \in {0, 1} /\ rx \in {"take", "recv", "pub", "dead"}
    BY DEF Init
  <2> QED
    BY <2>1, <2>2, <2>3, <2>4 DEF Types
<1>2. HandInv /\ LoadedInv
  BY DEF Init, HandInv, LoadedInv
<1> QED
  BY <1>1, <1>2 DEF IInv

\* The tester and the stack: a new block is one of the message under way, and neither
\* the buffers nor the hand-over are touched.
LEMMA TesterStep == IInv /\ Tester => IInv'
<1> SUFFICES ASSUME IInv, Tester PROVE IInv'
  OBVIOUS
<1> DEFINE WireTypes ==
      /\ wire \in [m : 0..MaxMsgs, k : 0..MaxBlocks, n : 0..MaxBlocks]
      /\ wire.n > 0 => wire.m > 0
      /\ fifo \in Seq(Block)
<1>1. UNCHANGED <<sem, thread, memory, queue, sub>>
  BY DEF Tester, FirstFrame, NextBlock, Abort
<1>2. HandInv' /\ LoadedInv'
  BY <1>1 DEF IInv, HandInv, LoadedInv, thread, memory
<1>3. WireTypes'
  <2>1. ASSUME NEW n \in 1..MaxBlocks, FirstFrame(n) PROVE WireTypes'
    <3>1. wire' = [m |-> wire.m + 1, k |-> 1, n |-> n] /\ fifo' = Append(fifo, wire')
      BY <2>1 DEF FirstFrame
    <3>2. wire.m + 1 \in 1..MaxMsgs /\ 1 \in 1..MaxBlocks
      BY <2>1, RxConstants DEF FirstFrame, IInv, Types
    <3>3. wire' \in Block
      BY <3>1, <3>2 DEF Block
    <3> QED
      BY <3>1, <3>2, <3>3 DEF IInv, Types
  <2>2. ASSUME NextBlock PROVE WireTypes'
    <3>1. wire' = [m |-> wire.m, k |-> wire.k + 1, n |-> wire.n] /\ fifo' = Append(fifo, wire')
      BY <2>2 DEF NextBlock, IInv, Types
    <3>2. wire.m \in 1..MaxMsgs /\ wire.k + 1 \in 1..MaxBlocks /\ wire.n \in 1..MaxBlocks
      BY <2>2, RxConstants DEF NextBlock, Rest, IInv, Types
    <3>3. wire' \in Block
      BY <3>1, <3>2 DEF Block
    <3> QED
      BY <3>1, <3>2, <3>3 DEF IInv, Types
  <2>3. ASSUME Abort PROVE WireTypes'
    <3>1. wire' = [m |-> wire.m, k |-> wire.k, n |-> wire.k] /\ fifo' = fifo
      BY <2>3 DEF Abort, IInv, Types
    <3>2. wire.n > 0 /\ wire.m > 0
      BY <2>3, RxConstants DEF Abort, Rest, IInv, Types
    <3> QED
      BY <3>1, <3>2 DEF IInv, Types
  <2> QED
    BY <2>1, <2>2, <2>3 DEF Tester
<1> QED
  BY <1>1, <1>2, <1>3 DEF IInv, Types, thread, memory

\* The receiver allocates or appends only while nobody else has the message.
LEMMA RecvStep == IInv /\ RxRecv => IInv'
<1> SUFFICES ASSUME IInv, RxRecv PROVE IInv'
  OBVIOUS
<1> DEFINE b == Head(fifo)
           HeapTypes ==
             /\ ptr \in Bufs \cup {None} /\ heap \in [Bufs -> {"free", "live"}]
             /\ text \in [Bufs -> Seq(Block)]
<1>1. b \in Block /\ Tail(fifo) \in Seq(Block)
  BY DEF RxRecv, IInv, Types
<1>2. queue = <<>> /\ sub = <<>> /\ sem = 0
  BY DEF RxRecv, IInv, HandInv
<1>3. HandInv'
  BY <1>2 DEF RxRecv, AfterBlock, HandInv
<1>4. rx' \in {"take", "recv", "pub", "dead"}
  BY DEF RxRecv, AfterBlock
<1>5. HeapTypes' /\ LoadedInv'
  <2>1. CASE ptr # None /\ text' = [text EXCEPT ![ptr] = Append(@, b)] /\ UNCHANGED <<ptr, heap>>
    <3>1. ptr \in Bufs /\ heap[ptr] = "live"
      BY <2>1 DEF RxRecv, IInv, Types, LoadedInv
    <3>2. Append(text[ptr], b) \in Seq(Block) /\ Append(text[ptr], b) # <<>>
      <4>1. text[ptr] \in Seq(Block)
        BY <3>1 DEF IInv, Types
      <4> HIDE DEF b
      <4> QED
        BY <4>1, <1>1
    <3>3. text' \in [Bufs -> Seq(Block)] /\ text'[ptr] # <<>>
      BY <2>1, <3>1, <3>2 DEF IInv, Types
    <3> QED
      BY <2>1, <3>1, <3>3 DEF IInv, Types, LoadedInv
  <2>2. ASSUME NEW c \in Bufs, heap' = [heap EXCEPT ![c] = "live"],
               text' = [text EXCEPT ![c] = <<b>>], ptr' = c
        PROVE  HeapTypes' /\ LoadedInv'
    <3>1. <<b>> \in Seq(Block) /\ <<b>> # <<>>
      BY <1>1
    <3>2. text' \in [Bufs -> Seq(Block)] /\ text'[c] = <<b>>
      BY <2>2, <3>1 DEF IInv, Types
    <3>3. heap' \in [Bufs -> {"free", "live"}] /\ heap'[c] = "live"
      BY <2>2 DEF IInv, Types
    <3> QED
      BY <2>2, <3>1, <3>2, <3>3 DEF LoadedInv
  <2> QED
    BY <2>1, <2>2 DEF RxRecv
<1>6. Types'
  BY <1>1, <1>4, <1>5 DEF RxRecv, IInv, Types
<1> QED
  BY <1>3, <1>5, <1>6 DEF IInv

\* The other steps of the receiver: it takes the semaphore when nobody has the
\* message, and once it has given the message away or has ended it does nothing.
LEMMA ReceiverStep == IInv /\ RxThread => IInv'
<1> SUFFICES ASSUME IInv, RxThread PROVE IInv'
  OBVIOUS
<1>1. CASE RxTake
  <2>1. queue = <<>> /\ sub = <<>>
    BY <1>1 DEF RxTake, IInv, HandInv
  <2>2. HandInv' /\ LoadedInv'
    BY <1>1, <2>1 DEF RxTake, HandInv, LoadedInv
  <2>3. heap' \in [Bufs -> {"free", "live"}]
    BY <1>1 DEF RxTake, FreeLast, IInv, Types
  <2>4. Types'
    BY <1>1, <2>3 DEF RxTake, stack, IInv, Types
  <2> QED
    BY <2>2, <2>4 DEF IInv
<1>2. CASE RxRecv
  BY <1>2, RecvStep
<1>3. CASE RxRecvNoMem
  <2>1. rx' \in {"take", "recv", "pub", "dead"} /\ rx' \in {"recv", "pub"}
    BY <1>3 DEF RxRecvNoMem, AfterBlock
  <2>2. queue = <<>> /\ sub = <<>> /\ sem = 0
    BY <1>3 DEF RxRecvNoMem, IInv, HandInv
  <2>3. HandInv' /\ LoadedInv'
    BY <1>3, <2>1, <2>2 DEF RxRecvNoMem, HandInv, LoadedInv
  <2>4. Tail(fifo) \in Seq(Block)
    BY <1>3 DEF RxRecvNoMem, IInv, Types
  <2>5. Types'
    BY <1>3, <2>1, <2>4 DEF RxRecvNoMem, memory, IInv, Types
  <2> QED
    BY <2>3, <2>5 DEF IInv
<1>4. CASE RxError
  <2>1. queue = <<>> /\ sub = <<>>
    BY <1>4 DEF RxError, IInv, HandInv
  <2>2. HandInv' /\ LoadedInv'
    BY <1>4, <2>1 DEF RxError, HandInv, LoadedInv
  <2>3. /\ ptr' \in Bufs \cup {None} /\ heap' \in [Bufs -> {"free", "live"}]
        /\ text' \in [Bufs -> Seq(Block)]
    <3>1. <<>> \in Seq(Block)
      OBVIOUS
    <3> QED
      BY <1>4, <3>1 DEF RxError, memory, IInv, Types
  <2>4. Types'
    BY <1>4, <2>3 DEF RxError, IInv, Types
  <2> QED
    BY <2>2, <2>4 DEF IInv
<1>5. CASE RxPublish
  <2>1. queue = <<>> /\ sub = <<>> /\ sem = 0
    BY <1>5 DEF RxPublish, IInv, HandInv
  <2>2. queue' = <<ptr>>
    BY <1>5, <2>1, OnePointer DEF RxPublish
  <2>3. HandInv'
    BY <1>5, <2>1, <2>2 DEF RxPublish, HandInv
  <2>4. LoadedInv'
    BY <1>5 DEF RxPublish, memory, IInv, LoadedInv
  <2>5. Types'
    BY <1>5 DEF RxPublish, stack, memory, IInv, Types
  <2> QED
    BY <2>3, <2>4, <2>5 DEF IInv
<1>6. CASE RxPublishFail
  <2>1. queue = <<>> /\ sub = <<>>
    BY <1>6 DEF RxPublishFail, IInv, HandInv
  <2>2. HandInv' /\ LoadedInv'
    BY <1>6, <2>1 DEF RxPublishFail, HandInv, LoadedInv
  <2>3. Types'
    BY <1>6 DEF RxPublishFail, stack, memory, IInv, Types
  <2> QED
    BY <2>2, <2>3 DEF IInv
<1> QED
  BY <1>1, <1>2, <1>3, <1>4, <1>5, <1>6 DEF RxThread

\* The subscriber takes the message out of the channel and gives the semaphore back
\* when it is done with it.
LEMMA SubscriberStep == IInv /\ Subscriber => IInv'
<1> SUFFICES ASSUME IInv, Subscriber PROVE IInv'
  OBVIOUS
<1>1. Types' /\ LoadedInv'
  BY DEF Subscriber, SubWait, SubDone, SubGive, stack, thread, memory, IInv, Types, LoadedInv
<1>2. CASE SubWait
  <2>1. queue = <<ptr>> /\ rx = "take" /\ sem = 0
    BY <1>2 DEF SubWait, IInv, HandInv
  <2>2. queue' = <<>> /\ sub' = <<ptr>>
    BY <1>2, <2>1, OnePointer DEF SubWait
  <2> QED
    BY <1>1, <1>2, <2>1, <2>2 DEF SubWait, thread, IInv, HandInv
<1>3. CASE SubDone
  <2>1. queue = <<>> /\ rx = "take"
    BY <1>3 DEF SubDone, IInv, HandInv
  <2> QED
    BY <1>1, <1>3, <2>1 DEF SubDone, thread, IInv, HandInv
<1> QED
  BY <1>2, <1>3 DEF Subscriber

\* The inductive invariant of the hand-over: the message is with the receiver, or in
\* the channel, or with the subscriber, and can_isotp_rx_sem is free only when it is
\* with nobody else than the receiver.
THEOREM ReceiveInvariant == Spec => []IInv
<1>1. IInv /\ [Next]_vars => IInv'
  <2>1. IInv /\ UNCHANGED vars => IInv'
    BY DEF vars, stack, thread, memory, IInv, Types, HandInv, LoadedInv
  <2> QED
    BY <2>1, TesterStep, ReceiverStep, SubscriberStep DEF Next
<1> QED
  BY InitIInv, <1>1, PTL DEF Spec

\* The subscriber decodes a live buffer that the receiver does not touch, whatever
\* fails (isotp_rx_thread, can_rx_ble_subscriber_task).
THEOREM SubscriberIsAlone == Spec => []SubscriberReadsAlone
<1>1. IInv => SubscriberReadsAlone
  <2> SUFFICES ASSUME IInv, HandedOver
               PROVE  /\ rx = "take" /\ sem = 0
                      /\ ptr # None => heap[ptr] = "live"
                      /\ queue \o sub = <<ptr>>
    BY DEF SubscriberReadsAlone
  <2>1. \/ queue = <<ptr>> /\ sub = <<>>
        \/ queue = <<>> /\ sub = <<ptr>>
    BY DEF HandedOver, IInv, HandInv
  <2>2. rx = "take" /\ sem = 0
    BY DEF HandedOver, IInv, HandInv
  <2>3. queue \o sub = <<ptr>>
    BY <2>1, OnePointer
  <2> QED
    BY <2>2, <2>3 DEF IInv, LoadedInv
<1> QED
  BY ReceiveInvariant, <1>1, PTL

-----------------------------------------------------------------------------
\* The refinement: publishing puts the message into the slot, the end of the decoding
\* delivers it, or gives it up if it is empty; all other steps stutter.
Delivered == IF out = <<>> THEN None ELSE out
Slotted == IF HandedOver THEN Message ELSE None

\* A message handed over is a sequence of blocks, which None is not; with a buffer it
\* is not empty.
LEMMA HandedMessage ==
  ASSUME IInv, HandedOver
  PROVE  /\ Message \in Seq(Block) /\ Message # None
         /\ ptr # None => Message = text[ptr] /\ Message # <<>>
         /\ Slotted = Message
<1>1. rx = "take"
  BY DEF HandedOver, IInv, HandInv
<1>2. Message \in Seq(Block)
  BY DEF Message, IInv, Types
<1>3. ptr # None => Message = text[ptr] /\ Message # <<>>
  BY <1>1 DEF Message, IInv, LoadedInv
<1> QED
  BY <1>2, <1>3, RxConstants DEF Slotted

\* As long as the receiver has the message, a step that leaves the channel, the
\* subscriber and the last message alone is a stutter.
LEMMA ReceiverStutters ==
  ASSUME IInv, queue = <<>>, sub = <<>>, UNCHANGED <<queue, sub, out>>
  PROVE  UNCHANGED <<Slotted, Delivered>>
  BY DEF HandedOver, Slotted, Delivered

\* Every step is a step of the one-slot hand-over or a stutter.
LEMMA StepIsSlotStep ==
  ASSUME IInv, IInv', [Next]_vars
  PROVE  [Slot!Next]_<<Slotted, Delivered>>
<1>1. ASSUME UNCHANGED <<queue, sub, out, ptr, text>> PROVE UNCHANGED <<Slotted, Delivered>>
  BY <1>1 DEF HandedOver, Slotted, Delivered, Message
<1>2. CASE Tester
  <2>1. UNCHANGED <<queue, sub, out, ptr, text>>
    BY <1>2 DEF Tester, FirstFrame, NextBlock, Abort, thread, memory
  <2> QED
    BY <1>1, <2>1
<1>3. CASE RxTake \/ RxRecv \/ RxRecvNoMem \/ RxError \/ RxPublishFail
  <2>1. queue = <<>> /\ sub = <<>>
    BY <1>3 DEF RxTake, RxRecv, RxRecvNoMem, RxError, RxPublishFail, IInv, HandInv
  <2>2. UNCHANGED <<queue, sub, out>>
    BY <1>3 DEF RxTake, RxRecv, RxRecvNoMem, RxError, RxPublishFail
  <2> QED
    BY <2>1, <2>2, ReceiverStutters
<1>4. CASE RxPublish
  <2>1. queue = <<>> /\ sub = <<>>
    BY <1>4 DEF RxPublish, IInv, HandInv
  <2>2. queue' = <<ptr>> /\ out' = out
    BY <1>4, <2>1, OnePointer DEF RxPublish
  <2>3. HandedOver' /\ ~HandedOver
    BY <2>1, <2>2, OnePointer DEF HandedOver
  <2>4. Slotted = None /\ Slotted' \in Seq(Block) /\ Delivered' = Delivered
    <3>1. Message' \in Seq(Block)
      BY DEF Message, IInv, Types
    <3> QED
      BY <2>2, <2>3, <3>1 DEF Slotted, Delivered
  <2> QED
    BY <2>4 DEF Slot!Next, Slot!Put, Slotted, Delivered
<1>5. CASE SubWait
  <2>1. queue = <<ptr>>
    BY <1>5 DEF SubWait, IInv, HandInv
  <2>2. sub' = <<ptr>>
    BY <1>5, <2>1, OnePointer DEF SubWait
  <2>3. HandedOver' /\ HandedOver
    BY <2>1, <2>2, OnePointer DEF HandedOver
  <2> QED
    BY <1>5, <2>3 DEF SubWait, thread, memory, Message, Slotted, Delivered
<1>6. CASE SubDone
  <2>1. queue = <<>> /\ sub = <<ptr>> /\ HandedOver
    BY <1>6 DEF SubDone, HandedOver, IInv, HandInv
  <2>2. ~HandedOver'
    BY <1>6, <2>1 DEF SubDone, HandedOver
  <2>3. Slotted = Message /\ Slotted # None /\ Slotted' = None
    BY <2>1, <2>2, HandedMessage DEF Slotted
  <2>4. sub[1] = ptr
    BY <2>1, OnePointer
  <2>5. CASE ptr = None
    <3>1. Delivered' = Delivered
      BY <1>6, <2>4, <2>5 DEF SubDone, Delivered
    <3> QED
      BY <2>3, <3>1 DEF Slot!Next, Slot!GiveUp, Slotted, Delivered
  <2>6. CASE ptr # None
    <3>1. out' = Message /\ out' # <<>>
      BY <1>6, <2>1, <2>4, <2>6, HandedMessage DEF SubDone
    <3>2. Delivered' = Slotted
      BY <2>3, <3>1 DEF Delivered
    <3> QED
      BY <2>3, <3>2 DEF Slot!Next, Slot!Deliver, Slotted, Delivered
  <2> QED
    BY <2>5, <2>6
<1>7. CASE UNCHANGED vars
  BY <1>1, <1>7 DEF vars, thread, memory
<1> QED
  BY <1>2, <1>3, <1>4, <1>5, <1>6, <1>7 DEF Next, RxThread, Subscriber

\* isotp_rx_thread and can_rx_ble_subscriber_task are a one-slot hand-over: what was
\* published comes out unchanged, at most once, before the next message goes in.
THEOREM MessagesAreOneSlot == Spec => SlotSpec
<1>1. Init => Slot!Init
  BY DEF Init, Slot!Init, HandedOver
<1>2. IInv /\ IInv' /\ [Next]_vars => [Slot!Next]_<<Slotted, Delivered>>
  BY StepIsSlotStep
<1> QED
  BY <1>1, <1>2, ReceiveInvariant, PTL DEF Spec, SlotSpec, Slot!Spec, Slotted, Delivered

-----------------------------------------------------------------------------
(* As long as nothing fails: what has been read of the stream, and what is left *)

\* The first k blocks of message m, which has n.
Frames(m, n, k) == [i \in 1..k |-> [m |-> m, k |-> i, n |-> n]]

\* Block b is the one after a.
Follows(a, b) == IF a.k < a.n THEN b = [m |-> a.m, k |-> a.k + 1, n |-> a.n] ELSE b.k = 1

Chain(q) == \A i \in 1..(Len(q) - 1) : Follows(q[i], q[i + 1])

\* The thread has a part of a message, up to block LastRead.
Partial == rx = "recv" /\ ptr # None
LastRead == text[ptr][Len(text[ptr])]

ReadInv ==
  Partial => /\ LastRead.k < LastRead.n
             /\ text[ptr] = Frames(LastRead.m, LastRead.n, LastRead.k)

\* The blocks in the stack go from the one after LastRead to the one sent last.
StreamInv ==
  /\ Chain(fifo)
  /\ fifo # <<>> => /\ fifo[Len(fifo)] = wire
                    /\ IF Partial THEN Follows(LastRead, fifo[1]) ELSE fifo[1].k = 1
  /\ fifo = <<>> => IF Partial THEN wire = LastRead ELSE wire.k = wire.n

Whole(s) == \E m \in 1..MaxMsgs, n \in 1..MaxBlocks : s = Frames(m, n, n)

FullInv == rx = "pub" \/ HandedOver => ptr # None /\ Whole(text[ptr])

SentInv == ~rough => ~err /\ ReadInv /\ StreamInv /\ FullInv

\* One more block makes a longer message.
LEMMA FramesGrow ==
  ASSUME NEW m, NEW n, NEW k \in Nat, Frames(m, n, k) \in Seq(Block)
  PROVE  Append(Frames(m, n, k), [m |-> m, k |-> k + 1, n |-> n]) = Frames(m, n, k + 1)
<1> DEFINE s == Frames(m, n, k)  b == [m |-> m, k |-> k + 1, n |-> n]
<1>1. Len(s) = k /\ \A i \in 1..k : s[i] = [m |-> m, k |-> i, n |-> n]
  BY DEF Frames
<1>2. s \in Seq(Block)
  OBVIOUS
<1> HIDE DEF s
<1>3. Append(s, b) = [i \in 1..(k + 1) |-> IF i = k + 1 THEN b ELSE s[i]]
  BY <1>1, <1>2
<1>4. ASSUME NEW i \in 1..(k + 1)
      PROVE  (IF i = k + 1 THEN b ELSE s[i]) = [m |-> m, k |-> i, n |-> n]
  <2>1. CASE i = k + 1
    BY <2>1
  <2>2. CASE i # k + 1
    <3>1. i \in 1..k
      BY <2>2
    <3> QED
      BY <1>1, <2>2, <3>1
  <2> QED
    BY <2>1, <2>2
<1>5. Append(s, b) = Frames(m, n, k + 1)
  BY <1>3, <1>4 DEF Frames
<1> QED
  BY <1>5 DEF s

\* One block that is the first of its message.
LEMMA FrameOne ==
  ASSUME NEW b \in Block, b.k = 1 PROVE <<b>> = Frames(b.m, b.n, b.k)
<1>1. b = [m |-> b.m, k |-> 1, n |-> b.n]
  BY DEF Block
<1>2. Frames(b.m, b.n, 1) = [i \in 1..1 |-> [m |-> b.m, k |-> i, n |-> b.n]]
  BY DEF Frames
<1>3. \A i \in 1..1 : i = 1
  OBVIOUS
<1> HIDE DEF Block
<1>4. <<b>> = [i \in 1..1 |-> b]
  OBVIOUS
<1>5. [i \in 1..1 |-> b] = Frames(b.m, b.n, 1)
  BY <1>1, <1>2, <1>3
<1> QED
  BY <1>4, <1>5

\* The stack takes the block after the last one it has.
LEMMA ChainAppend ==
  ASSUME NEW q \in Seq(Block), NEW b, Chain(q), q # <<>> => Follows(q[Len(q)], b)
  PROVE  /\ Chain(Append(q, b)) /\ Append(q, b) # <<>>
         /\ Append(q, b)[Len(Append(q, b))] = b
         /\ Append(q, b)[1] = IF q = <<>> THEN b ELSE q[1]
<1>1. /\ Len(q) \in Nat /\ Len(Append(q, b)) = Len(q) + 1
      /\ Append(q, b)[Len(q) + 1] = b
      /\ \A i \in 1..Len(q) : Append(q, b)[i] = q[i]
  OBVIOUS
<1>2. ASSUME NEW i \in 1..Len(q) PROVE Follows(Append(q, b)[i], Append(q, b)[i + 1])
  <2>1. Append(q, b)[i] = q[i]
    BY <1>1
  <2>2. CASE i = Len(q)
    <3>1. q # <<>>
      BY <2>2
    <3> QED
      BY <1>1, <2>1, <2>2, <3>1
  <2>3. CASE i # Len(q)
    <3>1. i \in 1..(Len(q) - 1) /\ i + 1 \in 1..Len(q)
      BY <1>1, <2>3
    <3> QED
      BY <1>1, <2>1, <3>1 DEF Chain
  <2> QED
    BY <2>2, <2>3
<1>3. Chain(Append(q, b))
  BY <1>1, <1>2 DEF Chain
<1>4. Append(q, b)[1] = IF q = <<>> THEN b ELSE q[1]
  <2>1. CASE q = <<>>
    BY <2>1
  <2>2. CASE q # <<>>
    <3>1. 1 \in 1..Len(q)
      BY <2>2
    <3> QED
      BY <1>1, <2>2, <3>1
  <2> QED
    BY <2>1, <2>2
<1>5. Append(q, b) # <<>>
  OBVIOUS
<1> QED
  BY <1>1, <1>3, <1>4, <1>5

\* The thread takes the first block of the stack.
LEMMA ChainTail ==
  ASSUME NEW q \in Seq(Block), Chain(q), q # <<>>
  PROVE  /\ Chain(Tail(q)) /\ Head(q) = q[1]
         /\ Tail(q) # <<>> => /\ Follows(Head(q), Tail(q)[1])
                              /\ Tail(q)[Len(Tail(q))] = q[Len(q)]
         /\ Tail(q) = <<>> => q[Len(q)] = Head(q)
<1>1. /\ Len(q) \in Nat /\ Len(q) >= 1 /\ Head(q) = q[1] /\ Len(Tail(q)) = Len(q) - 1
      /\ \A i \in 1..(Len(q) - 1) : Tail(q)[i] = q[i + 1]
  OBVIOUS
<1>2. ASSUME NEW i \in 1..(Len(Tail(q)) - 1) PROVE Follows(Tail(q)[i], Tail(q)[i + 1])
  <2>1. i \in 1..(Len(q) - 1) /\ i + 1 \in 1..(Len(q) - 1)
    BY <1>1
  <2>2. Tail(q)[i] = q[i + 1] /\ Tail(q)[i + 1] = q[(i + 1) + 1]
    BY <1>1, <2>1
  <2> QED
    BY <2>1, <2>2 DEF Chain
<1>3. Chain(Tail(q))
  BY <1>2 DEF Chain
<1>4. ASSUME Tail(q) # <<>>
      PROVE  Follows(Head(q), Tail(q)[1]) /\ Tail(q)[Len(Tail(q))] = q[Len(q)]
  <2>1. Tail(q) \in Seq(Block)
    OBVIOUS
  <2>2. Len(q) - 1 >= 1
    BY <1>1, <1>4, <2>1
  <2>3. 1 \in 1..(Len(q) - 1) /\ Len(q) - 1 \in 1..(Len(q) - 1) /\ (Len(q) - 1) + 1 = Len(q)
    BY <1>1, <2>2
  <2>4. Tail(q)[1] = q[1 + 1] /\ Tail(q)[Len(q) - 1] = q[(Len(q) - 1) + 1]
    BY <1>1, <2>3
  <2> QED
    BY <1>1, <2>3, <2>4 DEF Chain
<1>5. Tail(q) = <<>> => Len(q) = 1
  BY <1>1
<1> QED
  BY <1>1, <1>3, <1>4, <1>5

\* What the thread has after block b, its first or one more of the message.
LEMMA ReadOn ==
  ASSUME IInv, ReadInv, RxRecv, NEW b \in Block, b = Head(fifo),
         IF Partial THEN Follows(LastRead, b) ELSE b.k = 1
  PROVE  /\ ptr' # None /\ LastRead' = b /\ text'[ptr'] = Frames(b.m, b.n, b.k)
         /\ b.k <= b.n
<1>1. Types /\ LoadedInv /\ rx = "recv"
  BY DEF IInv, RxRecv
<1>2. b.k \in Nat /\ b.n \in Nat /\ b.n >= 1
  BY RxConstants DEF Block
<1>3. CASE ptr # None /\ text' = [text EXCEPT ![ptr] = Append(@, b)] /\ UNCHANGED <<ptr, heap>>
  <2>1. ptr \in Bufs /\ text[ptr] \in Seq(Block) /\ text[ptr] # <<>>
    BY <1>1, <1>3 DEF Types, LoadedInv
  <2>2. LastRead \in Block
    <3>1. Len(text[ptr]) \in 1..Len(text[ptr])
      BY <2>1
    <3> QED
      BY <2>1, <3>1 DEF LastRead
  <2>3. LastRead.k \in Nat /\ LastRead.n \in Nat
    BY <2>2, RxConstants DEF Block
  <2>4. Partial
    BY <1>1, <1>3 DEF Partial
  <2>5. LastRead.k < LastRead.n /\ text[ptr] = Frames(LastRead.m, LastRead.n, LastRead.k)
    BY <2>4 DEF ReadInv
  <2>6. b = [m |-> LastRead.m, k |-> LastRead.k + 1, n |-> LastRead.n]
    BY <2>4, <2>5 DEF Follows
  <2>7. Append(text[ptr], b) = Frames(LastRead.m, LastRead.n, LastRead.k + 1)
    BY <2>1, <2>3, <2>5, <2>6, FramesGrow
  <2>8. text'[ptr'] = Append(text[ptr], b)
    BY <1>1, <1>3, <2>1 DEF Types
  <2>9. Append(text[ptr], b)[Len(Append(text[ptr], b))] = b
    BY <2>1
  <2>10. b.m = LastRead.m /\ b.n = LastRead.n /\ b.k = LastRead.k + 1
    BY <2>6
  <2>11. LastRead' = b
    BY <2>8, <2>9 DEF LastRead
  <2>12. text'[ptr'] = Frames(b.m, b.n, b.k)
    BY <2>7, <2>8, <2>10
  <2>13. b.k <= b.n
    BY <2>3, <2>5, <2>10
  <2> QED
    BY <1>3, <2>11, <2>12, <2>13
<1>4. ASSUME NEW c \in Bufs, ptr = None, text' = [text EXCEPT ![c] = <<b>>], ptr' = c
      PROVE  /\ ptr' # None /\ LastRead' = b /\ text'[ptr'] = Frames(b.m, b.n, b.k)
             /\ b.k <= b.n
  <2>1. b.k = 1
    BY <1>4 DEF Partial
  <2>2. text'[ptr'] = <<b>> /\ ptr' # None
    BY <1>1, <1>4, RxConstants DEF Types
  <2>3. <<b>>[Len(<<b>>)] = b
    OBVIOUS
  <2>4. LastRead' = b
    BY <2>2, <2>3 DEF LastRead
  <2> QED
    BY <1>2, <2>1, <2>2, <2>4, FrameOne
<1> QED
  BY <1>3, <1>4 DEF RxRecv

\* The thread takes a block from the stack.
LEMMA SentRecv == ASSUME IInv, SentInv, RxRecv PROVE SentInv'
<1> SUFFICES ASSUME ~rough' PROVE ~err' /\ ReadInv' /\ StreamInv' /\ FullInv'
  BY DEF SentInv
<1>1. ReadInv /\ StreamInv /\ ~err /\ rx = "recv" /\ fifo # <<>> /\ fifo \in Seq(Block)
  BY DEF SentInv, RxRecv, IInv, Types
<1>2. UNCHANGED <<wire, err, queue, sub>> /\ fifo' = Tail(fifo)
  BY DEF RxRecv
<1>3. PICK b \in Block : b = Head(fifo)
  BY <1>1
<1>4. IF Partial THEN Follows(LastRead, b) ELSE b.k = 1
  BY <1>1, <1>3, ChainTail DEF StreamInv
<1>5. /\ ptr' # None /\ LastRead' = b /\ text'[ptr'] = Frames(b.m, b.n, b.k)
      /\ b.k <= b.n
  BY <1>1, <1>3, <1>4, ReadOn
<1>6. /\ Chain(fifo') /\ (fifo' = <<>> => b = wire)
      /\ fifo' # <<>> => Follows(b, fifo'[1]) /\ fifo'[Len(fifo')] = wire
  BY <1>1, <1>2, <1>3, ChainTail DEF StreamInv
<1>7. b.k \in Nat /\ b.n \in Nat /\ b.m \in 1..MaxMsgs /\ b.n \in 1..MaxBlocks
  BY RxConstants DEF Block
<1>8. ~HandedOver'
  <2>1. queue = <<>> /\ sub = <<>>
    BY <1>1 DEF IInv, HandInv
  <2> QED
    BY <1>2, <2>1 DEF HandedOver
<1>9. CASE b.k = b.n
  <2>1. rx' = "pub"
    BY <1>3, <1>9 DEF RxRecv, AfterBlock
  <2>2. Whole(text'[ptr'])
    BY <1>5, <1>7, <1>9 DEF Whole
  <2>3. StreamInv'
    BY <1>2, <1>6, <1>7, <1>9, <2>1 DEF StreamInv, Partial, Follows
  <2> QED
    BY <1>1, <1>2, <1>5, <2>1, <2>2, <2>3 DEF ReadInv, Partial, FullInv
<1>10. CASE b.k # b.n
  <2>1. rx' = "recv" /\ b.k < b.n
    BY <1>3, <1>5, <1>7, <1>10 DEF RxRecv, AfterBlock
  <2>2. Partial'
    BY <1>5, <2>1 DEF Partial
  <2>3. StreamInv'
    BY <1>2, <1>5, <1>6, <2>2 DEF StreamInv
  <2>4. ReadInv'
    BY <1>5, <2>1 DEF ReadInv
  <2> QED
    BY <1>1, <1>2, <1>8, <2>1, <2>3, <2>4 DEF FullInv
<1> QED
  BY <1>9, <1>10

\* The stack takes a block from the tester.
LEMMA SentTester == ASSUME IInv, SentInv, Tester PROVE SentInv'
<1> SUFFICES ASSUME ~rough' PROVE ~err' /\ ReadInv' /\ StreamInv' /\ FullInv'
  BY DEF SentInv
<1>1. UNCHANGED <<rx, ptr, text, queue, sub, rough, err>>
  BY DEF Tester, FirstFrame, NextBlock, Abort, thread, memory
<1>2. ReadInv /\ StreamInv /\ FullInv /\ ~err
  BY <1>1 DEF SentInv
<1>3. ~err' /\ ReadInv' /\ FullInv' /\ (Partial' <=> Partial) /\ LastRead' = LastRead
  BY <1>1, <1>2 DEF ReadInv, FullInv, HandedOver, Partial, LastRead
<1>4. fifo \in Seq(Block) /\ wire.k \in Nat /\ wire.n \in Nat
  BY RxConstants DEF IInv, Types
<1>5. /\ fifo' = Append(fifo, wire')
      /\ \/ wire.k = wire.n /\ wire'.k = 1
         \/ wire.k < wire.n /\ wire' = [m |-> wire.m, k |-> wire.k + 1, n |-> wire.n]
  <2>1. ASSUME NEW n \in 1..MaxBlocks, FirstFrame(n)
        PROVE  fifo' = Append(fifo, wire') /\ wire.k = wire.n /\ wire'.k = 1
    BY <1>4, <2>1 DEF FirstFrame, Rest
  <2>2. CASE NextBlock
    BY <1>4, <2>2 DEF NextBlock, Rest, IInv, Types
  <2>3. ~Abort
    BY DEF Abort
  <2> QED
    BY <2>1, <2>2, <2>3 DEF Tester
<1>6. fifo # <<>> => Follows(fifo[Len(fifo)], wire')
  BY <1>2, <1>4, <1>5 DEF StreamInv, Follows
<1>7. fifo = <<>> => IF Partial THEN Follows(LastRead, wire') ELSE wire'.k = 1
  BY <1>2, <1>4, <1>5 DEF StreamInv, ReadInv, Follows
<1>8. /\ Chain(fifo') /\ fifo' # <<>> /\ fifo'[Len(fifo')] = wire'
      /\ fifo'[1] = IF fifo = <<>> THEN wire' ELSE fifo[1]
  BY <1>2, <1>4, <1>5, <1>6, ChainAppend DEF StreamInv
<1>9. StreamInv'
  BY <1>2, <1>3, <1>7, <1>8 DEF StreamInv
<1> QED
  BY <1>3, <1>9

\* As long as nothing fails, every step keeps the message in order.
LEMMA SentStep == ASSUME IInv, SentInv, [Next]_vars PROVE SentInv'
<1>1. CASE Tester
  BY <1>1, SentTester
<1>2. CASE RxTake
  <2>1. ~HandedOver
    BY <1>2, OnePointer DEF RxTake, IInv, HandInv, HandedOver
  <2>2. rx' = "recv" /\ ptr' = None /\ ~HandedOver' /\ ~Partial /\ ~Partial'
    BY <1>2, <2>1 DEF RxTake, HandedOver, Partial
  <2> QED
    BY <1>2, <2>2 DEF RxTake, SentInv, ReadInv, StreamInv, FullInv, stack
<1>3. CASE RxRecv
  BY <1>3, SentRecv
<1>4. CASE RxRecvNoMem
  BY <1>4 DEF RxRecvNoMem, SentInv
<1>5. CASE RxError
  BY <1>5 DEF RxError, SentInv
<1>6. CASE RxPublish
  <2>1. rx = "pub" /\ rx' = "take" /\ ~Partial /\ ~Partial' /\ UNCHANGED <<stack, ptr, memory, rough>>
    BY <1>6 DEF RxPublish, Partial
  <2> QED
    BY <2>1 DEF SentInv, ReadInv, StreamInv, FullInv, stack, memory
<1>7. CASE RxPublishFail
  BY <1>7 DEF RxPublishFail, SentInv
<1>8. CASE SubWait
  <2>1. HandedOver /\ UNCHANGED <<stack, rx, ptr, text, rough>>
    BY <1>8 DEF SubWait, HandedOver, thread, memory
  <2>2. (Partial' <=> Partial) /\ LastRead' = LastRead
    BY <2>1 DEF Partial, LastRead
  <2> QED
    BY <2>1, <2>2 DEF SentInv, ReadInv, StreamInv, FullInv, stack
<1>9. CASE SubDone
  <2>1. HandedOver /\ UNCHANGED <<stack, rx, ptr, text, rough>>
    BY <1>9 DEF SubDone, HandedOver, thread, memory
  <2>2. (Partial' <=> Partial) /\ LastRead' = LastRead
    BY <2>1 DEF Partial, LastRead
  <2> QED
    BY <2>1, <2>2 DEF SentInv, ReadInv, StreamInv, FullInv, stack
<1>10. CASE UNCHANGED vars
  BY <1>10 DEF vars, stack, thread, memory, SentInv, ReadInv, StreamInv, FullInv, Partial,
               LastRead, HandedOver
<1> QED
  BY <1>1, <1>2, <1>3, <1>4, <1>5, <1>6, <1>7, <1>8, <1>9, <1>10 DEF Next, RxThread, Subscriber

\* As long as nothing has failed, what is handed over is one whole message, its blocks in
\* the order they were sent (isotp_rx_thread).
THEOREM MessagesAreWhole == Spec => []WholeMessages
<1>1. Init => SentInv
  <2> SUFFICES ASSUME Init PROVE SentInv
    OBVIOUS
  <2>1. fifo = <<>> /\ wire.k = wire.n /\ ~err /\ ~Partial /\ rx = "take" /\ ~HandedOver
    BY DEF Init, Partial, HandedOver
  <2>2. Chain(<<>>)
    BY DEF Chain
  <2> QED
    BY <2>1, <2>2 DEF SentInv, ReadInv, StreamInv, FullInv
<1>2. IInv /\ SentInv /\ [Next]_vars => SentInv'
  BY SentStep
<1>3. SentInv => WholeMessages
  BY DEF SentInv, FullInv, Whole, Frames, WholeMessages, Message
<1> QED
  BY <1>1, <1>2, <1>3, ReceiveInvariant, PTL DEF Spec

-----------------------------------------------------------------------------
(* The pools of network buffers *)

\* The blocks of a sequence that are not the first of their message.
Later(s) == {i \in 1..Len(s) : s[i].k > 1}

\* A block in the stack has a buffer of the pool that is not free; a block skipped for
\* want of memory keeps its buffer for good.
PoolInv ==
  /\ ffFree \in BOOLEAN /\ err \in BOOLEAN /\ rough \in BOOLEAN
  /\ out \in Seq(Block)
  /\ netFree \in Nat /\ netFree + Cardinality(Later(fifo)) <= NetBufs

\* How many later blocks there are is a number.
LEMMA LaterFinite ==
  ASSUME NEW s \in Seq(Block)
  PROVE  IsFiniteSet(Later(s)) /\ Cardinality(Later(s)) \in Nat
<1>1. IsFiniteSet(1..Len(s))
  BY FS_Interval
<1>2. IsFiniteSet(Later(s))
  BY <1>1, FS_Subset DEF Later
<1> QED
  BY <1>2, FS_CardinalityType

\* A block more counts, if it is a later one.
LEMMA LaterAppend ==
  ASSUME NEW s \in Seq(Block), NEW b \in Block
  PROVE  /\ b.k = 1 => Cardinality(Later(Append(s, b))) = Cardinality(Later(s))
         /\ Cardinality(Later(Append(s, b))) <= Cardinality(Later(s)) + 1
<1> DEFINE t == Append(s, b)
           n == Len(s) + 1
<1>1. Len(t) = n /\ n \in Nat \ {0} /\ t[n] = b /\ \A i \in 1..Len(s) : t[i] = s[i]
  OBVIOUS
<1>2. Len(s) \in Nat
  OBVIOUS
<1> HIDE DEF t
<1>3. Later(t) = IF b.k > 1 THEN Later(s) \cup {n} ELSE Later(s)
  BY <1>1, <1>2 DEF Later
<1>4. IsFiniteSet(Later(s)) /\ Cardinality(Later(s)) \in Nat
  BY LaterFinite
<1>5. Cardinality(Later(s) \cup {n}) = IF n \in Later(s) THEN Cardinality(Later(s)) ELSE Cardinality(Later(s)) + 1
  BY <1>4, FS_AddElement
<1>6. b.k \in Nat
  BY RxConstants DEF Block
<1> QED
  BY <1>3, <1>4, <1>5, <1>6 DEF t

\* The rest counts less by the block taken out, if that is a later one.
LEMMA LaterTail ==
  ASSUME NEW s \in Seq(Block), s # <<>>
  PROVE  /\ Cardinality(Later(Tail(s))) <= Cardinality(Later(s))
         /\ Head(s).k # 1 => Cardinality(Later(Tail(s))) + 1 <= Cardinality(Later(s))
<1> DEFINE t == Tail(s)
           A == Later(s) \ {1}
           f == [i \in A |-> i - 1]
<1>1. t \in Seq(Block) /\ Len(s) \in Nat \ {0} /\ Len(t) = Len(s) - 1
      /\ \A i \in 1..Len(t) : t[i] = s[i + 1]
  OBVIOUS
<1>2. s[1] = Head(s) /\ Head(s) \in Block
  OBVIOUS
<1> HIDE DEF t
<1>3. ASSUME NEW i \in A PROVE f[i] \in Later(t)
  <2>1. i \in 2..Len(s) /\ s[i].k > 1
    BY <1>1 DEF Later
  <2>2. i - 1 \in 1..Len(t) /\ t[i - 1] = s[i]
    <3>1. i - 1 \in 1..Len(t) /\ (i - 1) + 1 = i
      BY <2>1, <1>1
    <3> QED
      BY <3>1, <1>1
  <2> QED
    BY <2>1, <2>2 DEF Later
<1>4. ASSUME NEW j \in Later(t) PROVE \E i \in A : f[i] = j
  <2>1. j \in 1..Len(t) /\ t[j].k > 1 /\ t[j] = s[j + 1]
    BY <1>1 DEF Later
  <2>2. j + 1 \in A /\ (j + 1) - 1 = j
    BY <2>1, <1>1 DEF Later
  <2> QED
    BY <2>2
<1>5. f \in Surjection(A, Later(t))
  <2>1. f \in [A -> Later(t)]
    BY <1>3
  <2> QED
    BY <2>1, <1>4 DEF Surjection
<1>6. IsFiniteSet(Later(s)) /\ Cardinality(Later(s)) \in Nat
      /\ IsFiniteSet(Later(t)) /\ Cardinality(Later(t)) \in Nat
  BY LaterFinite, <1>1
<1>7. IsFiniteSet(A) /\ Cardinality(A) = IF 1 \in Later(s) THEN Cardinality(Later(s)) - 1 ELSE Cardinality(Later(s))
  BY <1>6, FS_RemoveElement
<1>8. Cardinality(Later(t)) <= Cardinality(A)
  <2> HIDE DEF A, f
  <2> QED
    BY <1>5, <1>7, FS_Surjection
<1>9. Head(s).k # 1 => 1 \in Later(s)
  <2>1. Head(s).k \in 1..MaxBlocks
    BY <1>2 DEF Block
  <2> QED
    BY <2>1, <1>1, <1>2, RxConstants DEF Later
<1> HIDE DEF A, f
<1> QED
  BY <1>6, <1>7, <1>8, <1>9 DEF t

\* Initially the pools are full.
LEMMA PoolInit == Init => PoolInv
<1> SUFFICES ASSUME Init PROVE PoolInv
  OBVIOUS
<1>1. fifo = <<>> /\ out = <<>> /\ netFree = NetBufs /\ ffFree = TRUE /\ err = FALSE /\ rough = FALSE
  BY DEF Init
<1>2. Later(<<>>) = {}
  BY DEF Later
<1>3. Cardinality(Later(fifo)) = 0
  BY <1>1, <1>2, FS_EmptySet
<1>4. <<>> \in Seq(Block) /\ NetBufs \in Nat
  BY RxConstants
<1>5. netFree \in Nat /\ netFree + Cardinality(Later(fifo)) <= NetBufs
  <2>1. NetBufs + 0 <= NetBufs
    BY <1>4
  <2> QED
    BY <2>1, <1>1, <1>3, <1>4
<1> QED
  BY <1>1, <1>4, <1>5 DEF PoolInv

\* A block sent takes its buffer, and the first block of a message does not need one.
LEMMA PoolTester == ASSUME IInv, PoolInv, Tester PROVE PoolInv'
<1>0. fifo \in Seq(Block) /\ Cardinality(Later(fifo)) \in Nat /\ netFree \in Nat /\ NetBufs \in Nat
  BY LaterFinite, RxConstants DEF IInv, Types, PoolInv
<1>1. ASSUME NEW n \in 1..MaxBlocks, FirstFrame(n) PROVE PoolInv'
  <2>1. PICK b : b = [m |-> wire.m + 1, k |-> 1, n |-> n] /\ fifo' = Append(fifo, b)
    BY <1>1 DEF FirstFrame
  <2>2. b \in Block /\ b.k = 1
    <3>1. wire.m + 1 \in 1..MaxMsgs /\ 1 \in 1..MaxBlocks
      BY <1>1, RxConstants DEF FirstFrame, IInv, Types
    <3> QED
      BY <2>1, <3>1 DEF Block
  <2>3. Cardinality(Later(fifo')) = Cardinality(Later(fifo))
    BY <2>1, <2>2, <1>0, LaterAppend
  <2>4. netFree + Cardinality(Later(fifo')) <= NetBufs
    BY <2>3 DEF PoolInv
  <2> QED
    BY <1>1, <2>4 DEF FirstFrame, PoolInv
<1>2. ASSUME NextBlock PROVE PoolInv'
  <2>1. PICK b : b = [m |-> wire.m, k |-> wire.k + 1, n |-> wire.n] /\ fifo' = Append(fifo, b)
    BY <1>2 DEF NextBlock, IInv, Types
  <2>2. b \in Block
    <3>1. wire.m \in 1..MaxMsgs /\ wire.k + 1 \in 1..MaxBlocks /\ wire.n \in 1..MaxBlocks
      BY <1>2, RxConstants DEF NextBlock, Rest, IInv, Types
    <3> QED
      BY <2>1, <3>1 DEF Block
  <2>3. Cardinality(Later(fifo')) <= Cardinality(Later(fifo)) + 1
    BY <2>1, <2>2, <1>0, LaterAppend
  <2>4. fifo' \in Seq(Block) /\ Cardinality(Later(fifo')) \in Nat
    <3>1. fifo' \in Seq(Block)
      BY <2>1, <2>2, <1>0
    <3> QED
      BY <3>1, LaterFinite
  <2>5. netFree' \in Nat /\ netFree' + Cardinality(Later(fifo')) <= NetBufs
    <3>1. netFree > 0 /\ netFree' = netFree - 1 /\ netFree + Cardinality(Later(fifo)) <= NetBufs
      BY <1>2 DEF NextBlock, PoolInv
    <3> QED
      BY <3>1, <2>3, <2>4, <1>0
  <2> QED
    BY <1>2, <2>5 DEF NextBlock, PoolInv
<1>3. ASSUME Abort PROVE PoolInv'
  <2>1. err' \in BOOLEAN /\ rough' \in BOOLEAN
    BY <1>3 DEF Abort, PoolInv
  <2>2. UNCHANGED <<fifo, ffFree, netFree, out>>
    BY <1>3 DEF Abort
  <2> QED
    BY <2>1, <2>2 DEF PoolInv
<1> QED
  BY <1>1, <1>2, <1>3 DEF Tester

\* A block read gives its buffer back, to the pool it is from, or to none.
LEMMA PoolReceiver == ASSUME IInv, PoolInv, RxThread PROVE PoolInv'
<1>0. fifo \in Seq(Block) /\ Cardinality(Later(fifo)) \in Nat /\ netFree \in Nat /\ NetBufs \in Nat
  BY LaterFinite, RxConstants DEF IInv, Types, PoolInv
<1>a. ASSUME fifo # <<>>, fifo' = Tail(fifo)
      PROVE  /\ Cardinality(Later(fifo')) \in Nat
             /\ Cardinality(Later(fifo')) <= Cardinality(Later(fifo))
             /\ Head(fifo).k # 1 => Cardinality(Later(fifo')) + 1 <= Cardinality(Later(fifo))
  <2>1. fifo' \in Seq(Block)
    BY <1>a, <1>0
  <2> QED
    BY <1>a, <1>0, <2>1, LaterTail, LaterFinite
<1>1. ASSUME RxRecv PROVE PoolInv'
  <2>1. fifo # <<>> /\ fifo' = Tail(fifo)
    BY <1>1 DEF RxRecv
  <2>2. \/ Head(fifo).k = 1 /\ netFree' = netFree /\ ffFree' = TRUE
        \/ Head(fifo).k # 1 /\ netFree' = netFree + 1 /\ ffFree' = ffFree
    BY <1>1 DEF RxRecv, ReleaseNetBuf
  <2>3. netFree' \in Nat /\ netFree' + Cardinality(Later(fifo')) <= NetBufs
    <3>1. netFree + Cardinality(Later(fifo)) <= NetBufs
      BY DEF PoolInv
    <3> QED
      BY <3>1, <2>1, <2>2, <1>0, <1>a
  <2>4. ffFree' \in BOOLEAN
    BY <2>2 DEF PoolInv
  <2>5. UNCHANGED <<err, out, rough>>
    BY <1>1 DEF RxRecv
  <2> QED
    BY <2>3, <2>4, <2>5 DEF PoolInv
<1>2. ASSUME RxRecvNoMem PROVE PoolInv'
  <2>1. fifo # <<>> /\ fifo' = Tail(fifo)
    BY <1>2 DEF RxRecvNoMem
  <2>2. netFree + Cardinality(Later(fifo')) <= NetBufs
    <3>1. netFree + Cardinality(Later(fifo)) <= NetBufs
      BY DEF PoolInv
    <3> QED
      BY <3>1, <2>1, <1>0, <1>a
  <2>3. UNCHANGED <<ffFree, netFree, err, out>> /\ rough' = TRUE
    BY <1>2 DEF RxRecvNoMem
  <2> QED
    BY <2>2, <2>3 DEF PoolInv
<1>3. ASSUME RxTake \/ RxError \/ RxPublish \/ RxPublishFail PROVE PoolInv'
  <2>1. UNCHANGED <<fifo, ffFree, netFree, out>> /\ (err' = err \/ err' = FALSE)
        /\ (rough' = rough \/ rough' = TRUE)
    BY <1>3 DEF RxTake, RxError, RxPublish, RxPublishFail, stack
  <2>2. err' \in BOOLEAN /\ rough' \in BOOLEAN
    BY <2>1 DEF PoolInv
  <2> QED
    BY <2>1, <2>2 DEF PoolInv
<1> QED
  BY <1>1, <1>2, <1>3 DEF RxThread

\* The subscriber leaves the pools alone, and what it decodes are blocks.
LEMMA PoolSubscriber == ASSUME IInv, PoolInv, Subscriber PROVE PoolInv'
<1>1. UNCHANGED <<stack, rough>>
  BY DEF Subscriber, SubWait, SubDone
<1>2. out' \in Seq(Block)
  <2>1. CASE SubWait
    BY <2>1 DEF SubWait, PoolInv
  <2>2. CASE SubDone
    <3>1. sub = <<ptr>>
      BY <2>2 DEF SubDone, IInv, HandInv
    <3>2. sub[1] = ptr
      BY <3>1, OnePointer
    <3>3. out' = IF ptr = None THEN out ELSE text[ptr]
      BY <2>2, <3>2 DEF SubDone
    <3>4. ptr \in Bufs \cup {None} /\ text \in [Bufs -> Seq(Block)] /\ out \in Seq(Block)
      BY DEF IInv, Types, PoolInv
    <3> QED
      BY <3>3, <3>4
  <2> QED
    BY <2>1, <2>2 DEF Subscriber
<1> QED
  BY <1>1, <1>2 DEF stack, PoolInv

\* Every variable keeps its type; no pool of network buffers ever gets back more than it
\* had (net_buf_unref in isotp_rx_thread), and none is handed out that is not there.
THEOREM TypeCorrect == Spec => []TypeOK
<1>1. IInv /\ PoolInv /\ [Next]_vars => PoolInv'
  <2>1. IInv /\ PoolInv /\ UNCHANGED vars => PoolInv'
    BY DEF vars, stack, PoolInv
  <2> QED
    BY <2>1, PoolTester, PoolReceiver, PoolSubscriber DEF Next
<1>2. IInv /\ PoolInv => TypeOK
  <2> SUFFICES ASSUME IInv, PoolInv PROVE TypeOK
    OBVIOUS
  <2>1. netFree \in 0..NetBufs
    <3>1. Cardinality(Later(fifo)) \in Nat /\ NetBufs \in Nat
      BY LaterFinite, RxConstants DEF IInv, Types
    <3> QED
      BY <3>1 DEF PoolInv
  <2>2. queue \in Seq(Bufs \cup {None}) /\ sub \in Seq(Bufs \cup {None})
    <3>1. ptr \in Bufs \cup {None}
      BY DEF IInv, Types
    <3>2. <<ptr>> \in Seq(Bufs \cup {None}) /\ <<>> \in Seq(Bufs \cup {None})
      BY <3>1
    <3> QED
      BY <3>2 DEF IInv, HandInv
  <2> QED
    BY <2>1, <2>2 DEF IInv, Types, PoolInv, TypeOK
<1> QED
  BY ReceiveInvariant, PoolInit, <1>1, <1>2, PTL DEF Spec
=============================================================================

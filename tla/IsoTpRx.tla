------------------------------- MODULE IsoTpRx -------------------------------
(***************************************************************************)
(* The messages from the CAN bus: isotp_rx_thread (src/canbus_isotp.c)      *)
(* collects a message block by block into a heap buffer and publishes the   *)
(* pointer; can_rx_ble_subscriber_task (src/gopro_protobuf.c) decodes it.   *)
(* can_isotp_rx_sem hands the buffer over: the receiver frees the last      *)
(* message only after the subscriber has given the semaphore.               *)
(*                                                                         *)
(* The ISO-TP stack is external.  It delivers the blocks of a message as    *)
(* network buffers, the first one from a pool of a single buffer            *)
(* (CONFIG_ISOTP_RX_SF_FF_BUF_COUNT), and reports an aborted message only   *)
(* to a thread that waits for a block.                                      *)
(***************************************************************************)
EXTENDS Naturals, Sequences

CONSTANTS
  Bufs,       \* heap blocks
  MaxMsgs,    \* bound: messages the tester sends
  MaxBlocks,  \* bound: blocks of a message
  NetBufs,    \* network buffers for the blocks after the first
  None,       \* no buffer
  Faults      \* the failures the environment may show

FaultKinds == {"nomem",    \* k_malloc returns NULL
               "pub",      \* zbus_chan_pub fails
               "abort"}    \* the tester stops in the middle of a message

Block == [m : 1..MaxMsgs, k : 1..MaxBlocks, n : 1..MaxBlocks]

ASSUME RxConstants ==
  /\ MaxMsgs \in Nat /\ MaxBlocks \in Nat \ {0} /\ NetBufs \in Nat \ {0}
  /\ None \notin Bufs /\ None \notin Seq(Block)
  /\ Faults \subseteq FaultKinds

VARIABLES
  wire,     \* what the tester sends: block k of n of message m was the last one
  fifo,     \* the blocks the stack holds for isotp_recv_net
  ffFree,   \* the buffer for first frames is in its pool
  netFree,  \* network buffers in the other pool
  err,      \* the stack has an error for the waiting thread
  sem,      \* count of can_isotp_rx_sem
  rx,       \* where isotp_rx_thread stands
  ptr,      \* mem_pkt.data of isotp_rx_thread
  heap,     \* per heap block: "free" or "live"
  text,     \* per heap block: the blocks copied into it
  queue,    \* can_rx_ble_subscriber: the published pointers
  sub,      \* the message the subscriber works on: <<>> or <<pointer>>
  out,      \* the message decoded last
  rough     \* history: something has failed since boot

stack  == <<wire, fifo, ffFree, netFree, err>>
thread == <<rx, ptr>>
memory == <<heap, text>>
vars   == <<stack, sem, thread, memory, queue, sub, out, rough>>

TypeOK ==
  /\ wire \in [m : 0..MaxMsgs, k : 0..MaxBlocks, n : 0..MaxBlocks]
  /\ fifo \in Seq(Block)
  /\ ffFree \in BOOLEAN /\ netFree \in 0..NetBufs /\ err \in BOOLEAN
  /\ sem \in {0, 1}
  /\ rx \in {"take", "recv", "pub", "dead"}
  /\ ptr \in Bufs \cup {None}
  /\ heap \in [Bufs -> {"free", "live"}]
  /\ text \in [Bufs -> Seq(Block)]
  /\ queue \in Seq(Bufs \cup {None}) /\ sub \in Seq(Bufs \cup {None})
  /\ out \in Seq(Block)
  /\ rough \in BOOLEAN

\* canbus_isotp_init; the thread has bound its receive context.
Init ==
  /\ wire = [m |-> 0, k |-> 0, n |-> 0]
  /\ fifo = <<>> /\ ffFree = TRUE /\ netFree = NetBufs /\ err = FALSE
  /\ sem = 1
  /\ rx = "take" /\ ptr = None
  /\ heap = [b \in Bufs |-> "free"] /\ text = [b \in Bufs |-> <<>>]
  /\ queue = <<>> /\ sub = <<>> /\ out = <<>>
  /\ rough = FALSE

-----------------------------------------------------------------------------
(* The tester and the ISO-TP stack *)

Rest == wire.n - wire.k

\* A single or first frame; without a buffer for it the stack drops the message.
FirstFrame(n) ==
  /\ Rest = 0 /\ wire.m < MaxMsgs
  /\ ffFree
  /\ LET b == [m |-> wire.m + 1, k |-> 1, n |-> n]
     IN  wire' = b /\ fifo' = Append(fifo, b)
  /\ ffFree' = FALSE
  /\ UNCHANGED <<netFree, err, sem, thread, memory, queue, sub, out, rough>>

\* A block of consecutive frames; flow control holds the tester until there is room.
NextBlock ==
  /\ Rest > 0
  /\ netFree > 0
  /\ wire' = [wire EXCEPT !.k = @ + 1]
  /\ fifo' = Append(fifo, wire')
  /\ netFree' = netFree - 1
  /\ UNCHANGED <<ffFree, err, sem, thread, memory, queue, sub, out, rough>>

\* The tester falls silent: the error reaches the thread if it waits for a block.
Abort ==
  /\ "abort" \in Faults
  /\ Rest > 0
  /\ wire' = [wire EXCEPT !.n = wire.k]
  /\ err' = (err \/ (rx = "recv" /\ fifo = <<>>))
  /\ rough' = TRUE
  /\ UNCHANGED <<fifo, ffFree, netFree, sem, thread, memory, queue, sub, out>>

-----------------------------------------------------------------------------
(* isotp_rx_thread *)

FreeLast == IF ptr = None THEN heap ELSE [heap EXCEPT ![ptr] = "free"]

RxTakeUnchecked ==
  /\ rx = "take"
  /\ sem' = 0
  /\ heap' = FreeLast
  /\ ptr' = None
  /\ rx' = "recv"
  /\ UNCHANGED <<stack, text, queue, sub, out, rough>>

\* k_sem_take, repeated until it succeeds; free the last message.
RxTake ==
  /\ rx = "take"
  /\ sem = 1
  /\ sem' = 0
  /\ heap' = FreeLast
  /\ ptr' = None
  /\ rx' = "recv"
  /\ UNCHANGED <<stack, text, queue, sub, out, rough>>

ReleaseToOnePool(b) == netFree' = netFree + 1 /\ UNCHANGED ffFree

\* The network buffer of a block that was copied goes back to its pool.
ReleaseNetBuf(b) ==
  IF b.k = 1 THEN ffFree' = TRUE /\ UNCHANGED netFree
             ELSE netFree' = netFree + 1 /\ UNCHANGED ffFree

AfterBlockFirst(b) == "pub"
\* rem_len says whether more is to come.
AfterBlock(b) == IF b.k = b.n THEN "pub" ELSE "recv"

\* isotp_recv_net returns a block; while there is no buffer, k_malloc is tried.
RxRecv ==
  /\ rx = "recv" /\ ~err
  /\ fifo # <<>>
  /\ fifo' = Tail(fifo)
  /\ \/ /\ ptr # None
        /\ text' = [text EXCEPT ![ptr] = Append(@, Head(fifo))]
        /\ UNCHANGED <<ptr, heap>>
     \/ /\ ptr = None
        /\ \E b \in Bufs :
             /\ heap[b] = "free"
             /\ heap' = [heap EXCEPT ![b] = "live"]
             /\ text' = [text EXCEPT ![b] = <<Head(fifo)>>]
             /\ ptr' = b
  /\ ReleaseNetBuf(Head(fifo))
  /\ rx' = AfterBlock(Head(fifo))
  /\ UNCHANGED <<wire, err, sem, queue, sub, out, rough>>

\* No memory: the block is skipped and its network buffer is never released.
RxRecvNoMem ==
  /\ rx = "recv" /\ ~err
  /\ fifo # <<>>
  /\ ptr = None
  /\ "nomem" \in Faults
  /\ fifo' = Tail(fifo)
  /\ rx' = AfterBlock(Head(fifo))
  /\ rough' = TRUE
  /\ UNCHANGED <<wire, ffFree, netFree, err, sem, ptr, memory, queue, sub, out>>

\* A receive error: give the semaphore, and the break leaves the thread's loop.  Before
\* that, without a buffer, one is allocated and cleared if the length of the block that
\* did not come, read through the pointer the block before it has left, is a size the
\* heap can give.
RxError ==
  /\ rx = "recv" /\ err
  /\ err' = FALSE
  /\ sem' = 1
  /\ rx' = "dead"
  /\ \/ UNCHANGED <<ptr, memory>>
     \/ \E b \in Bufs :
          /\ ptr = None /\ heap[b] = "free"
          /\ ptr' = b
          /\ heap' = [heap EXCEPT ![b] = "live"]
          /\ text' = [text EXCEPT ![b] = <<>>]
  /\ UNCHANGED <<wire, fifo, ffFree, netFree, queue, sub, out, rough>>

RxPublish ==
  /\ rx = "pub"
  /\ queue' = Append(queue, ptr)
  /\ rx' = "take"
  /\ UNCHANGED <<stack, sem, ptr, memory, sub, out, rough>>

\* The channel refuses the message: as after a receive error.
RxPublishFail ==
  /\ rx = "pub"
  /\ "pub" \in Faults
  /\ sem' = 1
  /\ rx' = "dead"
  /\ rough' = TRUE
  /\ UNCHANGED <<stack, ptr, memory, queue, sub, out>>

-----------------------------------------------------------------------------
(* can_rx_ble_subscriber_task *)

SubWaitGives ==
  /\ sub = <<>> /\ queue # <<>>
  /\ sub' = <<Head(queue)>>
  /\ queue' = Tail(queue)
  /\ sem' = 1
  /\ UNCHANGED <<stack, thread, memory, out, rough>>

SubWait ==
  /\ sub = <<>> /\ queue # <<>>
  /\ sub' = <<Head(queue)>>
  /\ queue' = Tail(queue)
  /\ UNCHANGED <<stack, sem, thread, memory, out, rough>>

SubGiveNot == UNCHANGED sem
\* k_sem_give whatever the decoding said.
SubGive == sem' = 1

\* Decode and act.  An empty message decodes to no data: the data of the message
\* before, still in ble_data_buff, is used again.
SubDone ==
  /\ sub # <<>>
  /\ out' = IF sub[1] = None THEN out ELSE text[sub[1]]
  /\ SubGive
  /\ sub' = <<>>
  /\ UNCHANGED <<stack, thread, memory, queue, rough>>

-----------------------------------------------------------------------------
Tester == (\E n \in 1..MaxBlocks : FirstFrame(n)) \/ NextBlock \/ Abort
RxThread == RxTake \/ RxRecv \/ RxRecvNoMem \/ RxError \/ RxPublish \/ RxPublishFail
Subscriber == SubWait \/ SubDone

Next == Tester \/ RxThread \/ Subscriber

Spec == Init /\ [][Next]_vars

\* Both threads run when they can; the tester owes nothing.
Fairness == WF_vars(RxThread) /\ WF_vars(Subscriber)

FairSpec == Spec /\ Fairness

-----------------------------------------------------------------------------
(* Properties *)

\* The subscriber reads a block of the heap only while it is live and nobody writes
\* to it: the receiver keeps its hands off until can_isotp_rx_sem comes back.
Message == IF ptr = None THEN <<>> ELSE text[ptr]
HandedOver == queue # <<>> \/ sub # <<>>
SubscriberReadsAlone ==
  HandedOver =>
    /\ rx \in {"take", "dead"}
    /\ sem = 0
    /\ ptr # None => heap[ptr] = "live"
    /\ queue \o sub = <<ptr>>

\* As long as nothing has failed, what is handed over is one whole message, its
\* blocks in the order they were sent.
WholeMessages ==
  ~rough /\ HandedOver =>
    \E m \in 1..MaxMsgs, n \in 1..MaxBlocks :
      Message = [k \in 1..n |-> [m |-> m, k |-> k, n |-> n]]

\* isotp_rx_thread and the subscriber are a one-slot hand-over: one message at a
\* time, out as it was put in.
Slot == INSTANCE OneSlot
          WITH Item <- Seq(Block), Empty <- None,
               slot <- IF HandedOver THEN Message ELSE None,
               out <- IF out = <<>> THEN None ELSE out
SlotSpec == Slot!Spec

\* As long as nothing fails, every message the tester completes is decoded: the
\* semaphore and the network buffers come back for the next one.
MessageGetsThrough ==
  \A m \in 1..MaxMsgs :
    (wire.m = m /\ Rest = 0) ~> (rough \/ (out # <<>> /\ out[1].m >= m))
=============================================================================

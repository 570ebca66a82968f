------------------------------ MODULE CanReply ------------------------------
(***************************************************************************)
(* The replies to the CAN bus: can_reply (src/gopro_protobuf.c), called by  *)
(* any thread that has bytes for the bus, and isotp_tx_thread with its      *)
(* completion callback (src/canbus_isotp.c).  A reply travels as a pointer  *)
(* to a heap buffer; can_reply_sem allows one reply at a time, from the call *)
(* until the ISO-TP stack has sent the last frame.                          *)
(*                                                                         *)
(* The callers (the Bluetooth receive thread, the command thread) preempt   *)
(* each other and isotp_tx_thread, so can_reply is cut wherever it touches  *)
(* the semaphore, the heap or the channel.                                  *)
(***************************************************************************)
EXTENDS Naturals, Sequences

CONSTANTS
  Callers,   \* the threads that call can_reply
  Replies,   \* what they have to say
  Bufs,      \* heap blocks that fit a reply
  None,      \* no buffer, no reply
  Junk,      \* what another user of the heap leaves in a block
  Faults     \* the calls that may fail

FaultKinds == {"nomem",    \* k_malloc returns NULL
               "encode",   \* pb_encode fails
               "pub",      \* zbus_chan_pub fails
               "isotp"}    \* isotp_send refuses the message

ASSUME ReplyConstants ==
  /\ None \notin Replies \cup Bufs \cup {Junk}
  /\ Junk \notin Replies
  /\ Faults \subseteq FaultKinds

VARIABLES
  sem,      \* count of can_reply_sem
  pc,       \* per caller: where it stands in can_reply
  arg,      \* per caller: the reply it was called with
  ptr,      \* per caller: mem_pkt.data
  heap,     \* per block: "free" or "live"
  text,     \* per block: what is written in it
  queue,    \* can_tx_ble_subscriber: the published pointers
  cur,      \* the pointer isotp_tx_thread has taken from it
  sending,  \* the pointer in send_ctx while the stack sends
  held,     \* history: the reply can_reply_sem was last taken for
  leaked,   \* history: can_reply_sem was lost with a reply
  out       \* the last reply sent on the bus

callers == <<pc, arg, ptr>>
memory  == <<heap, text>>
thread  == <<queue, cur, sending>>
vars    == <<sem, callers, memory, thread, held, leaked, out>>

TypeOK ==
  /\ sem \in {0, 1}
  /\ pc \in [Callers -> {"idle", "want", "alloc", "pub"}]
  /\ arg \in [Callers -> Replies \cup {None}]
  /\ ptr \in [Callers -> Bufs \cup {None}]
  /\ heap \in [Bufs -> {"free", "live"}]
  /\ text \in [Bufs -> Replies \cup {Junk}]
  /\ queue \in Seq(Bufs)
  /\ cur \in Bufs \cup {None} /\ sending \in Bufs \cup {None}
  /\ leaked \in BOOLEAN
  /\ held \in Replies \cup {None} /\ out \in Replies \cup {None}

Init ==
  /\ sem = 1
  /\ pc = [c \in Callers |-> "idle"]
  /\ arg = [c \in Callers |-> None] /\ ptr = [c \in Callers |-> None]
  /\ heap = [b \in Bufs |-> "free"] /\ text = [b \in Bufs |-> Junk]
  /\ queue = <<>> /\ cur = None /\ sending = None
  /\ held = None /\ leaked = FALSE /\ out = None

-----------------------------------------------------------------------------
(* can_reply *)

\* A reply that fits WORK_BUFF_SIZE; a longer one is refused at once.
Call(c, r) ==
  /\ pc[c] = "idle"
  /\ pc' = [pc EXCEPT ![c] = "want"]
  /\ arg' = [arg EXCEPT ![c] = r]
  /\ UNCHANGED <<sem, ptr, memory, thread, held, leaked, out>>

TakeReplySemUnchecked == sem' = sem - 1
TakeReplySem == sem = 1 /\ sem' = sem - 1

Take(c) ==
  /\ pc[c] = "want"
  /\ TakeReplySem
  /\ pc' = [pc EXCEPT ![c] = "alloc"]
  /\ held' = arg[c]
  /\ UNCHANGED <<arg, ptr, memory, thread, leaked, out>>

\* The semaphore did not come within 10 ms: -EINVAL, the reply is lost.
Refuse(c) ==
  /\ pc[c] = "want"
  /\ sem = 0
  /\ pc' = [pc EXCEPT ![c] = "idle"]
  /\ UNCHANGED <<sem, arg, ptr, memory, thread, held, leaked, out>>

\* k_malloc and the encoding of the reply into the block.
Alloc(c) ==
  /\ pc[c] = "alloc"
  /\ \E b \in Bufs :
       /\ heap[b] = "free"
       /\ heap' = [heap EXCEPT ![b] = "live"]
       /\ text' = [text EXCEPT ![b] = arg[c]]
       /\ ptr' = [ptr EXCEPT ![c] = b]
  /\ pc' = [pc EXCEPT ![c] = "pub"]
  /\ UNCHANGED <<sem, arg, thread, held, leaked, out>>

\* The encoding fails: free the block, give the semaphore back.
EncodeFail(c) ==
  /\ pc[c] = "alloc"
  /\ "encode" \in Faults
  /\ sem' = 1
  /\ pc' = [pc EXCEPT ![c] = "idle"]
  /\ UNCHANGED <<arg, ptr, memory, thread, held, leaked, out>>

\* No memory: -ENOMEM, and the semaphore stays taken.
AllocFail(c) ==
  /\ pc[c] = "alloc"
  /\ "nomem" \in Faults
  /\ pc' = [pc EXCEPT ![c] = "idle"]
  /\ leaked' = TRUE
  /\ UNCHANGED <<sem, arg, ptr, memory, thread, held, out>>

GiveAfterPub == sem' = 1
KeepAfterPub == UNCHANGED sem

Publish(c) ==
  /\ pc[c] = "pub"
  /\ queue' = Append(queue, ptr[c])
  /\ KeepAfterPub
  /\ pc' = [pc EXCEPT ![c] = "idle"]
  /\ ptr' = [ptr EXCEPT ![c] = None]
  /\ UNCHANGED <<arg, memory, cur, sending, held, leaked, out>>

PublishFailKeeps(c) ==
  /\ pc[c] = "pub"
  /\ "pub" \in Faults
  /\ heap' = [heap EXCEPT ![ptr[c]] = "free"]
  /\ pc' = [pc EXCEPT ![c] = "idle"]
  /\ ptr' = [ptr EXCEPT ![c] = None]
  /\ UNCHANGED <<sem, arg, text, thread, held, leaked, out>>

PublishFail(c) ==
  /\ pc[c] = "pub"
  /\ "pub" \in Faults
  /\ heap' = [heap EXCEPT ![ptr[c]] = "free"]
  /\ sem' = 1
  /\ pc' = [pc EXCEPT ![c] = "idle"]
  /\ ptr' = [ptr EXCEPT ![c] = None]
  /\ UNCHANGED <<arg, text, thread, held, leaked, out>>

-----------------------------------------------------------------------------
(* isotp_tx_thread and the ISO-TP stack *)

TxWait ==
  /\ cur = None /\ queue # <<>>
  /\ cur' = Head(queue)
  /\ queue' = Tail(queue)
  /\ UNCHANGED <<sem, callers, memory, sending, held, leaked, out>>

IsoSendFrees ==
  /\ cur # None
  /\ sending' = cur
  /\ heap' = [heap EXCEPT ![cur] = "free"]
  /\ cur' = None
  /\ UNCHANGED <<sem, callers, text, queue, held, leaked, out>>

\* isotp_send keeps the pointer and sends frame by frame from the block.
IsoSend ==
  /\ cur # None
  /\ sending' = cur
  /\ cur' = None
  /\ UNCHANGED <<sem, callers, memory, queue, held, leaked, out>>

\* isotp_send returns an error: the callback will not come, and the thread only logs.
IsoSendFail ==
  /\ cur # None
  /\ "isotp" \in Faults
  /\ cur' = None
  /\ leaked' = TRUE
  /\ UNCHANGED <<sem, callers, memory, queue, sending, held, out>>

\* isotpsend_callback, after the last frame or after a failure on the bus.
SendCallback ==
  /\ sending # None
  /\ \/ out' = text[sending]
     \/ UNCHANGED out
  /\ heap' = [heap EXCEPT ![sending] = "free"]
  /\ sem' = 1
  /\ sending' = None
  /\ UNCHANGED <<callers, text, queue, cur, held, leaked>>

\* The rest of the program uses the heap too: a free block keeps nothing.
HeapReuse(b) ==
  /\ heap[b] = "free"
  /\ text' = [text EXCEPT ![b] = Junk]
  /\ UNCHANGED <<sem, callers, heap, thread, held, leaked, out>>

-----------------------------------------------------------------------------
Reply(c) == \/ Take(c) \/ Refuse(c) \/ Alloc(c) \/ EncodeFail(c) \/ AllocFail(c)
            \/ Publish(c) \/ PublishFail(c)
IsoTx == TxWait \/ IsoSend \/ IsoSendFail

Next == \/ \E c \in Callers : (\E r \in Replies : Call(c, r)) \/ Reply(c)
        \/ IsoTx \/ SendCallback
        \/ \E b \in Bufs : HeapReuse(b)

Spec == Init /\ [][Next]_vars

\* Threads run when they can, and the stack ends every transmission it accepted.
Fairness ==
  /\ \A c \in Callers : WF_vars(Reply(c))
  /\ WF_vars(IsoTx)
  /\ WF_vars(SendCallback)

FairSpec == Spec /\ Fairness

-----------------------------------------------------------------------------
(* Properties *)

\* The pointers in play: where a thread, the channel or the stack still uses a block.
InUse == {ptr[c] : c \in Callers} \cup {queue[i] : i \in 1..Len(queue)} \cup {cur, sending}

\* No block is freed while somebody still holds its pointer: k_free in can_reply and
\* in isotpsend_callback releases a block nobody else can reach.
NoUseAfterFree == \A b \in InUse \ {None} : heap[b] = "live"

\* The stack sends from the block until its callback, and send_ctx is one static: no
\* second reply gets near it while one is being sent.
SendAlone ==
  sending # None =>
    queue = <<>> /\ cur = None /\ \A c \in Callers : pc[c] \notin {"alloc", "pub"}

\* Reply by reply, what can_reply accepted comes out on the bus unchanged, at most
\* once, and before the next one is accepted.
Port == INSTANCE OneSlot
          WITH Item <- Replies, Empty <- None,
               slot <- IF sem = 1 THEN None ELSE held, out <- out
PortSpec == Port!Spec

\* The reply path is free again after every reply, failed ones included, unless the
\* heap or the stack's resources ran out under a reply (can_reply, isotp_tx_thread).
ReplyPathFreed == sem = 0 ~> (sem = 1 \/ leaked)
=============================================================================

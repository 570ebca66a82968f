-------------------------- MODULE Commands_proofs --------------------------
(***************************************************************************)
(* The commands to the camera (Commands), for every number of publishers,    *)
(* characteristics, messages and frames and every set of failures.  First    *)
(* the writes: a pending flag is up exactly while a write is out, no two     *)
(* writes share parameters, and until an answer is late writes and tokens    *)
(* keep in step.  The invariant adds why on_sent_data finds its own          *)
(* characteristic: a handle that was written names one place in one camera's *)
(* table (ParamInv); and that the task, between the flag and the call, has   *)
(* no write out on its handle (WriteAlone).  Then the frames: those of a      *)
(* message are in order from the camera over the writes, the task and the    *)
(* queue to the publisher, and as long as none of them was lost, they are    *)
(* all there (StreamInv).                                                    *)
(***************************************************************************)
EXTENDS Commands, TLAPS

Out(h) == \E i \in 1..Len(att) : att[i].h = h
Writing(h) == task = "write" /\ cur.h = h

\* A characteristic's parameters are those of a write, or were never filled.
ParamInv ==
  /\ \A h \in Handles : params[h] = 0 \/ \E s \in Shifts : params[h] = Place[h] + s
  /\ \A i \in 1..Len(att) : att[i].h \in Handles /\ params[att[i].h] # 0

\* What the task is about to write is a characteristic with no write out.
WriteAlone ==
  /\ task = "flag" => cur.h # "ctrl"
  /\ task = "write" => cur.h \in Handles /\ ~Out(cur.h)

\* Until an answer is late: nothing is out and no token is there, but for the wait.
InStep ==
  ~slow => \/ att = <<>> /\ wsem = 0
           \/ task = "wait" /\ att = <<>> /\ wsem = 1
           \/ task = "wait" /\ att = <<cur>> /\ wsem = 0

FlagInv == FlagTracksWrite /\ OneWritePerHandle /\ WriteAlone
IInv == TypeOK /\ ParamInv /\ FlagInv /\ InStep

-----------------------------------------------------------------------------
(* Sequences and handles *)

\* The first of a sequence, and what is left without it.
LEMMA TailIs ==
  ASSUME NEW S, NEW q \in Seq(S), q # <<>>
  PROVE  /\ Len(q) \in Nat \ {0} /\ 1 \in 1..Len(q) /\ q[1] \in S
         /\ Tail(q) \in Seq(S) /\ Len(Tail(q)) = Len(q) - 1
         /\ \A i \in 1..Len(Tail(q)) : i + 1 \in 1..Len(q) /\ Tail(q)[i] = q[i + 1]
         /\ Head(q) = q[1]
  OBVIOUS

\* A sequence with one more at its end.
LEMMA AppendIs ==
  ASSUME NEW S, NEW q \in Seq(S), NEW x \in S
  PROVE  /\ Append(q, x) \in Seq(S) /\ Len(Append(q, x)) = Len(q) + 1
         /\ \A i \in 1..Len(q) : i \in 1..(Len(q) + 1) /\ Append(q, x)[i] = q[i]
         /\ Append(q, x)[Len(q) + 1] = x
         /\ Len(q) \in Nat
  OBVIOUS

\* The places are different, and closer than two tables.
LEMMA PlaceIs ==
  ASSUME NEW g \in Handles
  PROVE  /\ Place[g] \in 1..4
         /\ g # "ctrl" /\ g # "bad"
         /\ \A h \in Handles : Place[g] = Place[h] => g = h
  BY CommandConstants DEF Place

\* Two handles in tables of one layout are equal only if they have one place.
LEMMA ShiftsApart ==
  ASSUME NEW p \in 1..4, NEW q \in 1..4, NEW s \in Shifts, NEW t \in Shifts, p + s = q + t
  PROVE  p = q
<1>1. s \in Nat /\ t \in Nat /\ s % 4 = 0 /\ t % 4 = 0
  BY CommandConstants
<1> QED
  BY <1>1

\* on_sent_data finds the characteristic the write was for.
LEMMA FindsItsOwn ==
  ASSUME IInv, NEW g \in Handles, params[g] # 0
  PROVE  FirstMatch(params[g]) = {g}
<1>1. ASSUME NEW h \in Handles, params[h] = params[g] PROVE h = g
  <2>1. PICK s \in Shifts : params[g] = Place[g] + s
    BY DEF IInv, ParamInv
  <2>2. PICK t \in Shifts : params[h] = Place[h] + t
    BY <1>1 DEF IInv, ParamInv
  <2>3. Place[h] = Place[g]
    BY <1>1, <2>1, <2>2, PlaceIs, ShiftsApart
  <2> QED
    BY <2>3, PlaceIs
<1>2. Matches(params[g]) = {g}
  BY <1>1 DEF Matches
<1>3. Place[g] <= Place[g]
  BY PlaceIs
<1> QED
  BY <1>2, <1>3 DEF FirstMatch

\* The initial state satisfies the inductive invariant.
LEMMA InitIInv == Init => IInv
<1> SUFFICES ASSUME Init PROVE IInv
  OBVIOUS
<1>1. TypeOK
  <2>1. \A h \in Handles \cup {"ctrl", "bad"} : NoFrame(h) \in Frame
    BY CommandConstants DEF NoFrame, Frame
  <2>2. cur \in Frame /\ took \in [1..MaxMsgs -> Seq(0..MaxFrames)]
    BY <2>1 DEF Init
  <2>3. sendbuf \in [Publishers -> Seq(Frame)] /\ queue \in Seq(Frame) /\ att \in Seq(Frame)
    BY DEF Init
  <2>4. Len(queue) <= QueueCap /\ begun \in 0..MaxMsgs
    BY CommandConstants DEF Init
  <2>5. flag \in [Handles -> BOOLEAN] /\ params \in [Handles -> Nat]
    BY DEF Init
  <2>6. /\ link \in BOOLEAN /\ connected \in BOOLEAN /\ shift \in Shifts
        /\ task \in {"idle", "flag", "write", "wait"} /\ wsem \in {0, 1}
        /\ slow \in BOOLEAN /\ lost \subseteq 0..MaxMsgs
    BY DEF Init
  <2> QED
    BY <2>2, <2>3, <2>4, <2>5, <2>6 DEF TypeOK
<1>2. att = <<>> /\ Len(att) = 0 /\ task = "idle" /\ wsem = 0
  BY DEF Init
<1>3. ParamInv
  BY <1>2 DEF Init, ParamInv
<1>4. FlagInv /\ InStep
  BY <1>2 DEF Init, FlagInv, FlagTracksWrite, OneWritePerHandle, WriteAlone, InStep
<1> QED
  BY <1>1, <1>3, <1>4 DEF IInv

-----------------------------------------------------------------------------
(* Types *)

\* The frames of a message are frames.
LEMMA FramesAre ==
  ASSUME NEW h \in Handles \cup {"ctrl", "bad"}, NEW m \in 1..MaxMsgs, NEW n \in 1..MaxFrames
  PROVE  FramesOf(h, m, n) \in Seq(Frame)
<1>1. n \in Nat /\ m \in 0..MaxMsgs /\ n \in 0..MaxFrames
  BY CommandConstants
<1>2. ASSUME NEW k \in 1..n PROVE [h |-> h, m |-> m, k |-> k, n |-> n] \in Frame
  <2>1. k \in 0..MaxFrames
    BY <1>1, CommandConstants
  <2> QED
    BY <1>1, <2>1 DEF Frame
<1>3. FramesOf(h, m, n) \in [1..n -> Frame]
  BY <1>2 DEF FramesOf
<1> QED
  BY <1>1, <1>3

\* Lost frames are of messages.
LEMMA LosesTypes ==
  ASSUME lost \subseteq 0..MaxMsgs, NEW F \in SUBSET Frame, Loses(F)
  PROVE  lost' \subseteq 0..MaxMsgs
<1>1. \A f \in F : f.m \in 0..MaxMsgs
  BY DEF Frame
<1>2. {f.m : f \in F} \subseteq 0..MaxMsgs
  BY <1>1
<1> QED
  BY <1>2 DEF Loses

\* Publishing keeps the types.
LEMMA PublisherTypes ==
  ASSUME TypeOK, NEW p \in Publishers,
         \/ Publish(p)
         \/ \E h \in Handles \cup {"ctrl", "bad"}, n \in 1..MaxFrames : Begin(p, h, n)
  PROVE  TypeOK'
<1>1. CASE Publish(p)
  <2>1. sendbuf[p] \in Seq(Frame) /\ sendbuf[p] # <<>>
    BY <1>1 DEF Publish, TypeOK
  <2>2. Tail(sendbuf[p]) \in Seq(Frame) /\ Head(sendbuf[p]) \in Frame
    BY <2>1
  <2>3. sendbuf' \in [Publishers -> Seq(Frame)]
    BY <1>1, <2>2 DEF Publish, TypeOK
  <2>4. queue' \in Seq(Frame) /\ Len(queue') <= QueueCap
    <3>1. CASE queue' = Append(queue, Head(sendbuf[p])) /\ Room
      BY <2>2, <3>1, AppendIs, CommandConstants DEF Room, TypeOK
    <3>2. CASE queue' = queue
      BY <3>2 DEF TypeOK
    <3> QED
      BY <1>1, <3>1, <3>2 DEF Publish, Enqueue
  <2>5. lost' \subseteq 0..MaxMsgs
    BY <1>1, <2>2, LosesTypes DEF Publish, TypeOK
  <2> QED
    BY <1>1, <2>3, <2>4, <2>5 DEF Publish, TypeOK, peer, thread, client
<1>2. ASSUME NEW h \in Handles \cup {"ctrl", "bad"}, NEW n \in 1..MaxFrames, Begin(p, h, n)
      PROVE TypeOK'
  <2>1. begun + 1 \in 1..MaxMsgs /\ begun' = begun + 1
    BY <1>2, CommandConstants DEF Begin, TypeOK
  <2>2. FramesOf(h, begun + 1, n) \in Seq(Frame)
    BY <2>1, FramesAre
  <2>3. sendbuf' \in [Publishers -> Seq(Frame)]
    BY <1>2, <2>2 DEF Begin, TypeOK
  <2>4. begun' \in 0..MaxMsgs
    BY <2>1
  <2> QED
    BY <1>2, <2>3, <2>4 DEF Begin, TypeOK, peer, thread, client, history
<1> QED
  BY <1>1, <1>2

\* A step of the task keeps the types.
LEMMA TaskTypes ==
  ASSUME TypeOK, ParamInv, WriteAlone, Task
  PROVE  TypeOK'
<1>1. CASE TaskGet
  <2>1. /\ Tail(queue) \in Seq(Frame) /\ Head(queue) \in Frame
        /\ Len(Tail(queue)) <= QueueCap
    BY <1>1, TailIs, CommandConstants DEF TaskGet, TypeOK
  <2>2. task' \in {"idle", "flag", "write", "wait"}
    BY <1>1 DEF TaskGet
  <2>3. lost' \subseteq 0..MaxMsgs
    BY <1>1, <2>1, LosesTypes DEF TaskGet, TypeOK
  <2> QED
    BY <1>1, <2>1, <2>2, <2>3 DEF TaskGet, TypeOK, peer, sender, client
<1>2. CASE TaskFlag
  <2>1. task' \in {"idle", "flag", "write", "wait"}
    BY <1>2 DEF TaskFlag, SetFlag
  <2>2. flag' \in [Handles -> BOOLEAN]
    BY <1>2 DEF TaskFlag, SetFlag, TypeOK
  <2>3. lost' \subseteq 0..MaxMsgs
    BY <1>2, LosesTypes DEF TaskFlag, SetFlag, TypeOK
  <2> QED
    BY <1>2, <2>1, <2>2, <2>3 DEF TaskFlag, TypeOK, peer, sender
<1>3. CASE TaskWrite
  <2>1. cur \in Frame /\ cur.h \in Handles
    BY <1>3 DEF TaskWrite, WriteAlone, TypeOK
  <2>2. Place[cur.h] + shift \in Nat
    <3>1. Place[cur.h] \in 1..4
      BY <2>1, PlaceIs
    <3>2. shift \in Nat
      BY CommandConstants DEF TypeOK
    <3> QED
      BY <3>1, <3>2
  <2>3. params' \in [Handles -> Nat]
    BY <1>3, <2>2 DEF TaskWrite, TypeOK
  <2>4. att' \in Seq(Frame)
    <3>1. att \in Seq(Frame) /\ Append(att, cur) \in Seq(Frame)
      BY <2>1, AppendIs DEF TypeOK
    <3>2. att' = att \/ att' = Append(att, cur)
      BY <1>3 DEF TaskWrite
    <3> QED
      BY <3>1, <3>2
  <2>5. flag' \in [Handles -> BOOLEAN]
    BY <1>3 DEF TaskWrite, ClearFlag, TypeOK
  <2>6. lost' \subseteq 0..MaxMsgs
    BY <1>3, LosesTypes DEF TaskWrite, TypeOK
  <2> QED
    BY <1>3, <2>3, <2>4, <2>5, <2>6 DEF TaskWrite, TypeOK, peer, sender
<1>4. CASE TaskTake
  BY <1>4 DEF TaskTake, TakeWriteSem, TypeOK, peer, sender, history
<1>5. CASE TaskTimeout
  <2>1. slow' \in BOOLEAN
    BY <1>5 DEF TaskTimeout, Awaited, TypeOK
  <2> QED
    BY <1>5, <2>1 DEF TaskTimeout, GiveUp, TypeOK, peer, sender, client
<1> QED
  BY <1>1, <1>2, <1>3, <1>4, <1>5 DEF Task

\* The stack and the link keep the types.
LEMMA StackTypes ==
  ASSUME TypeOK, ParamInv, Answer \/ LinkDown \/ LinkUp \/ StateIdle
  PROVE  TypeOK'
<1>1. CASE Answer
  <2>1. att[1] \in Frame /\ att[1].h \in Handles /\ Tail(att) \in Seq(Frame)
    BY <1>1, TailIs DEF Answer, ParamInv, TypeOK
  <2>2. took' \in [1..MaxMsgs -> Seq(0..MaxFrames)]
    <3>1. att[1].k \in 0..MaxFrames
      BY <2>1 DEF Frame
    <3>2. ASSUME NEW m \in 1..MaxMsgs PROVE Append(took[m], att[1].k) \in Seq(0..MaxFrames)
      <4>1. took[m] \in Seq(0..MaxFrames)
        BY DEF TypeOK
      <4> QED
        BY <3>1, <4>1, AppendIs
    <3> QED
      BY <1>1, <3>2 DEF Answer, TypeOK
  <2>3. flag' \in [Handles -> BOOLEAN]
    BY <1>1 DEF Answer, Sent
  <2> QED
    BY <1>1, <2>1, <2>2, <2>3 DEF Answer, TypeOK, peer, sender, thread, history
<1>2. CASE LinkDown
  <2>1. flag' \in [Handles -> BOOLEAN]
    BY <1>2 DEF LinkDown, Sent
  <2>2. att' \in Seq(Frame) /\ wsem' \in {0, 1}
    BY <1>2 DEF LinkDown, TypeOK
  <2>3. lost' \subseteq 0..MaxMsgs
    <3>1. \A i \in 1..Len(att) : att[i] \in Frame
      BY DEF TypeOK
    <3> QED
      BY <1>2, <3>1, LosesTypes DEF LinkDown, TypeOK
  <2> QED
    BY <1>2, <2>1, <2>2, <2>3 DEF LinkDown, TypeOK, sender, thread
<1>3. CASE LinkUp
  BY <1>3 DEF LinkUp, TypeOK, sender, thread, client, history
<1>4. CASE StateIdle
  BY <1>4 DEF StateIdle, TypeOK, sender, thread, client, history
<1> QED
  BY <1>1, <1>2, <1>3, <1>4

-----------------------------------------------------------------------------
(* Flags, parameters and tokens *)

\* Publishers and the state of the link do not touch them.
LEMMA OthersKeep ==
  ASSUME IInv, UNCHANGED <<att, flag, params, task, cur, wsem, slow>>
  PROVE  ParamInv' /\ FlagInv' /\ InStep'
  BY DEF IInv, ParamInv, FlagInv, FlagTracksWrite, OneWritePerHandle, WriteAlone, Out, InStep

\* The next command is looked at; nothing is out between two of them until an answer
\* is late.
LEMMA GetKeeps ==
  ASSUME IInv, TaskGet
  PROVE  ParamInv' /\ FlagInv' /\ InStep'
<1>1. UNCHANGED <<att, flag, params, wsem, slow>> /\ task = "idle"
  BY DEF TaskGet, client
<1>2. task' \in {"idle", "flag"} /\ (task' = "flag" => cur'.h # "ctrl")
  BY DEF TaskGet
<1>3. ParamInv' /\ OneWritePerHandle'
  BY <1>1 DEF IInv, ParamInv, FlagInv, OneWritePerHandle
<1>4. FlagTracksWrite' /\ WriteAlone'
  BY <1>1, <1>2 DEF IInv, FlagInv, FlagTracksWrite, WriteAlone
<1>5. InStep'
  BY <1>1 DEF IInv, InStep
<1> QED
  BY <1>3, <1>4, <1>5 DEF FlagInv

\* The flag is taken only if no write is out on the handle.
LEMMA FlagKeeps ==
  ASSUME IInv, TaskFlag
  PROVE  ParamInv' /\ FlagInv' /\ InStep'
<1>1. UNCHANGED <<att, params, wsem, slow, cur>> /\ task = "flag"
  BY DEF TaskFlag
<1>2. ParamInv' /\ OneWritePerHandle' /\ InStep'
  BY <1>1 DEF IInv, ParamInv, FlagInv, OneWritePerHandle, InStep
<1>3. CASE task' = "wait" /\ flag' = flag
  BY <1>1, <1>2, <1>3 DEF IInv, FlagInv, FlagTracksWrite, WriteAlone
<1>4. CASE /\ cur.h # "bad" /\ ~flag[cur.h]
           /\ flag' = [flag EXCEPT ![cur.h] = TRUE] /\ task' = "write"
  <2>1. cur.h \in Handles
    BY <1>1, <1>4 DEF IInv, FlagInv, WriteAlone, TypeOK, Frame
  <2>2. ~Out(cur.h)
    BY <1>4, <2>1 DEF IInv, FlagInv, FlagTracksWrite, Out
  <2>3. ASSUME NEW h \in Handles PROVE flag'[h] <=> (Out(h) \/ cur.h = h)
    <3>1. flag \in [Handles -> BOOLEAN]
      BY DEF IInv, TypeOK
    <3>2. flag[h] <=> Out(h)
      BY <1>1 DEF IInv, FlagInv, FlagTracksWrite, Out
    <3>3. flag'[h] = (IF h = cur.h THEN TRUE ELSE flag[h])
      BY <1>4, <2>1, <3>1
    <3> QED
      BY <3>2, <3>3
  <2>4. FlagTracksWrite'
    BY <1>1, <1>4, <2>3 DEF FlagTracksWrite, Out
  <2>5. WriteAlone'
    BY <1>1, <1>4, <2>1, <2>2 DEF WriteAlone, Out
  <2> QED
    BY <1>2, <2>4, <2>5 DEF FlagInv
<1> QED
  BY <1>3, <1>4 DEF TaskFlag, SetFlag

\* The write goes out with its own parameters, alone on its handle; a refused one gives
\* the flag back.
LEMMA WriteKeeps ==
  ASSUME IInv, TaskWrite
  PROVE  ParamInv' /\ FlagInv' /\ InStep'
<1>1. UNCHANGED <<wsem, slow, cur>> /\ task = "write" /\ task' = "wait"
  BY DEF TaskWrite
<1>2. cur \in Frame /\ cur.h \in Handles /\ ~Out(cur.h)
  BY <1>1 DEF IInv, TypeOK, FlagInv, WriteAlone
<1>3. att \in Seq(Frame) /\ Len(att) \in Nat
  BY DEF IInv, TypeOK
<1>4. \A h \in Handles : flag[h] <=> (Out(h) \/ cur.h = h)
  BY <1>1 DEF IInv, FlagInv, FlagTracksWrite, Out
<1>5. /\ params' = [params EXCEPT ![cur.h] = Place[cur.h] + shift]
      /\ shift \in Shifts /\ Place[cur.h] + shift # 0
      /\ params \in [Handles -> Nat]
  <2>1. Place[cur.h] \in 1..4
    BY <1>2, PlaceIs
  <2>2. shift \in Shifts /\ shift \in Nat
    BY CommandConstants DEF IInv, TypeOK
  <2> QED
    BY <2>1, <2>2 DEF TaskWrite, IInv, TypeOK
<1>6. /\ \A h \in Handles : params'[h] = 0 \/ \E s \in Shifts : params'[h] = Place[h] + s
      /\ \A h \in Handles : params[h] # 0 => params'[h] # 0
      /\ params'[cur.h] # 0
  <2>1. \A h \in Handles : params'[h] = IF h = cur.h THEN Place[h] + shift ELSE params[h]
    BY <1>2, <1>5
  <2> QED
    BY <1>2, <1>5, <2>1 DEF IInv, ParamInv
<1>7. WriteAlone'
  BY <1>1 DEF WriteAlone
<1>8. CASE att' = att /\ flag' = [flag EXCEPT ![cur.h] = FALSE]
  <2>1. ParamInv'
    BY <1>6, <1>8 DEF IInv, ParamInv
  <2>2. ASSUME NEW h \in Handles PROVE flag'[h] <=> Out(h)
    <3>1. flag \in [Handles -> BOOLEAN]
      BY DEF IInv, TypeOK
    <3>2. flag'[h] = (IF h = cur.h THEN FALSE ELSE flag[h])
      BY <1>2, <1>8, <3>1
    <3> QED
      BY <1>2, <1>4, <3>2
  <2>3. FlagTracksWrite'
    BY <1>1, <1>8, <2>2 DEF FlagTracksWrite, Out
  <2>4. OneWritePerHandle'
    BY <1>8 DEF IInv, FlagInv, OneWritePerHandle
  <2>5. InStep'
    BY <1>1, <1>8 DEF IInv, InStep
  <2> QED
    BY <1>7, <2>1, <2>3, <2>4, <2>5 DEF FlagInv
<1>9. CASE att' = Append(att, cur) /\ flag' = flag
  <2>1. /\ Len(att') = Len(att) + 1 /\ att'[Len(att) + 1] = cur
        /\ \A i \in 1..Len(att) : i \in 1..(Len(att) + 1) /\ att'[i] = att[i]
    BY <1>2, <1>3, <1>9, AppendIs
  <2>2. \A i \in 1..Len(att') : i \in 1..Len(att) \/ i = Len(att) + 1
    BY <1>3, <2>1
  <2>3. ParamInv'
    BY <1>2, <1>6, <2>1, <2>2 DEF IInv, ParamInv
  <2>4. ASSUME NEW h \in Handles PROVE Out(h)' <=> (Out(h) \/ cur.h = h)
    <3>1. Len(att) + 1 \in 1..Len(att')
      BY <1>3, <2>1
    <3> QED
      BY <2>1, <2>2, <3>1 DEF Out
  <2>5. FlagTracksWrite'
    BY <1>1, <1>4, <1>9, <2>4 DEF FlagTracksWrite, Out
  <2>6. OneWritePerHandle'
    BY <1>2, <2>1, <2>2 DEF IInv, FlagInv, OneWritePerHandle, Out
  <2>7. InStep'
    <3> SUFFICES ASSUME ~slow PROVE att' = <<cur>> /\ wsem = 0
      BY <1>1 DEF InStep
    <3>1. att = <<>> /\ wsem = 0
      BY <1>1 DEF IInv, InStep
    <3> QED
      BY <1>9, <3>1
  <2> QED
    BY <1>7, <2>3, <2>5, <2>6, <2>7 DEF FlagInv
<1> QED
  BY <1>8, <1>9 DEF TaskWrite, ClearFlag

\* The end of a wait: with a token, nothing is out; with a timeout, the answer may be
\* late, or there was none to wait for.
LEMMA WaitKeeps ==
  ASSUME IInv, TaskTake \/ TaskTimeout
  PROVE  ParamInv' /\ FlagInv' /\ InStep'
<1>1. UNCHANGED <<att, flag, params, cur>> /\ task = "wait" /\ task' = "idle"
  BY DEF TaskTake, TaskTimeout, GiveUp, client
<1>2. ParamInv' /\ OneWritePerHandle'
  BY <1>1 DEF IInv, ParamInv, FlagInv, OneWritePerHandle
<1>3. FlagTracksWrite' /\ WriteAlone'
  BY <1>1 DEF IInv, FlagInv, FlagTracksWrite, WriteAlone
<1>4. ASSUME TaskTake PROVE InStep'
  <2>1. wsem = 1 /\ wsem' = 0 /\ slow' = slow
    BY <1>4 DEF TaskTake, TakeWriteSem, history
  <2> QED
    BY <1>1, <2>1 DEF IInv, InStep
<1>5. ASSUME TaskTimeout PROVE InStep'
  <2> SUFFICES ASSUME ~slow' PROVE att = <<>> /\ wsem' = 0
    BY <1>1 DEF InStep
  <2>1. ~slow /\ ~Awaited /\ wsem = 0 /\ wsem' = 0
    BY <1>5 DEF TaskTimeout, client
  <2>2. ASSUME att = <<cur>> PROVE FALSE
    <3>1. 1 \in 1..Len(att) /\ att[1] = cur
      BY <2>2
    <3> QED
      BY <2>1, <3>1 DEF Awaited
  <2> QED
    BY <2>1, <2>2 DEF IInv, InStep
<1> QED
  BY <1>2, <1>3, <1>4, <1>5 DEF FlagInv

\* An answer clears the flag of its own characteristic, the only write out on it.
LEMMA AnswerKeeps ==
  ASSUME IInv, Answer
  PROVE  ParamInv' /\ FlagInv' /\ InStep'
<1> DEFINE g == att[1].h
<1>1. UNCHANGED <<params, task, cur, slow>> /\ att' = Tail(att) /\ wsem' = 1 /\ att # <<>>
  BY DEF Answer, thread, history
<1>2. /\ Len(att) \in Nat \ {0} /\ 1 \in 1..Len(att)
      /\ Len(att') = Len(att) - 1
      /\ \A i \in 1..Len(att') : i + 1 \in 1..Len(att) /\ att'[i] = att[i + 1]
  BY <1>1, TailIs DEF IInv, TypeOK
<1>3. \A j \in 1..Len(att) : j = 1 \/ (j - 1 \in 1..Len(att') /\ att'[j - 1] = att[j])
  BY <1>2
<1>4. g \in Handles /\ params[g] # 0
  BY <1>2 DEF IInv, ParamInv
<1>5. flag' = [h \in Handles |-> flag[h] /\ h # g]
  BY <1>4, FindsItsOwn DEF Answer, Sent
<1>6. ASSUME NEW h \in Handles PROVE Out(h)' <=> (Out(h) /\ h # g)
  <2>1. ASSUME Out(h)' PROVE Out(h) /\ h # g
    <3>1. PICK i \in 1..Len(att') : att'[i].h = h
      BY <2>1 DEF Out
    <3>2. i + 1 \in 1..Len(att) /\ att[i + 1].h = h /\ i + 1 # 1
      BY <1>2, <3>1
    <3> QED
      BY <1>2, <3>2 DEF IInv, FlagInv, OneWritePerHandle, Out
  <2>2. ASSUME Out(h), h # g PROVE Out(h)'
    <3>1. PICK j \in 1..Len(att) : att[j].h = h
      BY <2>2 DEF Out
    <3>2. j - 1 \in 1..Len(att') /\ att'[j - 1] = att[j]
      BY <1>3, <2>2, <3>1
    <3> QED
      BY <3>1, <3>2 DEF Out
  <2> QED
    BY <2>1, <2>2
<1>7. Out(g)
  BY <1>2 DEF Out
<1>8. ParamInv'
  BY <1>1, <1>2 DEF IInv, ParamInv
<1>9. FlagTracksWrite'
  <2> SUFFICES ASSUME NEW h \in Handles
               PROVE  flag'[h] <=> (Out(h)' \/ (task' = "write" /\ cur'.h = h))
    BY DEF FlagTracksWrite, Out
  <2>1. flag[h] <=> (Out(h) \/ (task = "write" /\ cur.h = h))
    BY DEF IInv, FlagInv, FlagTracksWrite, Out
  <2>2. task = "write" => cur.h # g
    BY <1>7 DEF IInv, FlagInv, WriteAlone
  <2>3. flag'[h] <=> (flag[h] /\ h # g)
    BY <1>5
  <2> HIDE DEF g
  <2> QED
    BY <1>1, <1>6, <2>1, <2>2, <2>3
<1>10. OneWritePerHandle'
  BY <1>2 DEF IInv, FlagInv, OneWritePerHandle
<1>11. WriteAlone'
  BY <1>1, <1>6 DEF IInv, FlagInv, WriteAlone
<1>12. InStep'
  <2> SUFFICES ASSUME ~slow PROVE task = "wait" /\ Tail(att) = <<>>
    BY <1>1 DEF InStep
  <2>1. task = "wait" /\ att = <<cur>>
    BY <1>1 DEF IInv, InStep
  <2> QED
    BY <2>1
<1> QED
  BY <1>8, <1>9, <1>10, <1>11, <1>12 DEF FlagInv

\* A lost link clears the flags of all the writes that were out, and of no other.
LEMMA LinkDownKeeps ==
  ASSUME IInv, LinkDown
  PROVE  ParamInv' /\ FlagInv' /\ InStep'
<1>1. UNCHANGED <<params, task, cur, slow>> /\ att' = <<>> /\ Len(att') = 0
  BY DEF LinkDown, thread
<1>2. wsem' = IF att = <<>> THEN wsem ELSE 1
  BY DEF LinkDown
<1>3. \A i \in 1..Len(att) : FirstMatch(params[att[i].h]) = {att[i].h}
  BY FindsItsOwn DEF IInv, ParamInv
<1>4. ASSUME NEW h \in Handles
      PROVE  h \in UNION {FirstMatch(params[att[i].h]) : i \in 1..Len(att)} <=> Out(h)
  BY <1>3 DEF Out
<1>5. ASSUME NEW h \in Handles PROVE flag'[h] <=> (flag[h] /\ ~Out(h))
  BY <1>4 DEF LinkDown, Sent
<1>6. ParamInv' /\ OneWritePerHandle'
  BY <1>1 DEF IInv, ParamInv, OneWritePerHandle
<1>7. WriteAlone'
  BY <1>1 DEF IInv, FlagInv, WriteAlone, Out
<1>8. FlagTracksWrite'
  <2> SUFFICES ASSUME NEW h \in Handles PROVE flag'[h] <=> (task = "write" /\ cur.h = h)
    BY <1>1 DEF FlagTracksWrite
  <2>1. flag[h] <=> (Out(h) \/ (task = "write" /\ cur.h = h))
    BY DEF IInv, FlagInv, FlagTracksWrite, Out
  <2>2. task = "write" => ~Out(cur.h)
    BY DEF IInv, FlagInv, WriteAlone
  <2> QED
    BY <1>5, <2>1, <2>2
<1>9. InStep'
  BY <1>1, <1>2 DEF IInv, InStep
<1> QED
  BY <1>6, <1>7, <1>8, <1>9 DEF FlagInv

-----------------------------------------------------------------------------
\* The inductive invariant of the commands: flags, parameters, writes and tokens.
THEOREM CommandInvariant == Spec => []IInv
<1>1. IInv /\ [Next]_vars => IInv'
  <2> SUFFICES ASSUME IInv, [Next]_vars PROVE IInv'
    OBVIOUS
  <2>1. ASSUME NEW p \in Publishers,
               \/ Publish(p)
               \/ \E h \in Handles \cup {"ctrl", "bad"}, n \in 1..MaxFrames : Begin(p, h, n)
        PROVE  IInv'
    <3>1. UNCHANGED <<att, flag, params, task, cur, wsem, slow>>
      BY <2>1 DEF Publish, Begin, thread, client, history
    <3> QED
      BY <2>1, <3>1, OthersKeep, PublisherTypes DEF IInv
  <2>2. CASE Task
    <3>1. TypeOK'
      BY <2>2, TaskTypes DEF IInv, FlagInv
    <3> QED
      BY <2>2, <3>1, GetKeeps, FlagKeeps, WriteKeeps, WaitKeeps DEF Task, IInv
  <2>3. CASE Answer \/ LinkDown \/ LinkUp \/ StateIdle
    <3>1. TypeOK'
      BY <2>3, StackTypes DEF IInv
    <3>2. LinkUp \/ StateIdle => UNCHANGED <<att, flag, params, task, cur, wsem, slow>>
      BY DEF LinkUp, StateIdle, thread, client, history
    <3> QED
      BY <2>3, <3>1, <3>2, AnswerKeeps, LinkDownKeeps, OthersKeep DEF IInv
  <2>4. CASE UNCHANGED vars
    <3>1. UNCHANGED <<att, flag, params, task, cur, wsem, slow>>
      BY <2>4 DEF vars, thread, client, history
    <3>2. TypeOK'
      BY <2>4 DEF vars, peer, sender, thread, client, history, IInv, TypeOK
    <3> QED
      BY <3>1, <3>2, OthersKeep DEF IInv
  <2> QED
    BY <2>1, <2>2, <2>3, <2>4 DEF Next
<1> QED
  BY InitIInv, <1>1, PTL DEF Spec

\* Type correctness of the commands.
THEOREM CommandTypeOK == Spec => []TypeOK
<1>1. IInv => TypeOK
  BY DEF IInv
<1> QED
  BY CommandInvariant, <1>1, PTL

\* A pending flag is up exactly while a write is out on the handle, or about to go out
\* (bt_gopro_client_send, on_sent_data): none is refused for good, none unguarded.
THEOREM FlagsTrackWrites == Spec => []FlagTracksWrite
<1>1. IInv => FlagTracksWrite
  BY DEF IInv, FlagInv
<1> QED
  BY CommandInvariant, <1>1, PTL

\* No two writes the stack has accepted share their parameters.
THEOREM WritesKeepParams == Spec => []OneWritePerHandle
<1>1. IInv => OneWritePerHandle
  BY DEF IInv, FlagInv
<1> QED
  BY CommandInvariant, <1>1, PTL

\* Until an answer comes after its timeout, one write is out at a time and the next
\* command meets no token of an earlier one (gopro_cmd_subscriber_task).
THEOREM WritesInStep == Spec => []Lockstep
<1>1. IInv => Lockstep
  <2> SUFFICES ASSUME IInv, ~slow
               PROVE  Len(att) <= 1 /\ (task # "wait" => att = <<>> /\ wsem = 0)
    BY DEF Lockstep
  <2>1. att = <<>> \/ att = <<cur>>
    BY DEF IInv, InStep
  <2>2. Len(att) <= 1
    <3>1. CASE att = <<>>
      BY <3>1
    <3>2. CASE att = <<cur>>
      BY <3>2
    <3> QED
      BY <2>1, <3>1, <3>2
  <2> QED
    BY <2>2 DEF IInv, InStep
<1> QED
  BY CommandInvariant, <1>1, PTL

-----------------------------------------------------------------------------
(* The frames of a message *)

\* Where a frame may be: accepted by the stack, with the task, in the queue, and with a
\* publisher.
Elements(q) == {q[i] : i \in 1..Len(q)}
Flying == Elements(att)
Taking == IF task \in {"flag", "write"} THEN {cur} ELSE {}
Queued == Elements(queue)
Held(p) == Elements(sendbuf[p])
Kept == UNION {Held(p) : p \in Publishers}
Present == Flying \cup Taking \cup Queued \cup Kept

\* In order: for each message, the frames of S before those of T; and within a queue.
Before(S, T) == \A f \in S, g \in T : f.m = g.m => f.k < g.k
Sorted(q) == \A i, j \in 1..Len(q) : i < j /\ q[i].m = q[j].m => q[i].k < q[j].k

\* The frames stand in the order they will be taken in, each message at one publisher.
OrderInv ==
  /\ Sorted(att) /\ Sorted(queue) /\ \A p \in Publishers : Sorted(sendbuf[p])
  /\ Before(Flying, Taking) /\ Before(Flying, Queued) /\ Before(Flying, Kept)
  /\ Before(Taking, Queued) /\ Before(Taking, Kept) /\ Before(Queued, Kept)
  /\ \A p, q \in Publishers : \A f \in Held(p), g \in Held(q) : f.m = g.m => p = q

\* What the camera took came in order, and is over; the messages are those begun.
TookInv ==
  /\ \A f \in Present : f.m \in 1..begun /\ f.k # 0
  /\ \A m \in 1..MaxMsgs : m > begun => took[m] = <<>>
  /\ \A m \in 1..MaxMsgs : \A i, j \in 1..Len(took[m]) : i < j => took[m][i] < took[m][j]
  /\ \A f \in Present : \A i \in 1..Len(took[f.m]) : took[f.m][i] < f.k

\* Of a message that lost none, what was taken and what is there has no gap.
NoGap(P, m) ==
  \A f \in P : f.m = m =>
    \A k \in 1..MaxFrames : k < f.k => k <= Len(took[m]) \/ \E g \in P : g.m = m /\ g.k = k
WholeInv ==
  \A m \in 1..MaxMsgs : m \notin lost =>
    NoGap(Present, m) /\ \A i \in 1..Len(took[m]) : took[m][i] = i

StreamInv == OrderInv /\ TookInv /\ WholeInv

\* A queue of one frame or more is its first frame and those after it.
LEMMA TailOfSorted ==
  ASSUME NEW q \in Seq(Frame), q # <<>>, Sorted(q)
  PROVE  /\ q[1] \in Frame /\ Head(q) = q[1]
         /\ Elements(q) = {q[1]} \cup Elements(Tail(q))
         /\ Sorted(Tail(q)) /\ Before({q[1]}, Elements(Tail(q)))
<1>1. PICK t : t = Tail(q)
  OBVIOUS
<1>2. /\ Len(q) \in Nat \ {0} /\ Len(t) = Len(q) - 1 /\ 1 \in 1..Len(q)
      /\ \A i \in 1..Len(t) : i + 1 \in 1..Len(q) /\ t[i] = q[i + 1]
      /\ q[1] \in Frame /\ Head(q) = q[1]
  BY <1>1, TailIs
<1>3. ASSUME NEW j \in 1..Len(q), j # 1 PROVE \E i \in 1..Len(t) : t[i] = q[j]
  <2>1. j - 1 \in 1..Len(t) /\ (j - 1) + 1 = j
    BY <1>2, <1>3
  <2> QED
    BY <2>1, <1>2
<1>4. Elements(q) = {q[1]} \cup Elements(t)
  <2>1. \A f \in Elements(q) : f = q[1] \/ f \in Elements(t)
    BY <1>3 DEF Elements
  <2>2. q[1] \in Elements(q) /\ \A f \in Elements(t) : f \in Elements(q)
    BY <1>2 DEF Elements
  <2> QED
    BY <2>1, <2>2
<1>5. Sorted(t)
  <2> SUFFICES ASSUME NEW i \in 1..Len(t), NEW j \in 1..Len(t), i < j, t[i].m = t[j].m
               PROVE  t[i].k < t[j].k
    BY DEF Sorted
  <2>1. i + 1 \in 1..Len(q) /\ j + 1 \in 1..Len(q) /\ i + 1 < j + 1
    BY <1>2
  <2> QED
    BY <2>1, <1>2 DEF Sorted
<1>6. Before({q[1]}, Elements(t))
  <2> SUFFICES ASSUME NEW i \in 1..Len(t), q[1].m = t[i].m PROVE q[1].k < t[i].k
    BY DEF Before, Elements
  <2>1. i + 1 \in 1..Len(q) /\ 1 < i + 1
    BY <1>2
  <2> QED
    BY <2>1, <1>2 DEF Sorted
<1> QED
  BY <1>1, <1>2, <1>4, <1>5, <1>6

\* A frame after all those of its message goes to the end.
LEMMA AppendToSorted ==
  ASSUME NEW q \in Seq(Frame), NEW x \in Frame, Sorted(q), Before(Elements(q), {x})
  PROVE  /\ Elements(Append(q, x)) = Elements(q) \cup {x}
         /\ Sorted(Append(q, x))
<1>1. PICK t : t = Append(q, x)
  OBVIOUS
<1>2. /\ Len(q) \in Nat /\ Len(t) = Len(q) + 1 /\ t[Len(q) + 1] = x
      /\ \A i \in 1..Len(q) : i \in 1..(Len(q) + 1) /\ t[i] = q[i]
  BY <1>1, AppendIs
<1>3. \A j \in 1..Len(t) : j \in 1..Len(q) \/ j = Len(q) + 1
  BY <1>2
<1>4. Len(q) + 1 \in 1..Len(t)
  BY <1>2
<1>5. Elements(t) = Elements(q) \cup {x}
  BY <1>2, <1>3, <1>4 DEF Elements
<1>6. ASSUME NEW i \in 1..Len(t), NEW j \in 1..Len(t), i < j, t[i].m = t[j].m
      PROVE  t[i].k < t[j].k
  <2>1. i \in 1..Len(q)
    BY <1>2, <1>6
  <2>2. CASE j \in 1..Len(q)
    BY <1>2, <1>6, <2>1, <2>2 DEF Sorted
  <2>3. CASE j = Len(q) + 1
    BY <1>2, <1>6, <2>1, <2>3 DEF Before, Elements
  <2> QED
    BY <1>3, <2>2, <2>3
<1>7. Sorted(t)
  BY <1>6 DEF Sorted
<1> QED
  BY <1>1, <1>5, <1>7

\* Frames that go on their way, or are lost, leave no unnoticed gap.
LEMMA LossIsNoticed ==
  ASSUME TookInv, WholeInv, UNCHANGED took, begun' = begun, lost \subseteq lost',
         Present' \subseteq Present,
         \A f \in Present : f \in Present' \/ f.m \in lost'
  PROVE  TookInv' /\ WholeInv'
<1>1. TookInv'
  <2>1. \A f \in Present' : f.m \in 1..begun' /\ f.k # 0
    BY DEF TookInv
  <2>2. \A f \in Present' : \A i \in 1..Len(took'[f.m]) : took'[f.m][i] < f.k
    BY DEF TookInv
  <2>3. UNCHANGED took /\ begun' = begun
    OBVIOUS
  <2> QED
    BY <2>1, <2>2, <2>3 DEF TookInv
<1>2. ASSUME NEW m \in 1..MaxMsgs, m \notin lost'
      PROVE  NoGap(Present, m)' /\ \A i \in 1..Len(took'[m]) : took'[m][i] = i
  <2>1. m \notin lost /\ NoGap(Present, m) /\ \A i \in 1..Len(took[m]) : took[m][i] = i
    BY <1>2 DEF WholeInv
  <2>2. \A f \in Present : f.m = m => f \in Present'
    BY <1>2
  <2> QED
    BY <2>1, <2>2 DEF NoGap
<1>3. WholeInv'
  BY <1>2 DEF WholeInv
<1> QED
  BY <1>1, <1>3

-----------------------------------------------------------------------------
(* The steps of the stream *)

\* At the start there is no frame anywhere.
LEMMA InitStream == Init => StreamInv
<1> SUFFICES ASSUME Init PROVE StreamInv
  OBVIOUS
<1>1. Flying = {} /\ Taking = {} /\ Queued = {} /\ Kept = {} /\ \A p \in Publishers : Held(p) = {}
  <2>1. \A p \in Publishers : sendbuf[p] = <<>>
    BY DEF Init
  <2>2. Elements(<<>>) = {}
    BY DEF Elements
  <2> QED
    BY <2>1, <2>2 DEF Init, Flying, Taking, Queued, Kept, Held
<1>2. Present = {}
  BY <1>1 DEF Present
<1>3. Sorted(<<>>)
  BY DEF Sorted
<1>4. OrderInv
  BY <1>1, <1>3 DEF Init, OrderInv, Before
<1>5. \A m \in 1..MaxMsgs : took[m] = <<>> /\ Len(took[m]) = 0
  BY DEF Init
<1>6. TookInv
  BY <1>2, <1>5 DEF TookInv
<1>7. WholeInv
  BY <1>2, <1>5 DEF WholeInv, NoGap
<1> QED
  BY <1>4, <1>6, <1>7 DEF StreamInv

\* A new message has a number of its own, and all its frames.
LEMMA BeginStream ==
  ASSUME TypeOK, StreamInv, NEW p \in Publishers, NEW h \in Handles \cup {"ctrl", "bad"},
         NEW n \in 1..MaxFrames, Begin(p, h, n)
  PROVE  StreamInv'
<1>1. PICK m : m = begun + 1
  OBVIOUS
<1>2. PICK new : new = FramesOf(h, m, n)
  OBVIOUS
<1>3. /\ m \in 1..MaxMsgs /\ begun \in Nat /\ begun' = m
      /\ sendbuf' = [sendbuf EXCEPT ![p] = new] /\ sendbuf[p] = <<>>
      /\ UNCHANGED <<att, task, cur, queue, took, lost>>
  BY <1>1, <1>2, CommandConstants DEF Begin, TypeOK, thread, client, history
<1>4. n \in Nat /\ Len(new) = n /\ \A k \in 1..n : new[k].m = m /\ new[k].k = k
  BY <1>2, CommandConstants DEF FramesOf
<1>5. \A f \in Elements(new) : f.m = m /\ f.k \in 1..n
  BY <1>4 DEF Elements
<1>6. \A k \in 1..n : \E f \in Elements(new) : f.m = m /\ f.k = k
  BY <1>4 DEF Elements
<1>7. \A q \in Publishers : sendbuf'[q] = IF q = p THEN new ELSE sendbuf[q]
  BY <1>3 DEF TypeOK
<1>8. Held(p) = {} /\ \A q \in Publishers : Held(q)' = IF q = p THEN Elements(new) ELSE Held(q)
  BY <1>3, <1>7 DEF Held, Elements
<1>9. /\ Kept' = Kept \cup Elements(new)
      /\ UNCHANGED <<Flying, Taking, Queued>>
  BY <1>3, <1>8 DEF Kept, Flying, Taking, Queued
<1>10. Present' = Present \cup Elements(new)
  BY <1>9 DEF Present
<1>11. \A f \in Present : f.m # m
  BY <1>1, <1>3 DEF StreamInv, TookInv
<1>12. Sorted(new)
  BY <1>4 DEF Sorted
<1>13. OrderInv'
  <2>1. \A q \in Publishers : Sorted(sendbuf[q])'
    BY <1>7, <1>12 DEF StreamInv, OrderInv
  <2>2. /\ Before(Flying, Elements(new)) /\ Before(Taking, Elements(new))
        /\ Before(Queued, Elements(new))
    BY <1>5, <1>11 DEF Before, Present
  <2>3. Before(Flying, Kept)' /\ Before(Taking, Kept)' /\ Before(Queued, Kept)'
    BY <1>9, <2>2 DEF StreamInv, OrderInv, Before
  <2>4. \A q, r \in Publishers : \A f \in Held(q)', g \in Held(r)' : f.m = g.m => q = r
    <3>1. \A q \in Publishers : \A f \in Held(q) : f.m # m
      BY <1>11 DEF Present, Kept
    <3> QED
      BY <1>5, <1>8, <3>1 DEF StreamInv, OrderInv
  <2> QED
    BY <1>3, <1>9, <2>1, <2>3, <2>4 DEF StreamInv, OrderInv
<1>14. took[m] = <<>> /\ Len(took[m]) = 0
  BY <1>1, <1>3 DEF StreamInv, TookInv
<1>15. TookInv'
  <2>1. \A f \in Present' : f.m \in 1..begun' /\ f.k # 0
    BY <1>1, <1>3, <1>4, <1>5, <1>10 DEF StreamInv, TookInv
  <2>2. \A f \in Present' : \A i \in 1..Len(took[f.m]) : took[f.m][i] < f.k
    BY <1>5, <1>10, <1>14 DEF StreamInv, TookInv
  <2>3. \A l \in 1..MaxMsgs : l > begun' => l > begun
    BY <1>1, <1>3
  <2> QED
    BY <1>3, <2>1, <2>2, <2>3 DEF StreamInv, TookInv
<1>16. WholeInv'
  <2> SUFFICES ASSUME NEW l \in 1..MaxMsgs, l \notin lost
               PROVE  NoGap(Present, l)' /\ \A i \in 1..Len(took[l]) : took[l][i] = i
    BY <1>3 DEF WholeInv
  <2>1. NoGap(Present, l) /\ \A i \in 1..Len(took[l]) : took[l][i] = i
    BY DEF StreamInv, WholeInv
  <2>2. CASE l # m
    BY <1>3, <1>5, <1>10, <2>1, <2>2 DEF NoGap
  <2>3. CASE l = m
    <3>1. \A f \in Present' : f.m = m => f.k \in 1..n
      BY <1>5, <1>10, <1>11
    <3>2. \A k \in 1..MaxFrames, j \in 1..n : k < j => k \in 1..n
      BY <1>4
    <3> QED
      BY <1>3, <1>6, <1>10, <2>1, <2>3, <3>1, <3>2 DEF NoGap
  <2> QED
    BY <2>2, <2>3
<1> QED
  BY <1>13, <1>15, <1>16 DEF StreamInv

\* The next frame of a publisher goes to the end of the queue, or is lost.
LEMMA PublishStream ==
  ASSUME TypeOK, StreamInv, NEW p \in Publishers, Publish(p)
  PROVE  StreamInv'
<1>1. PICK s : s = sendbuf[p]
  OBVIOUS
<1>2. PICK f : f = s[1]
  OBVIOUS
<1>3. PICK t : t = Tail(s)
  OBVIOUS
<1>4. s \in Seq(Frame) /\ s # <<>> /\ Sorted(s)
  BY <1>1 DEF Publish, TypeOK, StreamInv, OrderInv
<1>5. /\ f \in Frame /\ Head(s) = f /\ Elements(s) = {f} \cup Elements(t)
      /\ Sorted(t) /\ Before({f}, Elements(t))
  BY <1>2, <1>3, <1>4, TailOfSorted
<1>6. /\ sendbuf' = [sendbuf EXCEPT ![p] = t]
      /\ \/ queue' = Append(queue, f) /\ lost' = lost
         \/ queue' = queue /\ lost' = lost \cup {f.m}
      /\ UNCHANGED <<att, task, cur, took, begun>>
  BY <1>1, <1>3, <1>5 DEF Publish, Enqueue, Loses, thread, client
<1>7. \A q \in Publishers : sendbuf'[q] = IF q = p THEN t ELSE sendbuf[q]
  BY <1>6 DEF TypeOK
<1>8. /\ Held(p) = {f} \cup Elements(t)
      /\ \A q \in Publishers : Held(q)' = IF q = p THEN Elements(t) ELSE Held(q)
  BY <1>1, <1>5, <1>7 DEF Held
<1>9. /\ \A g \in Kept : g \in Kept' \/ g = f
      /\ Kept' \subseteq Kept /\ f \in Kept
      /\ UNCHANGED <<Flying, Taking>>
  BY <1>6, <1>8 DEF Kept, Flying, Taking
<1>10. Before({f}, Kept')
  <2> SUFFICES ASSUME NEW g \in Kept', f.m = g.m PROVE f.k < g.k
    BY DEF Before
  <2>1. PICK q \in Publishers : g \in Held(q)'
    BY DEF Kept
  <2>2. q = p
    BY <1>8, <2>1 DEF StreamInv, OrderInv
  <2> QED
    BY <1>5, <1>8, <2>1, <2>2 DEF Before
<1>11. /\ Before(Flying, {f}) /\ Before(Taking, {f}) /\ Before(Queued, {f})
  BY <1>9 DEF StreamInv, OrderInv, Before
<1>12. /\ Sorted(queue)' /\ Queued' \subseteq Queued \cup {f}
       /\ \A g \in Queued : g \in Queued'
       /\ f \in Queued' \/ f.m \in lost'
  <2>1. CASE queue' = Append(queue, f)
    <3>1. queue \in Seq(Frame) /\ Sorted(queue) /\ Before(Elements(queue), {f})
      BY <1>11 DEF TypeOK, StreamInv, OrderInv, Queued
    <3> QED
      BY <1>5, <2>1, <3>1, AppendToSorted DEF Queued
  <2>2. CASE queue' = queue /\ f.m \in lost'
    BY <2>2 DEF Queued, StreamInv, OrderInv
  <2> QED
    BY <1>6, <2>1, <2>2
<1>13. OrderInv'
  <2>1. \A q \in Publishers : Sorted(sendbuf[q])'
    BY <1>5, <1>7 DEF StreamInv, OrderInv
  <2>2. Before(Flying, Kept)' /\ Before(Taking, Kept)' /\ Before(Queued, Kept)'
    BY <1>9, <1>10, <1>12 DEF StreamInv, OrderInv, Before
  <2>3. Before(Flying, Queued)' /\ Before(Taking, Queued)'
    BY <1>9, <1>11, <1>12 DEF StreamInv, OrderInv, Before
  <2>4. \A q, r \in Publishers : \A g \in Held(q)', e \in Held(r)' : g.m = e.m => q = r
    BY <1>8 DEF StreamInv, OrderInv
  <2> QED
    BY <1>6, <1>9, <1>12, <2>1, <2>2, <2>3, <2>4 DEF StreamInv, OrderInv
<1>14. Present' \subseteq Present /\ \A g \in Present : g \in Present' \/ g.m \in lost'
  BY <1>9, <1>12 DEF Present
<1>15. lost \subseteq lost' /\ UNCHANGED <<took, begun>>
  BY <1>6
<1> QED
  BY <1>13, <1>14, <1>15, LossIsNoticed DEF StreamInv

\* The task takes the first frame of the queue; a control command ends there.
LEMMA GetStream ==
  ASSUME TypeOK, StreamInv, TaskGet
  PROVE  StreamInv'
<1>1. PICK f : f = queue[1]
  OBVIOUS
<1>2. PICK t : t = Tail(queue)
  OBVIOUS
<1>3. queue \in Seq(Frame) /\ queue # <<>> /\ Sorted(queue) /\ task = "idle"
  BY DEF TaskGet, TypeOK, StreamInv, OrderInv
<1>4. /\ Head(queue) = f /\ Elements(queue) = {f} \cup Elements(t)
      /\ Sorted(t) /\ Before({f}, Elements(t))
  BY <1>1, <1>2, <1>3, TailOfSorted
<1>5. /\ queue' = t /\ cur' = f
      /\ \/ task' = "idle" /\ lost' = lost \cup {f.m}
         \/ task' = "flag" /\ lost' = lost
      /\ UNCHANGED <<att, sendbuf, took, begun>>
  BY <1>2, <1>4 DEF TaskGet, Loses, sender, client
<1>6. /\ Queued = {f} \cup Queued' /\ Taking = {} /\ Taking' \subseteq {f}
      /\ f \in Taking' \/ f.m \in lost'
      /\ UNCHANGED <<Flying, Kept>> /\ \A p \in Publishers : Held(p)' = Held(p)
  BY <1>3, <1>4, <1>5 DEF Queued, Taking, Flying, Kept, Held
<1>7. Before({f}, Queued')
  BY <1>4, <1>5 DEF Queued
<1>8. OrderInv'
  <2>1. Before(Flying, Taking)' /\ Before(Taking, Queued)' /\ Before(Taking, Kept)'
    BY <1>6, <1>7 DEF StreamInv, OrderInv, Before
  <2>2. Before(Flying, Queued)' /\ Before(Flying, Kept)' /\ Before(Queued, Kept)'
    BY <1>6 DEF StreamInv, OrderInv, Before
  <2> QED
    BY <1>4, <1>5, <1>6, <2>1, <2>2 DEF StreamInv, OrderInv
<1>9. Present' \subseteq Present /\ \A g \in Present : g \in Present' \/ g.m \in lost'
  BY <1>6 DEF Present
<1>10. lost \subseteq lost' /\ UNCHANGED <<took, begun>>
  BY <1>5
<1> QED
  BY <1>8, <1>9, <1>10, LossIsNoticed DEF StreamInv

\* The frame keeps its place at the flag, unless the flag refuses it.
LEMMA FlagStream ==
  ASSUME StreamInv, TaskFlag
  PROVE  StreamInv'
<1>1. /\ task = "flag"
      /\ \/ task' = "wait" /\ lost' = lost \cup {cur.m}
         \/ task' = "write" /\ lost' = lost
      /\ UNCHANGED <<att, cur, queue, sendbuf, took, begun>>
  BY DEF TaskFlag, SetFlag, Loses, sender
<1>2. /\ Taking = {cur} /\ Taking' \subseteq {cur}
      /\ cur \in Taking' \/ cur.m \in lost'
      /\ UNCHANGED <<Flying, Queued, Kept>> /\ \A p \in Publishers : Held(p)' = Held(p)
  BY <1>1 DEF Taking, Flying, Queued, Kept, Held
<1>3. OrderInv'
  <2>1. Before(Flying, Taking)' /\ Before(Taking, Queued)' /\ Before(Taking, Kept)'
    BY <1>2 DEF StreamInv, OrderInv, Before
  <2> QED
    BY <1>1, <1>2, <2>1 DEF StreamInv, OrderInv
<1>4. Present' \subseteq Present /\ \A g \in Present : g \in Present' \/ g.m \in lost'
  BY <1>2 DEF Present
<1>5. lost \subseteq lost' /\ UNCHANGED <<took, begun>>
  BY <1>1
<1> QED
  BY <1>3, <1>4, <1>5, LossIsNoticed DEF StreamInv

\* The write goes behind those already out, or is refused.
LEMMA WriteStream ==
  ASSUME TypeOK, StreamInv, TaskWrite
  PROVE  StreamInv'
<1>1. /\ task = "write" /\ task' = "wait"
      /\ \/ att' = Append(att, cur) /\ lost' = lost
         \/ att' = att /\ lost' = lost \cup {cur.m}
      /\ UNCHANGED <<cur, queue, sendbuf, took, begun>>
  BY DEF TaskWrite, Loses, sender
<1>2. /\ Taking = {cur} /\ Taking' = {}
      /\ UNCHANGED <<Queued, Kept>> /\ \A p \in Publishers : Held(p)' = Held(p)
  BY <1>1 DEF Taking, Queued, Kept, Held
<1>3. /\ Sorted(att)' /\ Flying' \subseteq Flying \cup {cur}
      /\ \A g \in Flying : g \in Flying'
      /\ cur \in Flying' \/ cur.m \in lost'
  <2>1. CASE att' = Append(att, cur)
    <3>1. att \in Seq(Frame) /\ cur \in Frame /\ Sorted(att) /\ Before(Elements(att), {cur})
      BY <1>2 DEF TypeOK, StreamInv, OrderInv, Flying
    <3> QED
      BY <2>1, <3>1, AppendToSorted DEF Flying
  <2>2. CASE att' = att /\ cur.m \in lost'
    BY <2>2 DEF Flying, StreamInv, OrderInv
  <2> QED
    BY <1>1, <2>1, <2>2
<1>4. OrderInv'
  <2>1. Before(Flying, Queued)' /\ Before(Flying, Kept)'
    BY <1>2, <1>3 DEF StreamInv, OrderInv, Before
  <2>2. Before(Flying, Taking)' /\ Before(Taking, Queued)' /\ Before(Taking, Kept)'
    BY <1>2 DEF Before
  <2> QED
    BY <1>1, <1>2, <1>3, <2>1, <2>2 DEF StreamInv, OrderInv
<1>5. Present' \subseteq Present /\ \A g \in Present : g \in Present' \/ g.m \in lost'
  BY <1>2, <1>3 DEF Present
<1>6. lost \subseteq lost' /\ UNCHANGED <<took, begun>>
  BY <1>1
<1> QED
  BY <1>4, <1>5, <1>6, LossIsNoticed DEF StreamInv

\* The camera takes the first of all the frames, the next of its message if none was lost.
LEMMA AnswerStream ==
  ASSUME TypeOK, StreamInv, Answer
  PROVE  StreamInv'
<1>1. PICK f : f = att[1]
  OBVIOUS
<1>2. PICK t : t = Tail(att)
  OBVIOUS
<1>3. att \in Seq(Frame) /\ att # <<>> /\ Sorted(att)
  BY DEF Answer, TypeOK, StreamInv, OrderInv
<1>4. /\ f \in Frame /\ Elements(att) = {f} \cup Elements(t)
      /\ Sorted(t) /\ Before({f}, Elements(t))
  BY <1>1, <1>2, <1>3, TailOfSorted
<1>5. /\ att' = t /\ took' = [took EXCEPT ![f.m] = Append(@, f.k)]
      /\ UNCHANGED <<task, cur, queue, sendbuf, lost, begun>>
  BY <1>1, <1>2 DEF Answer, sender, thread, history
<1>6. /\ Flying = {f} \cup Flying'
      /\ UNCHANGED <<Taking, Queued, Kept>> /\ \A p \in Publishers : Held(p)' = Held(p)
  BY <1>4, <1>5 DEF Flying, Taking, Queued, Kept, Held
<1>7. Before({f}, Flying') /\ Before({f}, Taking) /\ Before({f}, Queued) /\ Before({f}, Kept)
  BY <1>4, <1>5, <1>6 DEF Flying, StreamInv, OrderInv, Before
<1>8. Present = {f} \cup Present' /\ Before({f}, Present')
  BY <1>6, <1>7 DEF Present, Before
<1>9. OrderInv'
  <2>1. Before(Flying, Taking)' /\ Before(Flying, Queued)' /\ Before(Flying, Kept)'
    BY <1>6 DEF StreamInv, OrderInv, Before
  <2>2. Before(Taking, Queued)' /\ Before(Taking, Kept)' /\ Before(Queued, Kept)'
    BY <1>6 DEF StreamInv, OrderInv
  <2> QED
    BY <1>4, <1>5, <1>6, <2>1, <2>2 DEF StreamInv, OrderInv
<1>10. begun \in 0..MaxMsgs /\ MaxMsgs \in Nat /\ MaxFrames \in Nat
  BY CommandConstants DEF TypeOK
<1>11. f.m \in 1..begun /\ f.k \in 1..MaxFrames /\ f.m \in 1..MaxMsgs
  <2>1. f.m \in 1..begun /\ f.k # 0
    BY <1>8 DEF StreamInv, TookInv
  <2>2. f.k \in 0..MaxFrames
    BY <1>4 DEF Frame
  <2> QED
    BY <1>10, <2>1, <2>2
<1>12. PICK old : old = took[f.m]
  OBVIOUS
<1>13. PICK more : more = Append(old, f.k)
  OBVIOUS
<1>14. /\ Len(old) \in Nat /\ Len(more) = Len(old) + 1 /\ more[Len(old) + 1] = f.k
       /\ \A i \in 1..Len(old) : more[i] = old[i]
  <2>1. old \in Seq(0..MaxFrames) /\ f.k \in 0..MaxFrames
    BY <1>4, <1>11, <1>12 DEF TypeOK, Frame
  <2> QED
    BY <1>13, <2>1, AppendIs
<1>15. \A m \in 1..MaxMsgs : took'[m] = IF m = f.m THEN more ELSE took[m]
  BY <1>5, <1>12, <1>13 DEF TypeOK
<1>16. \A i \in 1..Len(more) : i \in 1..Len(old) \/ i = Len(old) + 1
  BY <1>14
<1>17. \A i \in 1..Len(old) : old[i] < f.k
  BY <1>8, <1>12 DEF StreamInv, TookInv
<1>18. TookInv'
  <2>1. \A g \in Present' : g.m \in 1..begun' /\ g.k # 0
    BY <1>5, <1>8 DEF StreamInv, TookInv
  <2>2. \A m \in 1..MaxMsgs : m > begun' => took'[m] = <<>>
    BY <1>5, <1>10, <1>11, <1>15 DEF StreamInv, TookInv
  <2>3. ASSUME NEW m \in 1..MaxMsgs
        PROVE  \A i, j \in 1..Len(took'[m]) : i < j => took'[m][i] < took'[m][j]
    <3>1. CASE m # f.m
      BY <1>15, <3>1 DEF StreamInv, TookInv
    <3>2. CASE m = f.m
      <4>1. \A i, j \in 1..Len(old) : i < j => old[i] < old[j]
        BY <1>11, <1>12 DEF StreamInv, TookInv
      <4>2. ASSUME NEW i \in 1..Len(more), NEW j \in 1..Len(more), i < j
            PROVE  more[i] < more[j]
        <5>1. i \in 1..Len(old)
          BY <1>14, <4>2
        <5> QED
          BY <1>14, <1>16, <1>17, <4>1, <4>2, <5>1
      <4> QED
        BY <1>15, <3>2, <4>2
    <3> QED
      BY <3>1, <3>2
  <2>4. ASSUME NEW g \in Present' PROVE \A i \in 1..Len(took'[g.m]) : took'[g.m][i] < g.k
    <3>1. g \in Present /\ g.m \in 1..MaxMsgs
      BY <1>8, <1>10 DEF StreamInv, TookInv
    <3>2. \A i \in 1..Len(took[g.m]) : took[g.m][i] < g.k
      BY <3>1 DEF StreamInv, TookInv
    <3>3. CASE g.m # f.m
      BY <1>15, <3>1, <3>2, <3>3
    <3>4. CASE g.m = f.m
      <4>1. f.k < g.k
        BY <1>8, <3>4 DEF Before
      <4>2. \A i \in 1..Len(old) : old[i] < g.k
        BY <1>12, <3>2, <3>4
      <4> QED
        BY <1>14, <1>15, <1>16, <3>1, <3>4, <4>1, <4>2
    <3> QED
      BY <3>3, <3>4
  <2> QED
    BY <2>1, <2>2, <2>3, <2>4 DEF TookInv
<1>19. WholeInv'
  <2> SUFFICES ASSUME NEW m \in 1..MaxMsgs, m \notin lost
               PROVE  NoGap(Present, m)' /\ \A i \in 1..Len(took'[m]) : took'[m][i] = i
    BY <1>5 DEF WholeInv
  <2>1. NoGap(Present, m) /\ \A i \in 1..Len(took[m]) : took[m][i] = i
    BY DEF StreamInv, WholeInv
  <2>2. CASE m # f.m
    BY <1>8, <1>15, <2>1, <2>2 DEF NoGap
  <2>3. CASE m = f.m
    <3>1. ASSUME NEW k \in 1..MaxFrames, k < f.k PROVE k <= Len(old)
      <4>1. k <= Len(old) \/ \E g \in Present : g.m = f.m /\ g.k = k
        BY <1>8, <1>12, <2>1, <2>3, <3>1 DEF NoGap
      <4>2. ASSUME NEW g \in Present, g.m = f.m, g.k = k PROVE FALSE
        <5>1. g = f \/ f.k < g.k
          BY <1>8, <4>2 DEF Before
        <5> QED
          BY <1>11, <3>1, <4>2, <5>1
      <4> QED
        BY <4>1, <4>2
    <3>2. f.k = Len(old) + 1
      <4>1. f.k <= Len(old) + 1
        <5>1. CASE f.k = 1
          BY <1>14, <5>1
        <5>2. CASE f.k # 1
          <6>1. f.k - 1 \in 1..MaxFrames /\ f.k - 1 < f.k
            BY <1>10, <1>11, <5>2
          <6>2. f.k - 1 <= Len(old)
            BY <3>1, <6>1
          <6> QED
            BY <1>11, <1>14, <6>2
        <5> QED
          BY <5>1, <5>2
      <4>2. Len(old) < f.k
        <5>1. CASE Len(old) = 0
          BY <1>11, <5>1
        <5>2. CASE Len(old) # 0
          <6>1. Len(old) \in 1..Len(old)
            BY <1>14, <5>2
          <6>2. old[Len(old)] = Len(old)
            BY <1>12, <2>1, <2>3, <6>1
          <6> QED
            BY <1>17, <6>1, <6>2
        <5> QED
          BY <5>1, <5>2
      <4> QED
        BY <1>11, <1>14, <4>1, <4>2
    <3>3. \A i \in 1..Len(more) : more[i] = i
      BY <1>12, <1>14, <1>16, <2>1, <2>3, <3>2
    <3>4. ASSUME NEW g \in Present', g.m = m, NEW k \in 1..MaxFrames, k < g.k
          PROVE  k <= Len(more) \/ \E e \in Present' : e.m = m /\ e.k = k
      <4>1. k <= Len(old) \/ \E e \in Present : e.m = m /\ e.k = k
        BY <1>8, <1>12, <2>1, <2>3, <3>4 DEF NoGap
      <4>2. CASE k <= Len(old)
        BY <1>14, <4>2
      <4>3. ASSUME NEW e \in Present, e.m = m, e.k = k
            PROVE  k <= Len(more) \/ \E d \in Present' : d.m = m /\ d.k = k
        BY <1>8, <1>14, <3>2, <4>3
      <4> QED
        BY <4>1, <4>2, <4>3
    <3> QED
      BY <1>11, <1>15, <2>3, <3>3, <3>4 DEF NoGap
  <2> QED
    BY <2>2, <2>3
<1> QED
  BY <1>9, <1>18, <1>19 DEF StreamInv

\* A lost link loses what was out.
LEMMA LinkDownStream ==
  ASSUME StreamInv, LinkDown
  PROVE  StreamInv'
<1>1. /\ att' = <<>> /\ lost' = lost \cup {f.m : f \in Flying}
      /\ UNCHANGED <<task, cur, queue, sendbuf, took, begun>>
  BY DEF LinkDown, Loses, Flying, Elements, sender, thread
<1>2. /\ Flying' = {} /\ Sorted(att)'
      /\ UNCHANGED <<Taking, Queued, Kept>> /\ \A p \in Publishers : Held(p)' = Held(p)
  BY <1>1 DEF Flying, Elements, Sorted, Taking, Queued, Kept, Held
<1>3. OrderInv'
  <2>1. Before(Flying, Taking)' /\ Before(Flying, Queued)' /\ Before(Flying, Kept)'
    BY <1>2 DEF Before
  <2>2. Before(Taking, Queued)' /\ Before(Taking, Kept)' /\ Before(Queued, Kept)'
    BY <1>2 DEF StreamInv, OrderInv
  <2> QED
    BY <1>1, <1>2, <2>1, <2>2 DEF StreamInv, OrderInv
<1>4. Present' \subseteq Present /\ \A g \in Present : g \in Present' \/ g.m \in lost'
  BY <1>1, <1>2 DEF Present
<1>5. lost \subseteq lost' /\ UNCHANGED <<took, begun>>
  BY <1>1
<1> QED
  BY <1>3, <1>4, <1>5, LossIsNoticed DEF StreamInv

\* Everything else leaves the frames where they are.
LEMMA StillStream ==
  ASSUME StreamInv, Taking' = Taking,
         UNCHANGED <<att, queue, sendbuf, took, begun, lost>>
  PROVE  StreamInv'
<1>1. UNCHANGED <<Flying, Queued, Kept>> /\ \A p \in Publishers : Held(p)' = Held(p)
  BY DEF Flying, Queued, Kept, Held
<1>2. OrderInv'
  BY <1>1 DEF StreamInv, OrderInv
<1>3. Present' = Present
  BY <1>1 DEF Present
<1> QED
  BY <1>2, <1>3, LossIsNoticed DEF StreamInv

-----------------------------------------------------------------------------
\* The stream of frames, as an invariant on top of the first: from the camera over the
\* writes, the task and the queue back to the publishers.
THEOREM StreamInvariant == Spec => []StreamInv
<1>1. IInv /\ StreamInv /\ [Next]_vars => StreamInv'
  <2> SUFFICES ASSUME IInv, StreamInv, [Next]_vars PROVE StreamInv'
    OBVIOUS
  <2>1. TypeOK
    BY DEF IInv
  <2>2. ASSUME NEW p \in Publishers,
               \/ Publish(p)
               \/ \E h \in Handles \cup {"ctrl", "bad"}, n \in 1..MaxFrames : Begin(p, h, n)
        PROVE  StreamInv'
    BY <2>1, <2>2, PublishStream, BeginStream
  <2>3. CASE Task
    <3>1. CASE TaskTake \/ TaskTimeout
      <4>1. /\ task = "wait" /\ task' = "idle"
            /\ UNCHANGED <<att, queue, sendbuf, took, begun, lost>>
        BY <3>1 DEF TaskTake, TaskTimeout, GiveUp, client, sender, history
      <4>2. Taking' = Taking
        BY <4>1 DEF Taking
      <4> QED
        BY <4>1, <4>2, StillStream
    <3> QED
      BY <2>1, <2>3, <3>1, GetStream, FlagStream, WriteStream DEF Task
  <2>4. CASE Answer \/ LinkDown
    BY <2>1, <2>4, AnswerStream, LinkDownStream
  <2>5. CASE LinkUp \/ StateIdle \/ UNCHANGED vars
    <3>1. UNCHANGED <<task, cur, att, queue, sendbuf, took, begun, lost>>
      BY <2>5 DEF LinkUp, StateIdle, vars, sender, thread, client, history
    <3>2. Taking' = Taking
      BY <3>1 DEF Taking
    <3> QED
      BY <3>1, <3>2, StillStream
  <2> QED
    BY <2>2, <2>3, <2>4, <2>5 DEF Next
<1> QED
  BY InitStream, CommandInvariant, <1>1, PTL DEF Spec

\* The camera takes the frames of a message in order and none twice, with none left out
\* unless one was lost: whoever else publishes on the characteristic, whatever fails
\* (gopro_send_buf, gopro_cmd_subscriber_task).
THEOREM FramesFollow == Spec => []FramesInOrder
<1>1. StreamInv => FramesInOrder
  BY DEF StreamInv, TookInv, WholeInv, FramesInOrder
<1> QED
  BY StreamInvariant, <1>1, PTL
=============================================================================

--------------------------- MODULE Replies_proofs ---------------------------
(***************************************************************************)
(* The reassembly of replies (Replies), for every number of characteristics  *)
(* and messages, every set of lengths and frame sizes and every set of       *)
(* failures.  The invariant says what the packet holds: in any case the      *)
(* frames of a message that began after the one parsed last (OrderInv); as   *)
(* long as the camera sends one message at a time, what the characteristic   *)
(* that is busy has sent so far (WholeInv), and, if there was memory for it, *)
(* either that or the whole of it has been parsed (DoneInv).                 *)
(***************************************************************************)
EXTENDS Replies, TLAPS

Sources == Chars \cup {"none"}

\* Types, with the fields of gopro_packet.
Types ==
  /\ said \in Seq([src : Chars, len : Lens]) /\ Len(said) <= MaxMsgs
  /\ air \in [Chars -> [id : 0..MaxMsgs, sent : Nat]]
  /\ pkt \in [src : Sources, total : Lens \cup {0}, text : Seq(Unit), live : BOOLEAN]
  /\ pkt.live => pkt.src \in Chars /\ pkt.text # <<>> /\ Len(pkt.text) < pkt.total
  /\ parsed \in [src : Sources, text : Seq(Unit)] /\ parses \in Nat
  /\ mixed \in BOOLEAN /\ starved \in BOOLEAN

\* What a characteristic is sending, or has sent, is a message of its own.
AirInv ==
  \A c \in Chars : air[c].id # 0 =>
    /\ air[c].id \in 1..Len(said)
    /\ said[air[c].id].src = c
    /\ air[c].sent <= said[air[c].id].len

\* The packet under way began after the one parsed last.
OrderInv ==
  /\ pkt.live => pkt.text[1].id <= Len(said)
  /\ parsed.text # <<>> => parsed.text[1].id \in 1..Len(said)
  /\ pkt.live /\ parsed.text # <<>> => parsed.text[1].id < pkt.text[1].id

\* One message at a time: the packet holds what has been sent of it.
WholeInv ==
  ~mixed =>
    /\ \A c, d \in Chars : Busy(c) /\ Busy(d) => c = d
    /\ \A c \in Chars : Busy(c) /\ pkt.live =>
         /\ pkt.src = c /\ pkt.total = said[air[c].id].len
         /\ pkt.text = Units(air[c].id, 0, air[c].sent)

\* With memory, the message begun last is in the packet or has been parsed.
DoneInv ==
  \A c \in Chars :
    ~mixed /\ ~starved /\ air[c].id = Len(said) /\ air[c].id # 0 /\ said[air[c].id].len > 0 =>
      IF Busy(c) THEN pkt.live
                 ELSE ~pkt.live /\ parsed.text # <<>> /\ parsed.text[1].id = air[c].id

IInv == Types /\ AirInv /\ OneBlock /\ OrderInv /\ WholeReplies /\ WholeInv /\ DoneInv

-----------------------------------------------------------------------------
(* Frames *)

LEMMA SmallerIs ==
  ASSUME NEW a \in Nat, NEW b \in Nat
  PROVE  /\ Smaller(a, b) \in Nat /\ Smaller(a, b) <= a
         /\ a > 0 /\ b > 0 => Smaller(a, b) > 0
  BY DEF Smaller

\* The units of a frame.
LEMMA UnitsAre ==
  ASSUME NEW id \in 1..MaxMsgs, NEW from \in Nat, NEW n \in Nat
  PROVE  /\ Units(id, from, n) \in Seq(Unit) /\ Len(Units(id, from, n)) = n
         /\ \A i \in 1..n : Units(id, from, n)[i] = [id |-> id, pos |-> from + i]
         /\ n > 0 => Units(id, from, n) # <<>> /\ Units(id, from, n)[1].id = id
<1>1. \A i \in 1..n : [id |-> id, pos |-> from + i] \in Unit
  BY DEF Unit
<1>2. Units(id, from, n) \in [1..n -> Unit]
  BY <1>1 DEF Units
<1>3. Units(id, from, n) \in Seq(Unit) /\ Len(Units(id, from, n)) = n
  BY <1>2
<1>4. \A i \in 1..n : Units(id, from, n)[i] = [id |-> id, pos |-> from + i]
  BY DEF Units
<1>5. n > 0 => 1 \in 1..n
  OBVIOUS
<1> QED
  BY <1>3, <1>4, <1>5

\* The first units of a message begin with its number.
LEMMA UnitsBegin ==
  ASSUME NEW id \in 1..MaxMsgs, NEW n \in Nat
  PROVE  /\ Len(Units(id, 0, n)) = n
         /\ n > 0 => Units(id, 0, n) # <<>> /\ Units(id, 0, n)[1].id = id
<1>1. 0 \in Nat
  OBVIOUS
<1> QED
  BY <1>1, UnitsAre, Zenon

\* The units from + 1 to from + k of a message, as a sequence of them.
AreUnits(u, id, from, k) ==
  /\ u \in Seq(Unit) /\ Len(u) = k
  /\ \A i \in 1..k : u[i] = [id |-> id, pos |-> from + i]

\* Two sequences of units, one continuing the other, make one.
LEMMA Joined ==
  ASSUME NEW id, NEW s \in Nat, NEW n \in Nat, NEW u, NEW v, NEW w,
         AreUnits(u, id, 0, s), AreUnits(v, id, s, n), AreUnits(w, id, 0, s + n)
  PROVE  u \o v = w
<1>1. u \in Seq(Unit) /\ Len(u) = s /\ v \in Seq(Unit) /\ Len(v) = n
  BY DEF AreUnits
<1>2. w \in Seq(Unit) /\ Len(w) = s + n
  BY DEF AreUnits
<1>3. u \o v \in Seq(Unit) /\ Len(u \o v) = s + n
  BY <1>1
<1>4. ASSUME NEW i \in 1..(s + n) PROVE (u \o v)[i] = w[i]
  <2>1. w[i] = [id |-> id, pos |-> i]
    BY DEF AreUnits
  <2>2. CASE i <= s
    <3>1. i \in 1..s /\ (u \o v)[i] = u[i]
      BY <1>1, <2>2
    <3>2. u[i] = [id |-> id, pos |-> i]
      BY <3>1 DEF AreUnits
    <3> QED
      BY <2>1, <3>1, <3>2
  <2>3. CASE i > s
    <3>1. PICK k \in 1..n : i = s + k
      <4>1. i - s \in 1..n /\ i = s + (i - s)
        BY <2>3
      <4> QED
        BY <4>1
    <3>2. (u \o v)[i] = v[k]
      BY <1>1, <2>3, <3>1
    <3>3. v[k] = [id |-> id, pos |-> s + k]
      BY DEF AreUnits
    <3>4. i = s + k
      BY <3>1
    <3> QED
      BY <2>1, <3>2, <3>3, <3>4
  <2>4. i <= s \/ i > s
    OBVIOUS
  <2> QED
    BY <2>2, <2>3, <2>4, Zenon
<1> QED
  BY <1>2, <1>3, <1>4

\* A continuation behind what was sent before it is what has been sent.
LEMMA UnitsJoin ==
  ASSUME NEW id \in 1..MaxMsgs, NEW s \in Nat, NEW n \in Nat
  PROVE  Units(id, 0, s) \o Units(id, s, n) = Units(id, 0, s + n)
<1>1. 0 \in Nat /\ s + n \in Nat
  OBVIOUS
<1>2. AreUnits(Units(id, 0, s), id, 0, s)
  BY <1>1, UnitsAre DEF AreUnits
<1>3. AreUnits(Units(id, s, n), id, s, n)
  BY UnitsAre DEF AreUnits
<1>4. AreUnits(Units(id, 0, s + n), id, 0, s + n)
  BY <1>1, UnitsAre DEF AreUnits
<1> QED
  BY <1>2, <1>3, <1>4, Joined

\* The elements of a sequence.
LEMMA Elements ==
  ASSUME NEW S, NEW q \in Seq(S)
  PROVE  Len(q) \in Nat /\ \A i \in 1..Len(q) : q[i] \in S
  OBVIOUS

\* Adding to a sequence that is not empty leaves its first element.
LEMMA JoinKeepsFirst ==
  ASSUME NEW s \in Seq(Unit), s # <<>>, NEW t \in Seq(Unit)
  PROVE  /\ s \o t \in Seq(Unit) /\ s \o t # <<>> /\ (s \o t)[1] = s[1]
         /\ Len(s \o t) = Len(s) + Len(t)
  OBVIOUS

\* The initial state satisfies the inductive invariant.
LEMMA InitIInv == Init => IInv
<1> SUFFICES ASSUME Init PROVE IInv
  OBVIOUS
<1>1. Types
  <2>1. said \in Seq([src : Chars, len : Lens]) /\ Len(said) <= MaxMsgs
    BY RepliesConstants DEF Init
  <2>2. air \in [Chars -> [id : 0..MaxMsgs, sent : Nat]]
    BY RepliesConstants DEF Init, NoMessage
  <2>3. pkt \in [src : Sources, total : Lens \cup {0}, text : Seq(Unit), live : BOOLEAN]
    BY DEF Init, NoPacket, Sources
  <2>4. parsed \in [src : Sources, text : Seq(Unit)]
    BY DEF Init, Sources
  <2> QED
    BY <2>1, <2>2, <2>3, <2>4 DEF Init, NoPacket, Types
<1>2. ~pkt.live /\ parsed.text = <<>> /\ blocks = 0 /\ \A c \in Chars : air[c].id = 0
  BY DEF Init, NoPacket, NoMessage
<1>3. AirInv /\ OneBlock /\ OrderInv
  BY <1>2 DEF AirInv, OneBlock, OrderInv
<1>4. WholeReplies /\ WholeInv /\ DoneInv
  BY <1>2 DEF WholeReplies, WholeInv, DoneInv, Busy
<1> QED
  BY <1>1, <1>3, <1>4 DEF IInv

-----------------------------------------------------------------------------
(* What a frame does *)

\* The message a first frame begins, and the units in the frame.
NextId == Len(said) + 1
FirstUnits(len) == Units(NextId, 0, Smaller(len, FirstCap))

Begins(c, len) ==
  /\ Len(said) < MaxMsgs /\ ~Busy(c)
  /\ said' = Append(said, [src |-> c, len |-> len])
  /\ air' = [air EXCEPT ![c] = [id |-> NextId, sent |-> Smaller(len, FirstCap)]]
  /\ mixed' = (mixed \/ \E d \in Chars : Busy(d))

\* The three ends of a first frame: kept, parsed at once, skipped.
FirstKept(c, len) ==
  /\ len > 0 /\ Smaller(len, FirstCap) < len /\ starved' = FALSE
  /\ pkt' = [src |-> c, total |-> len, text |-> FirstUnits(len), live |-> TRUE]
  /\ blocks' = 1 /\ parsed' = parsed /\ parses' = parses

FirstParsed(c, len) ==
  /\ len > 0 /\ Smaller(len, FirstCap) = len /\ starved' = FALSE
  /\ pkt' = [src |-> c, total |-> len, text |-> FirstUnits(len), live |-> FALSE]
  /\ blocks' = 0 /\ parsed' = [src |-> c, text |-> FirstUnits(len)] /\ parses' = parses + 1

FirstSkipped(c, len) ==
  /\ starved' = (len > 0)
  /\ pkt' = [src |-> c, total |-> len, text |-> <<>>, live |-> FALSE]
  /\ blocks' = 0 /\ parsed' = parsed /\ parses' = parses

\* The first frame of a message fits in it, and is numbered after all the others.
LEMMA FirstUnitsAre ==
  ASSUME Types, NEW len \in Lens, Len(said) < MaxMsgs
  PROVE  /\ len \in Nat /\ NextId \in 1..MaxMsgs
         /\ Smaller(len, FirstCap) \in Nat /\ Smaller(len, FirstCap) <= len
         /\ FirstUnits(len) \in Seq(Unit) /\ Len(FirstUnits(len)) = Smaller(len, FirstCap)
         /\ len > 0 => FirstUnits(len) # <<>> /\ FirstUnits(len)[1].id = NextId
<1>1. len \in Nat /\ FirstCap \in Nat /\ FirstCap > 0 /\ 0 \in Nat
  BY RepliesConstants
<1>2. NextId \in 1..MaxMsgs
  BY RepliesConstants DEF Types, NextId
<1>3. /\ Smaller(len, FirstCap) \in Nat /\ Smaller(len, FirstCap) <= len
      /\ len > 0 => Smaller(len, FirstCap) > 0
  BY <1>1, SmallerIs
<1> QED
  BY <1>1, <1>2, <1>3, UnitsAre DEF FirstUnits

\* A first frame begins a message and ends in one of the three ways.
LEMMA FirstFrame ==
  ASSUME Types, OneBlock, NEW c \in Chars, NEW len \in Lens, NotifyFirst(c, len)
  PROVE  Begins(c, len) /\ (FirstKept(c, len) \/ FirstParsed(c, len) \/ FirstSkipped(c, len))
<1>1. Begins(c, len) /\ First(c, len, FirstUnits(len))
  BY DEF NotifyFirst, Begins, NextId, FirstUnits
<1>2. /\ len \in Nat /\ Smaller(len, FirstCap) \in Nat /\ Smaller(len, FirstCap) <= len
      /\ Len(FirstUnits(len)) = Smaller(len, FirstCap)
  BY <1>1, FirstUnitsAre DEF Begins
<1>3. blocks - Leftover = 0
  BY DEF OneBlock, Leftover, Types
<1>4. CASE /\ len > 0 /\ starved' = FALSE
           /\ Settle([src |-> c, total |-> len, text |-> FirstUnits(len), live |-> TRUE], Leftover)
  <2>1. CASE Smaller(len, FirstCap) = len
    BY <1>1, <1>2, <1>3, <1>4, <2>1 DEF Settle, Parse, FirstParsed
  <2>2. CASE Smaller(len, FirstCap) # len
    BY <1>1, <1>2, <1>3, <1>4, <2>2 DEF Settle, FirstKept, output
  <2> QED
    BY <1>1, <2>1, <2>2
<1>5. CASE /\ starved' = (len > 0)
           /\ pkt' = [src |-> c, total |-> len, text |-> <<>>, live |-> FALSE]
           /\ blocks' = blocks - Leftover
           /\ UNCHANGED output
  BY <1>1, <1>3, <1>5 DEF FirstSkipped, output
<1> QED
  BY <1>1, <1>4, <1>5 DEF First

\* What a first frame leaves of the camera's state.
LEMMA Begun ==
  ASSUME Types, AirInv, NEW c \in Chars, NEW len \in Lens, Begins(c, len)
  PROVE  /\ Len(said') = NextId /\ said'[NextId] = [src |-> c, len |-> len]
         /\ \A j \in 1..Len(said) : said'[j] = said[j]
         /\ air'[c] = [id |-> NextId, sent |-> Smaller(len, FirstCap)]
         /\ \A d \in Chars : d # c => air'[d] = air[d]
         /\ Busy(c)' <=> Smaller(len, FirstCap) < len
         /\ \A d \in Chars : d # c => (Busy(d)' <=> Busy(d))
<1>1. Len(said) \in Nat /\ NextId # 0
  BY DEF Types, NextId
<1>2. Len(said') = NextId /\ said'[NextId] = [src |-> c, len |-> len]
  BY DEF Types, Begins, NextId
<1>3. \A j \in 1..Len(said) : said'[j] = said[j]
  BY DEF Types, Begins
<1>4. air'[c] = [id |-> NextId, sent |-> Smaller(len, FirstCap)]
  BY DEF Types, Begins
<1>5. \A d \in Chars : d # c => air'[d] = air[d]
  BY DEF Types, Begins
<1>6. Busy(c)' <=> Smaller(len, FirstCap) < len
  BY <1>1, <1>2, <1>4 DEF Busy
<1>7. ASSUME NEW d \in Chars, d # c PROVE Busy(d)' <=> Busy(d)
  BY <1>3, <1>5, <1>7 DEF Busy, AirInv
<1> QED
  BY <1>2, <1>3, <1>4, <1>5, <1>6, <1>7

\* The units a continuation of c carries.
NextUnits(c) == Smaller(said[air[c].id].len - air[c].sent, ContCap)
ContUnits(c) == Units(air[c].id, air[c].sent, NextUnits(c))

Continues(c) ==
  /\ Busy(c) /\ UNCHANGED <<said, history>>
  /\ air' = [air EXCEPT ![c].sent = air[c].sent + NextUnits(c)]

\* The four ends of a continuation: ignored, too long, kept, the last one.
ContIgnored == ~pkt.live /\ UNCHANGED <<pkt, blocks, parsed, parses>>

ContDropped(c) ==
  /\ pkt.live /\ Len(pkt.text) + NextUnits(c) > pkt.total
  /\ pkt' = [pkt EXCEPT !.live = FALSE] /\ blocks' = 0
  /\ parsed' = parsed /\ parses' = parses

ContKept(c) ==
  /\ pkt.live /\ Len(pkt.text) + NextUnits(c) < pkt.total
  /\ pkt' = [pkt EXCEPT !.text = pkt.text \o ContUnits(c)] /\ blocks' = 1
  /\ parsed' = parsed /\ parses' = parses

ContParsed(c) ==
  /\ pkt.live /\ Len(pkt.text) + NextUnits(c) = pkt.total
  /\ pkt' = [pkt EXCEPT !.text = pkt.text \o ContUnits(c), !.live = FALSE] /\ blocks' = 0
  /\ parsed' = [src |-> pkt.src, text |-> pkt.text \o ContUnits(c)] /\ parses' = parses + 1

\* A continuation carries units of its message, and no more than are left.
LEMMA ContUnitsAre ==
  ASSUME Types, AirInv, NEW c \in Chars, Busy(c)
  PROVE  /\ air[c].id \in 1..MaxMsgs /\ air[c].id \in 1..Len(said) /\ air[c].sent \in Nat
         /\ said[air[c].id].len \in Nat
         /\ NextUnits(c) \in Nat \ {0} /\ air[c].sent + NextUnits(c) <= said[air[c].id].len
         /\ ContUnits(c) \in Seq(Unit) /\ Len(ContUnits(c)) = NextUnits(c)
<1>1. air[c].id \in 1..Len(said) /\ air[c].sent \in Nat /\ air[c].sent < said[air[c].id].len
  BY DEF Types, AirInv, Busy
<1>2. Len(said) \in Nat /\ Len(said) <= MaxMsgs /\ MaxMsgs \in Nat
  BY RepliesConstants DEF Types
<1>3. said[air[c].id] \in [src : Chars, len : Lens]
  BY <1>1, Elements DEF Types
<1>4. said[air[c].id].len \in Nat
  BY <1>3, RepliesConstants
<1>5. ContCap \in Nat /\ ContCap > 0
  BY RepliesConstants
<1>6. said[air[c].id].len - air[c].sent \in Nat /\ said[air[c].id].len - air[c].sent > 0
  BY <1>1, <1>4
<1>7. NextUnits(c) \in Nat /\ NextUnits(c) <= said[air[c].id].len - air[c].sent /\ NextUnits(c) > 0
  BY <1>5, <1>6, SmallerIs DEF NextUnits
<1>8. air[c].id \in 1..MaxMsgs
  BY <1>1, <1>2
<1>9. ContUnits(c) \in Seq(Unit) /\ Len(ContUnits(c)) = NextUnits(c)
  BY <1>1, <1>7, <1>8, UnitsAre DEF ContUnits
<1> QED
  BY <1>1, <1>4, <1>7, <1>8, <1>9

\* A continuation goes on with a message and ends in one of the four ways.
LEMMA ContFrame ==
  ASSUME Types, AirInv, OneBlock, NEW c \in Chars, NotifyCont(c)
  PROVE  /\ Continues(c)
         /\ ContIgnored \/ ContDropped(c) \/ ContKept(c) \/ ContParsed(c)
<1>1. Continues(c) /\ Continue(ContUnits(c))
  BY DEF NotifyCont, Continues, NextUnits, ContUnits
<1>2. /\ NextUnits(c) \in Nat /\ ContUnits(c) \in Seq(Unit)
      /\ Len(ContUnits(c)) = NextUnits(c)
  BY <1>1, ContUnitsAre DEF Continues
<1>3. pkt.text \in Seq(Unit) /\ Len(pkt.text) \in Nat /\ pkt.total \in Nat
  <2>1. pkt.text \in Seq(Unit) /\ pkt.total \in Lens \cup {0}
    BY DEF Types
  <2>2. pkt.total \in Nat
    <3>1. 0 \in Nat
      OBVIOUS
    <3> QED
      BY <2>1, <3>1, RepliesConstants, Zenon
  <2> QED
    BY <2>1, <2>2, Elements
<1>4. pkt.live => blocks = 1
  BY DEF OneBlock
<1>5. CASE ~pkt.live /\ UNCHANGED <<pkt, blocks, output>>
  BY <1>1, <1>5 DEF ContIgnored, output
<1>6. CASE /\ pkt.live /\ Len(pkt.text) + Len(ContUnits(c)) > pkt.total
           /\ pkt' = [pkt EXCEPT !.live = FALSE]
           /\ blocks' = blocks - 1
           /\ UNCHANGED output
  BY <1>1, <1>2, <1>4, <1>6 DEF ContDropped, output
<1>7. CASE /\ pkt.live /\ Len(pkt.text) + Len(ContUnits(c)) <= pkt.total
           /\ Settle([pkt EXCEPT !.text = @ \o ContUnits(c)], 1)
  <2> DEFINE p == [pkt EXCEPT !.text = @ \o ContUnits(c)]
  <2>1. p.src = pkt.src /\ p.total = pkt.total /\ p.text = pkt.text \o ContUnits(c)
    BY DEF Types
  <2>2. Len(p.text) = Len(pkt.text) + NextUnits(c)
    <3>1. Len(pkt.text \o ContUnits(c)) = Len(pkt.text) + NextUnits(c)
      BY <1>2, <1>3
    <3> QED
      BY <2>1, <3>1
  <2>3. [p EXCEPT !.live = FALSE] = [pkt EXCEPT !.text = pkt.text \o ContUnits(c), !.live = FALSE]
    OBVIOUS
  <2>4. p = [pkt EXCEPT !.text = pkt.text \o ContUnits(c)]
    OBVIOUS
  <2>5. Settle(p, 1)
    BY <1>7
  <2> HIDE DEF p
  <2>6. CASE Len(p.text) = p.total
    <3>1. Len(pkt.text) + NextUnits(c) = pkt.total
      BY <2>1, <2>2, <2>6
    <3>2. /\ parsed' = [src |-> p.src, text |-> p.text] /\ parses' = parses + 1
          /\ pkt' = [p EXCEPT !.live = FALSE]
          /\ blocks' = blocks - 1
      BY <2>5, <2>6 DEF Settle, Parse
    <3> QED
      BY <1>1, <1>4, <1>7, <2>1, <2>3, <3>1, <3>2 DEF ContParsed
  <2>7. CASE Len(p.text) # p.total
    <3>1. Len(pkt.text) + NextUnits(c) < pkt.total
      BY <1>2, <1>3, <1>7, <2>1, <2>2, <2>7
    <3>2. pkt' = p /\ blocks' = blocks - 1 + 1 /\ parsed' = parsed /\ parses' = parses
      BY <2>5, <2>7 DEF Settle, output
    <3> QED
      BY <1>1, <1>4, <1>7, <2>4, <3>1, <3>2 DEF ContKept
  <2> QED
    BY <2>6, <2>7
<1> QED
  BY <1>1, <1>5, <1>6, <1>7 DEF Continue

\* What a continuation leaves of the camera's state.
LEMMA Continued ==
  ASSUME Types, AirInv, NEW c \in Chars, Continues(c)
  PROVE  /\ said' = said
         /\ air'[c] = [id |-> air[c].id, sent |-> air[c].sent + NextUnits(c)]
         /\ \A d \in Chars : d # c => air'[d] = air[d]
         /\ Busy(c)' <=> air[c].sent + NextUnits(c) < said[air[c].id].len
         /\ \A d \in Chars : d # c => (Busy(d)' <=> Busy(d))
<1>1. said' = said
  BY DEF Continues
<1>2. air'[c] = [id |-> air[c].id, sent |-> air[c].sent + NextUnits(c)]
  BY DEF Types, Continues
<1>3. \A d \in Chars : d # c => air'[d] = air[d]
  BY DEF Types, Continues
<1>4. air[c].id # 0
  BY DEF Continues, Busy
<1>5. Busy(c)' <=> air[c].sent + NextUnits(c) < said[air[c].id].len
  BY <1>1, <1>2, <1>4 DEF Busy
<1>6. ASSUME NEW d \in Chars, d # c PROVE Busy(d)' <=> Busy(d)
  BY <1>1, <1>3, <1>6 DEF Busy
<1> QED
  BY <1>1, <1>2, <1>3, <1>5, <1>6

-----------------------------------------------------------------------------
(* Every step keeps the invariant *)

\* A first frame keeps the types.
LEMMA FirstTypes ==
  ASSUME Types, AirInv, NEW c \in Chars, NEW len \in Lens, Begins(c, len),
         FirstKept(c, len) \/ FirstParsed(c, len) \/ FirstSkipped(c, len)
  PROVE  Types'
<1>1. /\ len \in Nat /\ NextId \in 1..MaxMsgs
      /\ Smaller(len, FirstCap) \in Nat
      /\ FirstUnits(len) \in Seq(Unit) /\ Len(FirstUnits(len)) = Smaller(len, FirstCap)
      /\ len > 0 => FirstUnits(len) # <<>>
  BY FirstUnitsAre DEF Begins
<1>2. said' \in Seq([src : Chars, len : Lens]) /\ Len(said') <= MaxMsgs
  <2>1. said \in Seq([src : Chars, len : Lens]) /\ [src |-> c, len |-> len] \in [src : Chars, len : Lens]
    BY DEF Types
  <2>2. said' \in Seq([src : Chars, len : Lens])
    BY <2>1 DEF Begins
  <2>3. Len(said') = NextId
    BY Begun
  <2>4. Len(said') <= MaxMsgs
    BY <1>1, <2>3
  <2> QED
    BY <2>2, <2>4
<1>3. air' \in [Chars -> [id : 0..MaxMsgs, sent : Nat]]
  <2>1. [id |-> NextId, sent |-> Smaller(len, FirstCap)] \in [id : 0..MaxMsgs, sent : Nat]
    BY <1>1
  <2> QED
    BY <2>1 DEF Types, Begins
<1>4. /\ pkt' \in [src : Sources, total : Lens \cup {0}, text : Seq(Unit), live : BOOLEAN]
      /\ pkt.live' => pkt.src' \in Chars /\ pkt.text' # <<>> /\ Len(pkt.text') < pkt.total'
  <2>1. CASE FirstKept(c, len)
    BY <1>1, <2>1 DEF FirstKept, Sources
  <2>2. CASE FirstParsed(c, len)
    BY <1>1, <2>2 DEF FirstParsed, Sources
  <2>3. CASE FirstSkipped(c, len)
    BY <2>3 DEF FirstSkipped, Sources
  <2> QED
    BY <2>1, <2>2, <2>3
<1>5. parsed' \in [src : Sources, text : Seq(Unit)] /\ starved' \in BOOLEAN /\ parses' \in Nat
  <2>1. CASE FirstKept(c, len)
    BY <2>1 DEF Types, FirstKept
  <2>2. CASE FirstParsed(c, len)
    <3>1. parses' \in Nat
      BY <2>2 DEF Types, FirstParsed
    <3>2. parsed' \in [src : Sources, text : Seq(Unit)] /\ starved' \in BOOLEAN
      BY <1>1, <2>2 DEF FirstParsed, Sources
    <3> QED
      BY <3>1, <3>2
  <2>3. CASE FirstSkipped(c, len)
    <3>1. (len > 0) \in BOOLEAN
      OBVIOUS
    <3> QED
      BY <2>3, <3>1 DEF Types, FirstSkipped
  <2> QED
    BY <2>1, <2>2, <2>3
<1>6. mixed' \in BOOLEAN
  BY DEF Types, Begins
<1> QED
  BY <1>2, <1>3, <1>4, <1>5, <1>6 DEF Types

\* A first frame keeps what is known of the camera.
LEMMA FirstAir ==
  ASSUME Types, AirInv, NEW c \in Chars, NEW len \in Lens, Begins(c, len)
  PROVE  AirInv'
<1> SUFFICES ASSUME NEW d \in Chars, air'[d].id # 0
             PROVE  /\ air'[d].id \in 1..Len(said')
                    /\ said'[air'[d].id].src = d
                    /\ air'[d].sent <= said'[air'[d].id].len
  BY DEF AirInv
<1>1. CASE d = c
  <2>1. NextId \in 1..MaxMsgs /\ Smaller(len, FirstCap) <= len
    BY FirstUnitsAre DEF Begins
  <2>2. /\ Len(said') = NextId /\ said'[NextId] = [src |-> c, len |-> len]
        /\ air'[c] = [id |-> NextId, sent |-> Smaller(len, FirstCap)]
    BY Begun
  <2>3. NextId \in 1..Len(said')
    BY <2>1, <2>2
  <2> QED
    BY <1>1, <2>1, <2>2, <2>3
<1>2. CASE d # c
  <2>1. air'[d] = air[d] /\ Len(said') = NextId
    BY <1>2, Begun
  <2>2. air[d].id \in 1..Len(said) /\ said[air[d].id].src = d /\ air[d].sent <= said[air[d].id].len
    BY <2>1 DEF AirInv
  <2>3. said'[air[d].id] = said[air[d].id]
    BY <2>2, Begun
  <2>4. Len(said) \in Nat
    BY Elements DEF Types
  <2>5. air[d].id \in 1..Len(said')
    BY <2>1, <2>2, <2>4 DEF NextId
  <2> QED
    BY <2>1, <2>2, <2>3, <2>5
<1> QED
  BY <1>1, <1>2

\* A first frame keeps the order and the one block.
LEMMA FirstOrder ==
  ASSUME Types, AirInv, OrderInv, NEW c \in Chars, NEW len \in Lens, Begins(c, len),
         FirstKept(c, len) \/ FirstParsed(c, len) \/ FirstSkipped(c, len)
  PROVE  OrderInv' /\ OneBlock'
<1>1. /\ NextId \in Nat /\ NextId >= 1 /\ NextId = Len(said) + 1
      /\ len > 0 => FirstUnits(len) # <<>> /\ FirstUnits(len)[1].id = NextId
  BY FirstUnitsAre DEF NextId, Begins
<1>2. Len(said') = NextId /\ Len(said) \in Nat
  <2>1. Len(said') = NextId
    BY Begun
  <2> QED
    BY <2>1, Elements DEF Types
<1>3. parsed.text # <<>> => parsed.text[1].id \in 1..Len(said)
  BY DEF OrderInv
<1>4. CASE FirstKept(c, len)
  BY <1>1, <1>2, <1>3, <1>4 DEF FirstKept, OrderInv, OneBlock
<1>5. CASE FirstParsed(c, len)
  BY <1>1, <1>2, <1>5 DEF FirstParsed, OrderInv, OneBlock
<1>6. CASE FirstSkipped(c, len)
  BY <1>1, <1>2, <1>3, <1>6 DEF FirstSkipped, OrderInv, OneBlock
<1> QED
  BY <1>4, <1>5, <1>6

\* A packet a first frame completes is one message; any other stays as it was.
LEMMA FirstWhole ==
  ASSUME IInv, NEW c \in Chars, NEW len \in Lens, Begins(c, len),
         FirstKept(c, len) \/ FirstParsed(c, len) \/ FirstSkipped(c, len)
  PROVE  WholeReplies'
<1> SUFFICES ASSUME ~mixed', parsed'.text # <<>>
             PROVE  parsed' = [src |-> said'[parsed'.text[1].id].src,
                               text |-> Units(parsed'.text[1].id, 0, said'[parsed'.text[1].id].len)]
  BY DEF WholeReplies
<1>1. Types /\ AirInv /\ OrderInv /\ WholeReplies
  BY DEF IInv
<1>2. CASE FirstParsed(c, len)
  <2>1. FirstUnits(len)[1].id = NextId /\ said'[NextId] = [src |-> c, len |-> len]
    BY <1>1, <1>2, FirstUnitsAre, Begun DEF FirstParsed, Begins
  <2>2. parsed' = [src |-> c, text |-> Units(NextId, 0, len)] /\ parsed'.text[1].id = NextId
    BY <1>2, <2>1 DEF FirstParsed, FirstUnits
  <2> QED
    BY <2>1, <2>2
<1>3. CASE parsed' = parsed
  <2>1. ~mixed
    BY DEF Begins
  <2>2. parsed.text[1].id \in 1..Len(said)
    BY <1>1, <1>3 DEF OrderInv
  <2>3. said'[parsed.text[1].id] = said[parsed.text[1].id]
    BY <1>1, <2>2, Begun
  <2>4. parsed = [src |-> said[parsed.text[1].id].src,
                  text |-> Units(parsed.text[1].id, 0, said[parsed.text[1].id].len)]
    BY <1>1, <1>3, <2>1 DEF WholeReplies
  <2> QED
    BY <1>3, <2>3, <2>4
<1> QED
  BY <1>2, <1>3 DEF FirstKept, FirstSkipped

\* Without mixing, the characteristic that begins is the only one that is busy.
LEMMA FirstKeeps ==
  ASSUME IInv, NEW c \in Chars, NEW len \in Lens, Begins(c, len),
         FirstKept(c, len) \/ FirstParsed(c, len) \/ FirstSkipped(c, len)
  PROVE  WholeInv'
<1>1. Types /\ AirInv
  BY DEF IInv
<1>2. ASSUME ~mixed', NEW d \in Chars, Busy(d)' PROVE d = c
  <2>1. \A e \in Chars : ~Busy(e)
    BY <1>2 DEF Begins
  <2> QED
    BY <1>1, <1>2, <2>1, Begun
<1>3. ASSUME pkt.live', Busy(c)'
      PROVE  /\ pkt.src' = c /\ pkt.total' = said'[air'[c].id].len
             /\ pkt.text' = Units(air'[c].id, 0, air'[c].sent)
  <2>1. pkt' = [src |-> c, total |-> len, text |-> FirstUnits(len), live |-> TRUE]
    BY <1>3 DEF FirstKept, FirstParsed, FirstSkipped
  <2>2. /\ air'[c] = [id |-> NextId, sent |-> Smaller(len, FirstCap)]
        /\ said'[NextId] = [src |-> c, len |-> len]
    BY <1>1, Begun
  <2> QED
    BY <2>1, <2>2 DEF FirstUnits
<1> QED
  BY <1>2, <1>3 DEF WholeInv

\* With memory, the message a first frame begins is in the packet or has been parsed.
LEMMA FirstDone ==
  ASSUME IInv, NEW c \in Chars, NEW len \in Lens, Begins(c, len),
         FirstKept(c, len) \/ FirstParsed(c, len) \/ FirstSkipped(c, len)
  PROVE  DoneInv'
<1>1. Types /\ AirInv
  BY DEF IInv
<1>2. /\ Len(said') = NextId /\ said'[NextId].len = len
      /\ air'[c].id = NextId /\ (Busy(c)' <=> Smaller(len, FirstCap) < len)
  <2>1. /\ Len(said') = NextId /\ said'[NextId] = [src |-> c, len |-> len]
        /\ air'[c] = [id |-> NextId, sent |-> Smaller(len, FirstCap)]
        /\ Busy(c)' <=> Smaller(len, FirstCap) < len
    BY <1>1, Begun
  <2> QED
    BY <2>1
<1>3. ASSUME NEW d \in Chars, air'[d].id = Len(said'), air'[d].id # 0 PROVE d = c
  <2>1. Len(said) \in Nat /\ Len(said') = Len(said) + 1
    BY <1>1, <1>2 DEF Types, NextId
  <2>2. d # c => air'[d] = air[d]
    BY <1>1, Begun
  <2> QED
    BY <1>1, <1>3, <2>1, <2>2 DEF AirInv
<1>4. ASSUME ~starved', len > 0
      PROVE  IF Busy(c)' THEN pkt.live'
                         ELSE ~pkt.live' /\ parsed'.text # <<>> /\ parsed'.text[1].id = NextId
  <2>1. FirstUnits(len) # <<>> /\ FirstUnits(len)[1].id = NextId /\ len \in Nat
    BY <1>1, <1>4, FirstUnitsAre DEF Begins
  <2>2. CASE FirstKept(c, len)
    BY <1>2, <2>2 DEF FirstKept
  <2>3. CASE FirstParsed(c, len)
    BY <1>2, <2>1, <2>3 DEF FirstParsed
  <2> QED
    BY <1>4, <2>2, <2>3 DEF FirstSkipped
<1> QED
  BY <1>2, <1>3, <1>4 DEF DoneInv

\* The packet a continuation keeps or completes begins as it did.
LEMMA ContText ==
  ASSUME Types, AirInv, NEW c \in Chars, Continues(c), pkt.live
  PROVE  /\ pkt.text \o ContUnits(c) \in Seq(Unit) /\ pkt.text \o ContUnits(c) # <<>>
         /\ (pkt.text \o ContUnits(c))[1] = pkt.text[1]
         /\ Len(pkt.text \o ContUnits(c)) = Len(pkt.text) + NextUnits(c)
<1>1. pkt.text \in Seq(Unit) /\ pkt.text # <<>>
  BY DEF Types
<1>2. ContUnits(c) \in Seq(Unit) /\ Len(ContUnits(c)) = NextUnits(c)
  BY ContUnitsAre DEF Continues
<1> QED
  BY <1>1, <1>2, JoinKeepsFirst

\* A continuation keeps the types.
LEMMA ContTypes ==
  ASSUME Types, AirInv, NEW c \in Chars, Continues(c),
         ContIgnored \/ ContDropped(c) \/ ContKept(c) \/ ContParsed(c)
  PROVE  Types'
<1>1. /\ air[c].id \in 1..MaxMsgs /\ air[c].sent \in Nat /\ NextUnits(c) \in Nat
  BY ContUnitsAre DEF Continues
<1>2. said' \in Seq([src : Chars, len : Lens]) /\ Len(said') <= MaxMsgs
  BY DEF Types, Continues
<1>3. air' \in [Chars -> [id : 0..MaxMsgs, sent : Nat]]
  <2>1. air[c].sent + NextUnits(c) \in Nat
    BY <1>1
  <2> QED
    BY <2>1 DEF Types, Continues
<1>4. /\ pkt' \in [src : Sources, total : Lens \cup {0}, text : Seq(Unit), live : BOOLEAN]
      /\ pkt.live' => pkt.src' \in Chars /\ pkt.text' # <<>> /\ Len(pkt.text') < pkt.total'
      /\ parsed' \in [src : Sources, text : Seq(Unit)] /\ parses' \in Nat
  <2>1. CASE ContIgnored
    BY <2>1 DEF ContIgnored, Types
  <2>2. CASE ContDropped(c)
    BY <2>2 DEF ContDropped, Types
  <2>3. CASE ContKept(c)
    <3>1. /\ pkt.text \o ContUnits(c) \in Seq(Unit) /\ pkt.text \o ContUnits(c) # <<>>
          /\ Len(pkt.text \o ContUnits(c)) = Len(pkt.text) + NextUnits(c)
      BY <2>3, ContText DEF ContKept
    <3> QED
      BY <2>3, <3>1 DEF ContKept, Types
  <2>4. CASE ContParsed(c)
    <3>1. pkt.text \o ContUnits(c) \in Seq(Unit)
      BY <2>4, ContText DEF ContParsed
    <3>2. parses' \in Nat
      BY <2>4 DEF ContParsed, Types
    <3>3. /\ parsed' \in [src : Sources, text : Seq(Unit)]
          /\ pkt' \in [src : Sources, total : Lens \cup {0}, text : Seq(Unit), live : BOOLEAN]
          /\ pkt'.live = FALSE
      BY <2>4, <3>1 DEF ContParsed, Types
    <3> QED
      BY <3>2, <3>3
  <2> QED
    BY <2>1, <2>2, <2>3, <2>4
<1>5. mixed' \in BOOLEAN /\ starved' \in BOOLEAN
  BY DEF Types, Continues, history
<1> QED
  BY <1>2, <1>3, <1>4, <1>5 DEF Types

\* A continuation keeps what is known of the camera.
LEMMA ContAir ==
  ASSUME Types, AirInv, NEW c \in Chars, Continues(c)
  PROVE  AirInv'
<1> SUFFICES ASSUME NEW d \in Chars, air'[d].id # 0
             PROVE  /\ air'[d].id \in 1..Len(said')
                    /\ said'[air'[d].id].src = d
                    /\ air'[d].sent <= said'[air'[d].id].len
  BY DEF AirInv
<1>1. said' = said
  BY Continued
<1>2. CASE d = c
  <2>1. air'[c] = [id |-> air[c].id, sent |-> air[c].sent + NextUnits(c)]
    BY Continued
  <2>2. air[c].id \in 1..Len(said) /\ air[c].sent + NextUnits(c) <= said[air[c].id].len
    BY ContUnitsAre DEF Continues
  <2>3. said[air[c].id].src = c
    BY DEF AirInv, Continues, Busy
  <2> QED
    BY <1>1, <1>2, <2>1, <2>2, <2>3
<1>3. CASE d # c
  <2>1. air'[d] = air[d]
    BY <1>3, Continued
  <2> QED
    BY <1>1, <2>1 DEF AirInv
<1> QED
  BY <1>2, <1>3

\* A continuation keeps the order and the one block.
LEMMA ContOrder ==
  ASSUME Types, AirInv, OneBlock, OrderInv, NEW c \in Chars, Continues(c),
         ContIgnored \/ ContDropped(c) \/ ContKept(c) \/ ContParsed(c)
  PROVE  OrderInv' /\ OneBlock'
<1>1. said' = said
  BY Continued
<1>2. CASE ContIgnored
  BY <1>1, <1>2 DEF ContIgnored, OrderInv, OneBlock
<1>3. CASE ContDropped(c)
  <2>1. ~pkt'.live
    BY <1>3 DEF ContDropped, Types
  <2> QED
    BY <1>1, <1>3, <2>1 DEF ContDropped, OrderInv, OneBlock
<1>4. CASE ContKept(c)
  <2>1. pkt'.live /\ pkt'.text = pkt.text \o ContUnits(c)
    BY <1>4 DEF ContKept, Types
  <2>2. pkt'.text[1] = pkt.text[1]
    BY <1>4, <2>1, ContText DEF ContKept
  <2> QED
    BY <1>1, <1>4, <2>1, <2>2 DEF ContKept, OrderInv, OneBlock
<1>5. CASE ContParsed(c)
  <2>1. ~pkt'.live /\ parsed'.text = pkt.text \o ContUnits(c)
    BY <1>5 DEF ContParsed, Types
  <2>2. parsed'.text[1] = pkt.text[1]
    BY <1>5, <2>1, ContText DEF ContParsed
  <2>3. pkt.text[1].id \in 1..Len(said)
    <3>1. pkt.text \in Seq(Unit) /\ pkt.text # <<>>
      BY <1>5 DEF Types, ContParsed
    <3>2. Len(pkt.text) \in Nat /\ 1 \in 1..Len(pkt.text)
      BY <3>1
    <3>3. pkt.text[1] \in Unit
      BY <3>1, <3>2, Elements
    <3>4. pkt.text[1].id <= Len(said) /\ Len(said) \in Nat
      BY <1>5, Elements DEF Types, OrderInv, ContParsed
    <3> QED
      BY <3>3, <3>4, RepliesConstants DEF Unit
  <2> QED
    BY <1>1, <1>5, <2>1, <2>2, <2>3 DEF ContParsed, OrderInv, OneBlock
<1> QED
  BY <1>2, <1>3, <1>4, <1>5

\* Without mixing, a packet that is there holds what c has sent so far.
LEMMA ContHolds ==
  ASSUME IInv, NEW c \in Chars, Continues(c), pkt.live, ~mixed
  PROVE  /\ pkt.src = c /\ pkt.total = said[air[c].id].len
         /\ Len(pkt.text) = air[c].sent
         /\ pkt.text \o ContUnits(c) = Units(air[c].id, 0, air[c].sent + NextUnits(c))
<1>1. Types /\ AirInv /\ Busy(c)
  BY DEF IInv, Continues
<1>2. /\ pkt.src = c /\ pkt.total = said[air[c].id].len
      /\ pkt.text = Units(air[c].id, 0, air[c].sent)
  BY <1>1 DEF IInv, WholeInv
<1>3. air[c].id \in 1..MaxMsgs /\ air[c].sent \in Nat /\ NextUnits(c) \in Nat /\ 0 \in Nat
  BY <1>1, ContUnitsAre
<1>4. Len(Units(air[c].id, 0, air[c].sent)) = air[c].sent
  BY <1>3, UnitsBegin, Zenon
<1>5. Units(air[c].id, 0, air[c].sent) \o ContUnits(c) = Units(air[c].id, 0, air[c].sent + NextUnits(c))
  BY <1>3, UnitsJoin DEF ContUnits
<1> QED
  BY <1>2, <1>4, <1>5

\* A packet a continuation completes is one message; any other stays as it was.
LEMMA ContWhole ==
  ASSUME IInv, NEW c \in Chars, Continues(c),
         ContIgnored \/ ContDropped(c) \/ ContKept(c) \/ ContParsed(c)
  PROVE  WholeReplies'
<1>1. Types /\ AirInv /\ WholeReplies /\ said' = said /\ mixed' = mixed
  BY DEF IInv, Continues, history
<1>2. CASE ContParsed(c)
  <2> SUFFICES ASSUME ~mixed'
               PROVE  parsed' = [src |-> said'[parsed'.text[1].id].src,
                                 text |-> Units(parsed'.text[1].id, 0, said'[parsed'.text[1].id].len)]
    BY DEF WholeReplies
  <2>1. /\ pkt.src = c /\ pkt.total = said[air[c].id].len /\ Len(pkt.text) = air[c].sent
        /\ pkt.text \o ContUnits(c) = Units(air[c].id, 0, air[c].sent + NextUnits(c))
    BY <1>1, <1>2, ContHolds DEF ContParsed
  <2>2. air[c].sent + NextUnits(c) = said[air[c].id].len
    BY <1>2, <2>1 DEF ContParsed
  <2>3. /\ air[c].id \in 1..MaxMsgs /\ said[air[c].id].len \in Nat /\ said[air[c].id].len > 0
        /\ 0 \in Nat
    <3>1. /\ air[c].id \in 1..MaxMsgs /\ said[air[c].id].len \in Nat /\ air[c].sent \in Nat
          /\ NextUnits(c) \in Nat \ {0}
      BY <1>1, ContUnitsAre DEF Continues
    <3> QED
      BY <2>2, <3>1
  <2>4. parsed' = [src |-> c, text |-> Units(air[c].id, 0, said[air[c].id].len)]
    BY <1>2, <2>1, <2>2 DEF ContParsed
  <2>5. parsed'.text[1].id = air[c].id
    BY <2>3, <2>4, UnitsAre
  <2>6. said[air[c].id].src = c
    BY <1>1 DEF AirInv, Continues, Busy
  <2> QED
    BY <1>1, <2>4, <2>5, <2>6
<1>3. CASE parsed' = parsed
  BY <1>1, <1>3 DEF WholeReplies
<1> QED
  BY <1>2, <1>3 DEF ContIgnored, ContDropped, ContKept

\* Without mixing, a packet that is kept holds what c has now sent.
LEMMA ContKeeps ==
  ASSUME IInv, NEW c \in Chars, Continues(c),
         ContIgnored \/ ContDropped(c) \/ ContKept(c) \/ ContParsed(c)
  PROVE  WholeInv'
<1>1. Types /\ AirInv /\ WholeInv /\ said' = said /\ mixed' = mixed /\ Busy(c)
  BY DEF IInv, Continues, history
<1>2. ASSUME ~mixed', NEW d \in Chars, Busy(d)' PROVE d = c
  <2>1. d # c => Busy(d)
    BY <1>1, <1>2, Continued
  <2> QED
    BY <1>1, <1>2, <2>1 DEF WholeInv
<1>3. ASSUME ~mixed', pkt'.live
      PROVE  /\ pkt'.src = c /\ pkt'.total = said'[air'[c].id].len
             /\ pkt'.text = Units(air'[c].id, 0, air'[c].sent)
  <2>1. ContKept(c)
    BY <1>1, <1>3 DEF ContIgnored, ContDropped, ContParsed, Types
  <2>2. pkt'.src = pkt.src /\ pkt'.total = pkt.total /\ pkt'.text = pkt.text \o ContUnits(c)
    BY <1>1, <2>1 DEF ContKept, Types
  <2>3. /\ pkt.src = c /\ pkt.total = said[air[c].id].len
        /\ pkt.text \o ContUnits(c) = Units(air[c].id, 0, air[c].sent + NextUnits(c))
    BY <1>1, <1>3, <2>1, ContHolds DEF ContKept
  <2>4. air'[c] = [id |-> air[c].id, sent |-> air[c].sent + NextUnits(c)]
    BY <1>1, Continued
  <2> QED
    BY <1>1, <2>2, <2>3, <2>4
<1> QED
  BY <1>2, <1>3 DEF WholeInv

\* With memory, the message c goes on with is in the packet or has been parsed.
LEMMA ContDone ==
  ASSUME IInv, NEW c \in Chars, Continues(c),
         ContIgnored \/ ContDropped(c) \/ ContKept(c) \/ ContParsed(c)
  PROVE  DoneInv'
<1>1. /\ Types /\ AirInv /\ WholeInv /\ DoneInv /\ said' = said /\ Busy(c)
      /\ mixed' = mixed /\ starved' = starved
  BY DEF IInv, Continues, history
<1> SUFFICES ASSUME NEW d \in Chars, ~mixed, ~starved, air'[d].id = Len(said), air'[d].id # 0,
                    said[air'[d].id].len > 0
             PROVE  IF Busy(d)' THEN pkt'.live
                    ELSE ~pkt'.live /\ parsed'.text # <<>> /\ parsed'.text[1].id = air'[d].id
  BY <1>1 DEF DoneInv
<1>2. CASE d = c
  <2>1. /\ air'[c] = [id |-> air[c].id, sent |-> air[c].sent + NextUnits(c)]
        /\ Busy(c)' <=> air[c].sent + NextUnits(c) < said[air[c].id].len
    BY <1>1, Continued
  <2>2. pkt.live
    BY <1>1, <1>2, <2>1 DEF DoneInv
  <2>3. /\ pkt.total = said[air[c].id].len /\ Len(pkt.text) = air[c].sent
        /\ pkt.text \o ContUnits(c) = Units(air[c].id, 0, air[c].sent + NextUnits(c))
    BY <1>1, <2>2, ContHolds
  <2>4. /\ air[c].id \in 1..MaxMsgs /\ air[c].sent \in Nat /\ NextUnits(c) \in Nat \ {0}
        /\ said[air[c].id].len \in Nat /\ air[c].sent + NextUnits(c) <= said[air[c].id].len
    BY <1>1, ContUnitsAre
  <2>5. CASE air[c].sent + NextUnits(c) < said[air[c].id].len
    <3>1. ContKept(c)
      BY <2>2, <2>3, <2>4, <2>5 DEF ContIgnored, ContDropped, ContParsed
    <3>2. pkt'.live
      BY <1>1, <3>1 DEF ContKept, Types
    <3> QED
      BY <1>2, <2>1, <2>5, <3>2
  <2>6. CASE air[c].sent + NextUnits(c) = said[air[c].id].len
    <3>1. ContParsed(c)
      BY <2>2, <2>3, <2>4, <2>6 DEF ContIgnored, ContDropped, ContKept
    <3>2. ~pkt'.live /\ parsed'.text = Units(air[c].id, 0, air[c].sent + NextUnits(c))
      BY <1>1, <2>3, <3>1 DEF ContParsed, Types
    <3>3. 0 \in Nat /\ air[c].sent + NextUnits(c) \in Nat /\ air[c].sent + NextUnits(c) > 0
      BY <2>4
    <3>4. parsed'.text # <<>> /\ parsed'.text[1].id = air[c].id
      <4>1. /\ Units(air[c].id, 0, air[c].sent + NextUnits(c)) # <<>>
            /\ Units(air[c].id, 0, air[c].sent + NextUnits(c))[1].id = air[c].id
        BY <2>4, <3>3, UnitsBegin
      <4> QED
        BY <3>2, <4>1
    <3>5. ~Busy(c)'
      BY <2>1, <2>4, <2>6
    <3> QED
      BY <1>2, <2>1, <3>2, <3>4, <3>5
  <2> QED
    BY <2>4, <2>5, <2>6
<1>3. CASE d # c
  <2>1. air'[d] = air[d] /\ (Busy(d)' <=> Busy(d))
    BY <1>1, <1>3, Continued
  <2>2. ~Busy(d)
    BY <1>1, <1>3 DEF WholeInv
  <2>3. ~pkt.live /\ parsed.text # <<>> /\ parsed.text[1].id = air[d].id
    BY <1>1, <2>1, <2>2 DEF DoneInv
  <2>4. pkt' = pkt /\ parsed' = parsed
    BY <2>3 DEF ContIgnored, ContDropped, ContKept, ContParsed
  <2> QED
    BY <2>1, <2>2, <2>3, <2>4
<1> QED
  BY <1>2, <1>3

\* A lost link leaves the packet alone and every characteristic without a message.
LEMMA LostIInv == ASSUME IInv, LinkLost PROVE IInv'
<1>1. \A c \in Chars : air'[c].id = 0
  BY DEF LinkLost, NoMessage
<1>2. air' \in [Chars -> [id : 0..MaxMsgs, sent : Nat]]
  <2>1. 0 \in 0..MaxMsgs /\ 0 \in Nat
    BY RepliesConstants
  <2> QED
    BY <2>1 DEF LinkLost, NoMessage
<1>3. Types'
  BY <1>2 DEF IInv, Types, LinkLost, output, history
<1>4. AirInv'
  BY <1>1 DEF AirInv
<1>5. OneBlock' /\ OrderInv' /\ WholeReplies'
  BY DEF IInv, LinkLost, OneBlock, OrderInv, WholeReplies, output, history
<1>6. WholeInv' /\ DoneInv'
  BY <1>1 DEF WholeInv, DoneInv, Busy
<1> QED
  BY <1>3, <1>4, <1>5, <1>6 DEF IInv

\* Every step keeps the inductive invariant.
LEMMA NextIInv == ASSUME IInv, [Next]_vars PROVE IInv'
<1>1. Types /\ AirInv /\ OneBlock /\ OrderInv
  BY DEF IInv
<1>2. ASSUME NEW c \in Chars, NEW len \in Lens, NotifyFirst(c, len) PROVE IInv'
  <2>1. Begins(c, len) /\ (FirstKept(c, len) \/ FirstParsed(c, len) \/ FirstSkipped(c, len))
    BY <1>1, <1>2, FirstFrame
  <2>2. Types' /\ AirInv' /\ OrderInv' /\ OneBlock'
    BY <1>1, <2>1, FirstTypes, FirstAir, FirstOrder
  <2>3. WholeReplies' /\ WholeInv' /\ DoneInv'
    BY <2>1, FirstWhole, FirstKeeps, FirstDone
  <2> QED
    BY <2>2, <2>3 DEF IInv
<1>3. ASSUME NEW c \in Chars, NotifyCont(c) PROVE IInv'
  <2>1. Continues(c) /\ (ContIgnored \/ ContDropped(c) \/ ContKept(c) \/ ContParsed(c))
    BY <1>1, <1>3, ContFrame
  <2>2. Types' /\ AirInv' /\ OrderInv' /\ OneBlock'
    BY <1>1, <2>1, ContTypes, ContAir, ContOrder
  <2>3. WholeReplies' /\ WholeInv' /\ DoneInv'
    BY <2>1, ContWhole, ContKeeps, ContDone
  <2> QED
    BY <2>2, <2>3 DEF IInv
<1>4. CASE LinkLost
  BY <1>4, LostIInv
<1>5. CASE UNCHANGED vars
  BY <1>5 DEF IInv, Types, AirInv, OneBlock, OrderInv, WholeReplies, WholeInv, DoneInv, Busy,
              vars, camera, output, history
<1> QED
  BY <1>2, <1>3, <1>4, <1>5 DEF Next

-----------------------------------------------------------------------------
(* What follows of the specification *)

\* The inductive invariant holds in every state of gopro_packet_build.
THEOREM ReplyInvariant == Spec => []IInv
<1> QED
  BY InitIInv, NextIInv, PTL DEF Spec

\* The state keeps its types, and a packet under way is shorter than it is to become.
THEOREM RepliesTypeOK == Spec => []TypeOK
<1>1. IInv => TypeOK
  <2> SUFFICES ASSUME IInv PROVE TypeOK
    OBVIOUS
  <2>1. Types /\ OneBlock
    BY DEF IInv
  <2>2. blocks \in Nat
    BY <2>1 DEF OneBlock
  <2> QED
    BY <2>1, <2>2 DEF Types, TypeOK
<1> QED
  BY <1>1, ReplyInvariant, PTL

\* The one block of memory is allocated exactly as long as there is a packet, however
\* frames of several characteristics are mixed (gopro_packet_build).
THEOREM BlockIsPacket == Spec => []OneBlock
<1>1. IInv => OneBlock
  BY DEF IInv
<1> QED
  BY <1>1, ReplyInvariant, PTL

\* What gopro_packet_parse is given is one whole message under its own characteristic, as
\* long as the camera does not mix messages.
THEOREM RepliesAreWhole == Spec => []WholeReplies
<1>1. IInv => WholeReplies
  BY DEF IInv
<1> QED
  BY <1>1, ReplyInvariant, PTL

\* A message whose last frame has been taken has been parsed and freed, as long as the
\* camera does not mix messages and there was memory for it.
THEOREM RepliesComplete == Spec => []ReplyCompletes
<1>1. IInv => ReplyCompletes
  BY DEF IInv, DoneInv, ReplyCompletes
<1> QED
  BY <1>1, ReplyInvariant, PTL

\* Every packet parsed began after the packet parsed before it, so none is parsed twice
\* (gopro_packet_build, gopro_packet_parse).
THEOREM RepliesInOrder == Spec => ParsedInOrder
<1>1. IInv /\ [Next]_vars =>
        [parses' # parses /\ parsed.text # <<>> => parsed'.text[1].id > parsed.text[1].id]_vars
  <2> SUFFICES ASSUME IInv, Next, parses' # parses, parsed.text # <<>>
               PROVE  parsed'.text[1].id > parsed.text[1].id
    OBVIOUS
  <2>1. Types /\ AirInv /\ OneBlock /\ OrderInv
    BY DEF IInv
  <2>2. ASSUME NEW c \in Chars, NEW len \in Lens, NotifyFirst(c, len)
        PROVE  parsed'.text[1].id > parsed.text[1].id
    <3>1. Begins(c, len) /\ FirstParsed(c, len)
      BY <2>1, <2>2, FirstFrame DEF FirstKept, FirstSkipped
    <3>2. parsed'.text[1].id = NextId
      BY <2>1, <3>1, FirstUnitsAre DEF FirstParsed, Begins
    <3>3. Len(said) \in Nat
      BY <2>1, Elements DEF Types
    <3>4. parsed.text[1].id \in 1..Len(said)
      BY <2>1 DEF OrderInv
    <3> QED
      BY <3>2, <3>3, <3>4 DEF NextId
  <2>3. ASSUME NEW c \in Chars, NotifyCont(c)
        PROVE  parsed'.text[1].id > parsed.text[1].id
    <3>1. Continues(c) /\ ContParsed(c)
      BY <2>1, <2>3, ContFrame DEF ContIgnored, ContDropped, ContKept
    <3>2. parsed'.text[1] = pkt.text[1]
      BY <2>1, <3>1, ContText DEF ContParsed
    <3>3. parsed.text[1].id < pkt.text[1].id
      BY <2>1, <3>1 DEF OrderInv, ContParsed
    <3>4. parsed.text[1].id \in Nat /\ pkt.text[1].id \in Nat
      <4>1. parsed.text \in Seq(Unit) /\ pkt.text \in Seq(Unit) /\ pkt.text # <<>>
        BY <2>1, <3>1 DEF Types, ContParsed
      <4>2. /\ Len(parsed.text) \in Nat /\ 1 \in 1..Len(parsed.text)
            /\ Len(pkt.text) \in Nat /\ 1 \in 1..Len(pkt.text)
        BY <4>1
      <4>3. parsed.text[1] \in Unit /\ pkt.text[1] \in Unit
        BY <4>1, <4>2, Elements
      <4> QED
        BY <4>3, RepliesConstants DEF Unit
    <3> QED
      BY <3>2, <3>3, <3>4
  <2>4. CASE LinkLost
    BY <2>4 DEF LinkLost, output
  <2> QED
    BY <2>2, <2>3, <2>4 DEF Next
<1> QED
  BY <1>1, ReplyInvariant, PTL DEF Spec, ParsedInOrder
=============================================================================

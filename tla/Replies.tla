------------------------------- MODULE Replies -------------------------------
(***************************************************************************)
(* The replies of the camera: notifications of four characteristics, put    *)
(* together by gopro_packet_build in the one gopro_packet and handed to      *)
(* gopro_packet_parse (src/gopro_packet.c, on_notify_received in            *)
(* src/gopro_client.c).  The callbacks run one after the other in the        *)
(* Bluetooth receive thread; what is hard is the order in which frames of    *)
(* several characteristics and of interrupted messages arrive.               *)
(*                                                                         *)
(* Lengths are scaled down: a first frame carries up to FirstCap units of    *)
(* a message, a continuation up to ContCap.                                  *)
(***************************************************************************)
EXTENDS Naturals, Sequences

CONSTANTS
  Chars,     \* the characteristics (gopro_control_handle_list_t)
  FirstCap,  \* payload of a first frame (19 bytes, 18 with a 13-bit length)
  ContCap,   \* payload of a continuation frame (19 bytes)
  Lens,      \* the lengths of the camera's messages
  MaxMsgs,   \* bound: messages the camera sends
  Faults     \* what may go wrong

FaultKinds == {"nomem",   \* k_malloc returns NULL
               "drop",    \* the link is lost
               "mix"}     \* the camera interleaves messages of two characteristics

ASSUME RepliesConstants ==
  /\ FirstCap \in Nat \ {0} /\ ContCap \in Nat \ {0}
  /\ Lens \subseteq Nat /\ MaxMsgs \in Nat
  /\ Faults \subseteq FaultKinds

VARIABLES
  said,    \* the messages of the camera: characteristic and length
  air,     \* per characteristic: the message being sent (0: none) and how far it is
  pkt,     \* gopro_packet
  blocks,  \* heap blocks gopro_packet_build has allocated and not freed
  parsed,  \* the packet gopro_packet_parse saw last
  parses,  \* history: how many packets gopro_packet_parse has seen
  mixed,   \* history: a message began before another one was complete
  starved  \* history: there was no memory for the message begun last

camera  == <<said, air>>
history == <<mixed, starved>>
output  == <<parsed, parses>>
vars    == <<camera, pkt, blocks, output, history>>

Unit == [id : 1..MaxMsgs, pos : Nat]
NoMessage == [id |-> 0, sent |-> 0]

TypeOK ==
  /\ said \in Seq([src : Chars, len : Lens]) /\ Len(said) <= MaxMsgs
  /\ air \in [Chars -> [id : 0..MaxMsgs, sent : Nat]]
  /\ pkt.live \in BOOLEAN /\ pkt.total \in Lens \cup {0} /\ pkt.text \in Seq(Unit)
  /\ pkt.live => pkt.src \in Chars /\ Len(pkt.text) < pkt.total
  /\ blocks \in Nat
  /\ parsed.text \in Seq(Unit) /\ parses \in Nat
  /\ mixed \in BOOLEAN /\ starved \in BOOLEAN

NoPacket == [src |-> "none", total |-> 0, text |-> <<>>, live |-> FALSE]

Init ==
  /\ said = <<>> /\ air = [c \in Chars |-> NoMessage]
  /\ pkt = NoPacket /\ blocks = 0
  /\ parsed = [src |-> "none", text |-> <<>>] /\ parses = 0
  /\ mixed = FALSE /\ starved = FALSE

-----------------------------------------------------------------------------
(* gopro_packet_build *)

Smaller(a, b) == IF a < b THEN a ELSE b

\* The units from + 1 to from + n of message id.
Units(id, from, n) == [i \in 1..n |-> [id |-> id, pos |-> from + i]]

\* gopro_packet_parse sees packet p.
Parse(p) ==
  /\ parsed' = [src |-> p.src, text |-> p.text]
  /\ parses' = parses + 1

SettleKeeps(p, freed) ==
  IF Len(p.text) = p.total
    THEN /\ Parse(p)
         /\ pkt' = [p EXCEPT !.live = FALSE]
         /\ blocks' = blocks - freed + 1
    ELSE /\ pkt' = p
         /\ blocks' = blocks - freed + 1
         /\ UNCHANGED output

\* Parse and free a packet that is complete, keep one that is not; "freed" blocks
\* have gone before, one has been allocated.
Settle(p, freed) ==
  IF Len(p.text) = p.total
    THEN /\ Parse(p)
         /\ pkt' = [p EXCEPT !.live = FALSE]
         /\ blocks' = blocks - freed
    ELSE /\ pkt' = p
         /\ blocks' = blocks - freed + 1
         /\ UNCHANGED output

\* The block a new first frame finds is freed ("Mem not free").
Leftover == IF pkt.live THEN 1 ELSE 0

FirstKeepsText(c, total, units) ==
  \/ /\ total > 0
     /\ starved' = FALSE
     /\ Settle([src |-> c, total |-> total, text |-> pkt.text \o units, live |-> TRUE], Leftover)
  \/ /\ total = 0 \/ "nomem" \in Faults
     /\ starved' = (total > 0)
     /\ pkt' = [src |-> c, total |-> total, text |-> <<>>, live |-> FALSE]
     /\ blocks' = blocks - Leftover
     /\ UNCHANGED output

\* A first frame starts over, whatever was there; a length of 0 is skipped.
First(c, total, units) ==
  \/ /\ total > 0
     /\ starved' = FALSE
     /\ Settle([src |-> c, total |-> total, text |-> units, live |-> TRUE], Leftover)
  \/ /\ total = 0 \/ "nomem" \in Faults
     /\ starved' = (total > 0)
     /\ pkt' = [src |-> c, total |-> total, text |-> <<>>, live |-> FALSE]
     /\ blocks' = blocks - Leftover
     /\ UNCHANGED output

ContinueAlways(units) == pkt.live /\ Settle([pkt EXCEPT !.text = @ \o units], 1)

ContinueStrict(units) ==
  \/ /\ ~pkt.live
     /\ UNCHANGED <<pkt, blocks, output>>
  \/ /\ pkt.live /\ Len(pkt.text) + Len(units) >= pkt.total
     /\ pkt' = [pkt EXCEPT !.live = FALSE]
     /\ blocks' = blocks - 1
     /\ UNCHANGED output
  \/ /\ pkt.live /\ Len(pkt.text) + Len(units) < pkt.total
     /\ Settle([pkt EXCEPT !.text = @ \o units], 1)

ContinueFallsThrough(units) ==
  \/ /\ ~pkt.live /\ pkt.total > 0 /\ Len(pkt.text) = pkt.total
     /\ Parse(pkt)
     /\ UNCHANGED <<pkt, blocks>>
  \/ /\ ~pkt.live /\ (pkt.total = 0 \/ Len(pkt.text) # pkt.total)
     /\ UNCHANGED <<pkt, blocks, output>>
  \/ /\ pkt.live /\ Len(pkt.text) + Len(units) > pkt.total
     /\ pkt' = [pkt EXCEPT !.live = FALSE]
     /\ blocks' = blocks - 1
     /\ UNCHANGED output
  \/ /\ pkt.live /\ Len(pkt.text) + Len(units) <= pkt.total
     /\ Settle([pkt EXCEPT !.text = @ \o units], 1)

\* A continuation goes to the packet that is there: neither its characteristic nor
\* its number is looked at.  One that does not fit ends the packet.
Continue(units) ==
  \/ /\ ~pkt.live
     /\ UNCHANGED <<pkt, blocks, output>>
  \/ /\ pkt.live /\ Len(pkt.text) + Len(units) > pkt.total
     /\ pkt' = [pkt EXCEPT !.live = FALSE]
     /\ blocks' = blocks - 1
     /\ UNCHANGED output
  \/ /\ pkt.live /\ Len(pkt.text) + Len(units) <= pkt.total
     /\ Settle([pkt EXCEPT !.text = @ \o units], 1)

-----------------------------------------------------------------------------
(* The camera, and on_notify_received for each of its frames *)

Busy(c) == air[c].id # 0 /\ air[c].sent < said[air[c].id].len

NotifyFirst(c, len) ==
  /\ Len(said) < MaxMsgs
  /\ ~Busy(c)
  /\ "mix" \in Faults \/ \A d \in Chars : ~Busy(d)
  /\ LET id == Len(said) + 1
         n  == Smaller(len, FirstCap)
     IN  /\ said' = Append(said, [src |-> c, len |-> len])
         /\ air' = [air EXCEPT ![c] = [id |-> id, sent |-> n]]
         /\ First(c, len, Units(id, 0, n))
  /\ mixed' = (mixed \/ \E d \in Chars : Busy(d))

NotifyCont(c) ==
  /\ Busy(c)
  /\ LET a == air[c]
         n == Smaller(said[a.id].len - a.sent, ContCap)
     IN  /\ air' = [air EXCEPT ![c].sent = a.sent + n]
         /\ Continue(Units(a.id, a.sent, n))
  /\ UNCHANGED <<said, history>>

\* The camera abandons its messages; gopro_packet stays as it is.
LinkLost ==
  /\ "drop" \in Faults
  /\ \E c \in Chars : Busy(c)
  /\ air' = [c \in Chars |-> NoMessage]
  /\ UNCHANGED <<said, pkt, blocks, output, history>>

-----------------------------------------------------------------------------
Next == \/ \E c \in Chars : (\E len \in Lens : NotifyFirst(c, len)) \/ NotifyCont(c)
        \/ LinkLost

Spec == Init /\ [][Next]_vars

-----------------------------------------------------------------------------
(* Properties *)

\* The packet's block is the only one that is allocated, and it is freed once,
\* whatever order the frames arrive in (gopro_packet_build).
OneBlock == blocks = IF pkt.live THEN 1 ELSE 0

\* As long as the camera sends one message at a time, what is parsed is one message,
\* whole, under its own characteristic; nothing of an abandoned message gets in.
WholeReplies ==
  ~mixed /\ parsed.text # <<>> =>
    LET id == parsed.text[1].id
    IN  parsed = [src |-> said[id].src, text |-> Units(id, 0, said[id].len)]

\* As long as the camera sends one message at a time and there is memory, a message
\* has been parsed, and its block freed, when its last frame has been taken.
ReplyCompletes ==
  \A c \in Chars :
    LET a == air[c]
    IN  ~mixed /\ ~starved /\ a.id = Len(said) /\ a.id # 0 /\ ~Busy(c) /\ said[a.id].len > 0
          => ~pkt.live /\ parsed.text # <<>> /\ parsed.text[1].id = a.id

\* No packet is parsed a second time and none after a packet that began later, however
\* frames are mixed: the lengths of a packet outlive its block, and only the block tells a
\* late continuation that the packet is over (gopro_packet_build).
ParsedInOrder ==
  [][parses' # parses /\ parsed.text # <<>> => parsed'.text[1].id > parsed.text[1].id]_vars

\* "Source of the packet, (cmd, query, settings...)": everything in a parsed packet
\* came from the characteristic packet_type names (struct gopro_packet_t).
PacketTypeIsSource ==
  \A i \in 1..Len(parsed.text) : said[parsed.text[i].id].src = parsed.src
=============================================================================

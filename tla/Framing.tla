------------------------------- MODULE Framing -------------------------------
(***************************************************************************)
(* The framing of easenet (enet_packet.c): a packet is a head with the     *)
(* length, the body and a tail; the receiver keeps what is not yet a       *)
(* packet in a buffer and gets one packet at a time out of buffer and      *)
(* input, in whatever pieces TCP delivers the stream.  A byte is known by   *)
(* its packet, the length of the body that packet's head tells, and its    *)
(* place in the packet.                                                    *)
(*                                                                         *)
(* Sizes are those of the code with a smaller head and tail.  Counts are   *)
(* unsigned in the code: a count below 0 is a copy that ends in a fault,   *)
(* as is a copy from the null pointer; a copy from beyond the input finds  *)
(* stray bytes.  Packets fit into the buffers (the code asserts it).       *)
(***************************************************************************)
EXTENDS Integers, Sequences

CONSTANTS HeadSize, TailSize,  \* HEAD_SIZE and TAIL_SIZE
          MaxBody,             \* bound: length of a body
          MaxStream            \* bound: packets in a stream

ASSUME FramingAssumption ==
  {HeadSize, TailSize} \subseteq Nat \ {0} /\ {MaxBody, MaxStream} \subseteq Nat

Stray == <<0, 0, 0>>
Whole(length) == HeadSize + length + TailSize

(* enet_pack_data.                                                         *)
Pack(p, length) == [i \in 1..Whole(length) |-> <<p, length, i>>]
Body(p, length) == SubSeq(Pack(p, length), HeadSize + 1, HeadSize + length)

(* enet_is_head_valid, and the length in a head.                           *)
ValidHead(s) == \A i \in 1..HeadSize : s[i] = <<s[1][1], s[1][2], i>>
Length(s) == s[1][2]

(* memcpy of n bytes from the offset.                                      *)
Copy(s, offset, n) ==
  [i \in 1..n |-> IF offset + i \in DOMAIN s THEN s[offset + i] ELSE Stray]

Answer(st, buf, out) == [st |-> st, buf |-> buf, out |-> out]

(* enet_unpack_data with an empty buffer.  What follows a whole packet is  *)
(* kept together with the tail of that packet.                             *)
UnpackFirst(in) ==
  LET n == Len(in)
  IN IF n < HeadSize THEN Answer("incomplete", in, <<>>)
     ELSE IF ~ValidHead(in) THEN Answer("corrupt", <<>>, <<>>)
     ELSE IF n < Whole(Length(in)) THEN Answer("incomplete", in, <<>>)
     ELSE Answer("ok",
                 IF n = Whole(Length(in)) THEN <<>> ELSE SubSeq(in, HeadSize + Length(in) + 1, n),
                 SubSeq(in, HeadSize + 1, HeadSize + Length(in)))

(* A plausible fault: what is kept begins with the tail of the last packet. *)
UnpackMoreKeepsTail(in, at, buf) ==
  LET size == Len(in) - at
      length == Length(buf)
      i == Len(buf) - HeadSize
      j == length - i
      k == size - j - TailSize
      faults == (size < 0 /\ k < 0) \/ (in = <<>> /\ k > 0)
  IN IF ~ValidHead(buf) THEN Answer("garbage", buf, <<>>)
     ELSE IF faults THEN Answer("fault", buf, <<>>)
     ELSE IF k < 0 THEN Answer("incomplete", buf \o Copy(in, at, size), <<>>)
     ELSE Answer("ok", Copy(in, at + j, k),
                 IF j > 0 THEN Copy(buf, HeadSize, i) \o Copy(in, at, j)
                 ELSE Copy(buf, HeadSize, length))

(* enet_unpack_data once the buffer has a head.  The code does not validate *)
(* it: with bytes that are no head the length is garbage, and so is what   *)
(* comes.  `at' is how far the input was used; i, j, k are the code's.      *)
UnpackMore(in, at, buf) ==
  LET size == Len(in) - at
      length == Length(buf)
      i == Len(buf) - HeadSize
      j == length - i
      k == size - j - TailSize
      faults == (size < 0 /\ k < 0) \/ (in = <<>> /\ k > 0)
  IN IF ~ValidHead(buf) THEN Answer("garbage", buf, <<>>)
     ELSE IF faults THEN Answer("fault", buf, <<>>)
     ELSE IF k < 0 THEN Answer("incomplete", buf \o Copy(in, at, size), <<>>)
     ELSE Answer("ok", Copy(in, at + j + TailSize, k),
                 IF j > 0 THEN Copy(buf, HeadSize, i) \o Copy(in, at, j)
                 ELSE Copy(buf, HeadSize, length))

(* A split head is completed with as many bytes as a head has.             *)
Unpack(in, buf) ==
  IF buf = <<>> THEN UnpackFirst(in)
  ELSE IF Len(buf) >= HeadSize THEN UnpackMore(in, 0, buf)
  ELSE IF Len(in) + Len(buf) <= HeadSize THEN Answer("incomplete", buf \o in, <<>>)
  ELSE UnpackMore(in, HeadSize, buf \o Copy(in, 0, HeadSize))

(* One turn of the loop in enet_tcp_server_process_recv; got is what the   *)
(* callback was given.                                                     *)
Start == [st |-> "incomplete", buf |-> <<>>, got |-> <<>>]

Again(s, in) ==
  LET r == Unpack(in, s.buf)
  IN [st |-> r.st, buf |-> r.buf, got |-> IF r.st = "ok" THEN Append(s.got, r.out) ELSE s.got]

-----------------------------------------------------------------------------
VARIABLES bodies,  \* the lengths of the bodies the peer sends
          arrived, \* how many bytes of the stream have arrived
          rx,      \* client->buffer, and what the callback was given
          kind     \* have all pieces been kind?

framing == <<bodies, arrived, rx, kind>>

(* Packet p is the bytes From[p] + 1 to To(p) of the stream.               *)
From[p \in 1..(Len(bodies) + 1)] == IF p = 1 THEN 0 ELSE From[p - 1] + Whole(bodies[p - 1])
To(p) == From[p] + Whole(bodies[p])

PacketOf(x) == CHOOSE p \in DOMAIN bodies : x \in (From[p] + 1)..To(p)

Stream ==
  [x \in 1..From[Len(bodies) + 1] |->
     LET p == PacketOf(x) IN Pack(p, bodies[p])[x - From[p]]]

(* What the code demands of TCP, for the bytes after a up to b, which      *)
(* start in packet p: a piece that starts a packet ends with it; one that  *)
(* completes a split head has the length of a head, unless it completes    *)
(* the packet; and one that goes past the end of a packet brings at most   *)
(* one more.                                                               *)
IsKind(a, b) ==
  \A p \in DOMAIN bodies : a \in From[p]..(To(p) - 1) =>
    /\ a = From[p] => b <= To(p)
    /\ (a > From[p] /\ a < From[p] + HeadSize /\ b > From[p] + HeadSize)
         => (b - a >= HeadSize \/ b >= To(p))
    /\ b > To(p) => b <= To(p + 1)

NoStream == bodies = <<>> /\ arrived = 0 /\ rx = Start /\ kind = TRUE

(* The peer packs its packets and sends them.                              *)
SendStream ==
  /\ bodies = <<>>
  /\ \E n \in 1..MaxStream : bodies' \in [1..n -> 0..MaxBody]
  /\ UNCHANGED <<arrived, rx, kind>>

(* recv answers with the next piece of the stream, of any length, and the  *)
(* loop unpacks it.                                                        *)
ArrivePiece ==
  /\ rx.st # "ok"
  /\ \E b \in (arrived + 1)..Len(Stream) :
       /\ rx' = IF rx.st \in {"garbage", "fault"} THEN rx
                ELSE Again(rx, SubSeq(Stream, arrived + 1, b))
       /\ arrived' = b
       /\ kind' = (kind /\ IsKind(arrived, b))
  /\ UNCHANGED bodies

(* A packet came out: the loop goes on without input.                      *)
GoOn ==
  /\ rx.st = "ok"
  /\ rx' = Again(rx, <<>>)
  /\ UNCHANGED <<bodies, arrived, kind>>

FramingNext == SendStream \/ ArrivePiece \/ GoOn

FramingSpec == NoStream /\ [][FramingNext]_framing

(* A stream comes out if, and only if, the pieces it arrives in are kind:  *)
(* every packet is handed to the callback once, in order and unchanged,    *)
(* and nothing stays in the buffer (enet_unpack_data and the loop of       *)
(* enet_tcp_server_process_recv: heads, bodies and tails split anywhere,   *)
(* in two pieces or many, and packets that arrive together).               *)
KindStreamsComeOut ==
  arrived = Len(Stream) /\ rx.st # "ok" =>
    (kind <=> rx.buf = <<>> /\ rx.got = [p \in DOMAIN bodies |-> Body(p, bodies[p])])
=============================================================================

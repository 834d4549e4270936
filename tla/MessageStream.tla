---------------------------- MODULE MessageStream ----------------------------
(***************************************************************************)
(* The messages the service sends to a client over a stream socket:        *)
(* UDSSession::SendMsg on the worker thread of the service, the kernel's   *)
(* buffer, and on the client's side the loop of MMIFdListener::OnReadable, *)
(* the buffer CircleStreamBuffer and UDSSocket::OnReadPackets, which cuts  *)
(* packets out of it.                                                      *)
(*                                                                         *)
(* A packet is a header of HEAD bytes, which says how long the rest is,    *)
(* and the rest.  A byte is modelled by where it comes from.  The socket   *)
(* takes what it has room for, so a packet can be sent in parts; after     *)
(* SEND_RETRY_LIMIT tries SendMsg gives up, whatever part was sent.        *)
(***************************************************************************)
EXTENDS Integers, Sequences

CONSTANTS
  HEAD,                 \* sizeof(PackHead)
  MAX_PACKET_BUF_SIZE,
  SEND_RETRY_LIMIT,
  SOCKET_ROOM,          \* what the kernel buffers
  MaxPackets            \* bound of the model

ASSUME StreamAssumption ==
  /\ HEAD \in Nat \ {0}
  /\ MAX_PACKET_BUF_SIZE \in Nat /\ HEAD <= MAX_PACKET_BUF_SIZE
  /\ SEND_RETRY_LIMIT \in Nat \ {0}
  /\ SOCKET_ROOM \in Nat
  /\ MaxPackets \in Nat

MAX_STREAM_BUF_SIZE == 2 * MAX_PACKET_BUF_SIZE

VARIABLES
  packets,  \* number of packets the service began to send
  sending,  \* SendMsg at work: what is left of the packet, and its tries
  wire,     \* bytes in the socket
  rPos_,    \* circBuf_: read position,
  unread,   \*   and the bytes between it and the write position
  reading,  \* the thread of the client is at: "idle", "recv", "parse"
  more,     \* shouldTry of OnReadable
  sent,     \* packets for which SendMsg returned true
  got,      \* packets that were handed on, in order; 0 is no packet of the service
  torn,     \* part of a packet was given up, or lost with its connection
  refused   \* circBuf_ refused bytes

stream == <<packets, sending, wire, rPos_, unread, reading, more, sent, got, torn,
            refused>>

\* The bytes of packet p, which has n bytes.
Packet(p, n) == [i \in 1 .. n |-> [packet |-> p, at |-> i, size |-> n]]

NotSending == [rest |-> << >>, tries |-> -1]
Sending == sending # NotSending

StreamInit ==
  /\ packets = 0 /\ sending = NotSending /\ wire = << >>
  /\ rPos_ = 0 /\ unread = << >>
  /\ reading = "idle" /\ more = FALSE
  /\ sent = {} /\ got = << >>
  /\ torn = FALSE /\ refused = FALSE

Least(a, b) == IF a <= b THEN a ELSE b
First(s, n) == SubSeq(s, 1, n)
From(s, n) == SubSeq(s, n + 1, Len(s))
-----------------------------------------------------------------------------
(* SendMsg.                                                                *)

\* Mutant: the limit is meant for what follows the header.
Sizes_WithoutHeader == HEAD .. MAX_PACKET_BUF_SIZE + HEAD

\* Header and rest together are limited.
Sizes == HEAD .. MAX_PACKET_BUF_SIZE

SendMsg(n) ==
  /\ ~Sending /\ packets < MaxPackets
  /\ n \in Sizes
  /\ packets' = packets + 1
  /\ sending' = [rest |-> Packet(packets + 1, n), tries |-> 0]
  /\ UNCHANGED <<wire, rPos_, unread, reading, more, sent, got, torn, refused>>

\* One call of send: the socket takes some bytes, or none (EAGAIN, EINTR); with
\* the last byte or the last try SendMsg returns.  A packet that was sent with
\* the last try counts as not sent.
SendSome ==
  /\ Sending
  /\ \E k \in 0 .. Least(Len(sending.rest), SOCKET_ROOM - Len(wire)) :
       LET rest == From(sending.rest, k)
           tries == sending.tries + 1
           returns == rest = << >> \/ tries = SEND_RETRY_LIMIT IN
         /\ wire' = wire \o First(sending.rest, k)
         /\ sending' = IF returns THEN NotSending ELSE [rest |-> rest, tries |-> tries]
         /\ sent' = IF rest = << >> /\ tries < SEND_RETRY_LIMIT
                    THEN sent \union {packets} ELSE sent
         /\ torn' = (torn \/ (returns /\ rest # << >> /\ rest[1].at > 1))
  /\ UNCHANGED <<packets, rPos_, unread, reading, more, got, refused>>
-----------------------------------------------------------------------------
(* OnReadable, OnRecvMsg.                                                  *)

\* Mutant: the bytes before the read position are taken for free ones.
WriteTo_NoCopy(chunk) ==
  IF Len(unread) + Len(chunk) <= MAX_STREAM_BUF_SIZE
  THEN unread' = unread \o chunk /\ UNCHANGED <<rPos_, refused>>
  ELSE refused' = TRUE /\ UNCHANGED <<rPos_, unread>>

\* CircleStreamBuffer::Write moves the unread bytes to the begin when it has to.
WriteTo(chunk) ==
  LET fits == rPos_ + Len(unread) + Len(chunk) <= MAX_STREAM_BUF_SIZE IN
    /\ rPos_' = IF fits THEN rPos_ ELSE 0
    /\ IF Len(unread) + Len(chunk) <= MAX_STREAM_BUF_SIZE
       THEN unread' = unread \o chunk /\ UNCHANGED refused
       ELSE refused' = TRUE /\ UNCHANGED unread

\* Up to MAX_PACKET_BUF_SIZE bytes are read and written to circBuf_.
Recv ==
  /\ reading = "recv" /\ wire # << >>
  /\ LET n == Least(Len(wire), MAX_PACKET_BUF_SIZE) IN
       /\ wire' = From(wire, n)
       /\ WriteTo(First(wire, n))
       /\ more' = (n = MAX_PACKET_BUF_SIZE)
  /\ reading' = "parse"
  /\ UNCHANGED <<packets, sending, sent, got, torn>>

\* Nothing to read: OnReadable returns.
RecvNothing ==
  /\ reading = "recv" /\ wire = << >>
  /\ reading' = "idle" /\ more' = FALSE
  /\ UNCHANGED <<packets, sending, wire, rPos_, unread, sent, got, torn, refused>>
-----------------------------------------------------------------------------
(* OnReadPackets, one packet at a time.                                    *)

HasHeader == Len(unread) >= HEAD

\* What the header at the read position says of the rest: that of a packet, or,
\* where no packet begins, anything; -1 stands for a size that cannot be.
IsPacketStart ==
  \A i \in 1 .. HEAD : unread[i] = [unread[1] EXCEPT !.at = i]

SaysSize(n) ==
  IF IsPacketStart THEN n = unread[1].size - HEAD ELSE n \in -1 .. MAX_PACKET_BUF_SIZE

\* Mutant: the header is left out.
PacketLength_Rest(n) == n

\* GetPacketLength of a packet with n bytes after the header.
PacketLength(n) == HEAD + n

IsComplete(n) == n <= Len(unread) - HEAD

\* The packet that the first n bytes are, or 0.
PacketOf(n) == IF First(unread, n) = Packet(unread[1].packet, n)
               THEN unread[1].packet ELSE 0

Back == IF more THEN "recv" ELSE "idle"

\* There is no whole packet: OnReadPackets returns.
ParseWaits ==
  /\ reading = "parse"
  /\ HasHeader => \E n \in 0 .. MAX_PACKET_BUF_SIZE : SaysSize(n) /\ ~IsComplete(n)
  /\ reading' = Back
  /\ UNCHANGED <<packets, sending, wire, rPos_, unread, more, sent, got, torn, refused>>

\* The size is out of range: everything is dropped.
ParseResets ==
  /\ reading = "parse" /\ HasHeader
  /\ SaysSize(-1)
  /\ rPos_' = 0 /\ unread' = << >>
  /\ reading' = Back
  /\ UNCHANGED <<packets, sending, wire, more, sent, got, torn, refused>>

\* Mutant: one packet for each call.
ParseDelivers_One ==
  /\ reading = "parse" /\ HasHeader
  /\ \E n \in 0 .. MAX_PACKET_BUF_SIZE :
       /\ SaysSize(n) /\ IsComplete(n)
       /\ got' = Append(got, PacketOf(HEAD + n))
       /\ unread' = From(unread, PacketLength(n))
       /\ rPos_' = IF unread' = << >> THEN 0 ELSE rPos_ + PacketLength(n)
       /\ reading' = Back
  /\ UNCHANGED <<packets, sending, wire, more, sent, torn, refused>>

\* A packet is handed to the message handler; an empty buffer starts anew.
ParseDelivers ==
  /\ reading = "parse" /\ HasHeader
  /\ \E n \in 0 .. MAX_PACKET_BUF_SIZE :
       /\ SaysSize(n) /\ IsComplete(n)
       /\ got' = Append(got, PacketOf(HEAD + n))
       /\ unread' = From(unread, PacketLength(n))
       /\ rPos_' = IF unread' = << >> THEN 0 ELSE rPos_ + PacketLength(n)
       /\ reading' = IF unread' = << >> THEN Back ELSE "parse"
  /\ UNCHANGED <<packets, sending, wire, more, sent, torn, refused>>

ReadStep == Recv \/ RecvNothing \/ ParseWaits \/ ParseResets \/ ParseDelivers
-----------------------------------------------------------------------------
(* Properties.                                                             *)

Byte == [packet : Nat \ {0}, at : Nat \ {0}, size : Nat \ {0}]

\* Buffers hold bytes, and the write position stays inside circBuf_.
StreamTypeOK ==
  /\ packets \in 0 .. MaxPackets
  /\ sending \in [rest : Seq(Byte), tries : -1 .. SEND_RETRY_LIMIT - 1]
  /\ wire \in Seq(Byte) /\ Len(wire) <= SOCKET_ROOM
  /\ rPos_ \in Nat /\ unread \in Seq(Byte)
  /\ rPos_ + Len(unread) <= MAX_STREAM_BUF_SIZE
  /\ reading \in {"idle", "recv", "parse"} /\ more \in BOOLEAN
  /\ sent \subseteq Nat /\ got \in Seq(Nat)
  /\ torn \in BOOLEAN /\ refused \in BOOLEAN

\* The client's buffer never refuses what was read from the socket, unless part
\* of a packet was given up before: what waits there is less than a packet.
\* OnRecvMsg only logs a refusal, and the stream would be out of step for good.
BufferHasRoom == refused => torn

\* What the client's handlers get are packets as the service sent them, in that
\* order, however the bytes were cut on the way.
WholeInOrder ==
  ~torn => /\ \A i \in 1 .. Len(got) : got[i] \in 1 .. packets
           /\ \A i, j \in 1 .. Len(got) : i < j => got[i] < got[j]
=============================================================================

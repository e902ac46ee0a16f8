------------------------------ MODULE Packets ------------------------------
(***************************************************************************)
(* The packets of packets.cpp as bytes: what toBuffer puts into a stream,  *)
(* how much of it the other end waits for, and what fromBuffer makes of it.*)
(*                                                                         *)
(* One stream is modelled, from a writer to a reader.  A reader keeps the  *)
(* bytes it has received in a streambuf, and a Connection puts its answers *)
(* into that same streambuf (Connection::buffer), so what a packet leaves  *)
(* in it would go out again.  All five packets are here, the GameStatus    *)
(* packet too, which a Connection waits for and no client writes yet.      *)
(*                                                                         *)
(* Widths are constants: a byte has Base values, a uint32_t Word bytes,    *)
(* a digest Digest bytes.  Blank is what operator>> takes for white space. *)
(***************************************************************************)
EXTENDS Integers, Sequences, SequencesExt, Powers

CONSTANTS
  Base,       \* values of a byte: 256
  Blank,      \* white space: 9 to 13 and 32
  Word,       \* sizeof(uint32_t)
  Digest,     \* SHA256::DIGEST_SIZE
  Hashes,     \* digests that are sent
  MaxHashes   \* bound on the bots and on the maps of one handshake

Byte == 0..Base - 1

ASSUME PacketsAssumption ==
  /\ Base \in Nat /\ Word \in Nat \ {0} /\ Digest \in Nat \ {0}
  /\ Blank \subseteq Byte \ {0, 1} /\ {0, 1} \subseteq Byte
  /\ Hashes \subseteq [1..Digest -> Byte]
  /\ MaxHashes \in Nat /\ 3 + 2 * Word + 2 * Digest * MaxHashes < Power(Base, Word)

VARIABLES
  sent,    \* the packets written, in order
  wire,    \* bytes written and not received
  buffer,  \* the reader's streambuf, between two handlers
  await,   \* the read it has started: a kind of packet and its bytes
  got      \* the packets read, in order

vars == <<sent, wire, buffer, await, got>>

---------------------------------------------------------------------------
(* The packets. *)

DISCONNECT == 0
START_GAME == 1
Codes == {0, 1}  \* of PregameCommand, PregameDisconnectReason, GameStatus

Lists == UNION {[1..n -> Hashes] : n \in 0..MaxHashes}

(* Every packet that can be written.  The version is not restricted to the *)
(* one of this build: the reader's may be another.                         *)
Handshakes == [kind : {"handshake"}, version : [1..3 -> Byte], bots : Lists, maps : Lists]
Coded(kind) == [kind : {kind}, code : Codes]
StartGames == [kind : {"game"}, data : [1..3 -> Hashes]]

---------------------------------------------------------------------------
(* Writing. *)

(* writeUint32: network order. *)
WriteUint32(n) == [i \in 1..Word |-> (n \div Power(Base, Word - i)) % Base]

(* Mistake: the prefix itself is counted. *)
SizeWithPrefix(p) == 3 + 3 * Word + Digest * (Len(p.bots) + Len(p.maps))

(* ClientHandshakePacket::size, and the same sum in toBuffer. *)
HandshakeSize(p) == 3 + 2 * Word + Digest * (Len(p.bots) + Len(p.maps))

(* toBuffer of each packet.  The enumerators are bytes, and so operator<<  *)
(* and the writes put exactly these.                                       *)
ToBuffer(p) ==
  CASE p.kind = "handshake" ->
         WriteUint32(HandshakeSize(p)) \o p.version
           \o WriteUint32(Len(p.bots)) \o FlattenSeq(p.bots)
           \o WriteUint32(Len(p.maps)) \o FlattenSeq(p.maps)
    [] p.kind = "game" -> FlattenSeq(p.data)
    [] OTHER -> <<p.code>>

---------------------------------------------------------------------------
(* Reading.  A short istream::read leaves the zeros its destination was    *)
(* set to, and so does every read after it; operator>> at the end keeps    *)
(* the old value, zero too.  So an istream reads as if zeros followed its  *)
(* bytes without end, and a cursor is a position in them.                  *)

Peek(bytes, i) == IF i <= Len(bytes) THEN bytes[i] ELSE 0

(* istream::read of n bytes. *)
ReadBytes(bytes, i, n) == [j \in 1..n |-> Peek(bytes, i + j - 1)]

(* Where operator>> finds its byte: behind white space. *)
Skip(bytes, i) ==
  CHOOSE j \in i..i + Len(bytes) :
    Peek(bytes, j) \notin Blank /\ \A k \in i..j - 1 : Peek(bytes, k) \in Blank

(* Mistake: ntohl is forgotten on a little-endian machine. *)
ReadHostUint32(bytes, i) ==
  FoldRight(LAMBDA b, n : n * Base + b, ReadBytes(bytes, i, Word), 0)

(* Mistake: the value is read into an int. *)
ReadInt32(bytes, i) ==
  LET n == FoldLeft(LAMBDA m, b : m * Base + b, 0, ReadBytes(bytes, i, Word))
  IN IF 2 * n < Power(Base, Word) THEN n ELSE n - Power(Base, Word)

(* readUint32: network order. *)
ReadUint32(bytes, i) ==
  LET value[n \in Nat] == IF n = 0 THEN 0 ELSE value[n - 1] * Base + Peek(bytes, i + n - 1)
  IN value[Word]

(* n times readHashBuffer. *)
ReadHashes(bytes, i, n) == [k \in 1..n |-> ReadBytes(bytes, i + (k - 1) * Digest, Digest)]

(* A packet, and what is left in the buffer from position i on. *)
Result(packet, bytes, i) == [packet |-> packet, rest |-> SubSeq(bytes, i, Len(bytes))]

(* Mistake: the loop over the maps ends one short. *)
ReadHandshakeShort(bytes) ==
  LET maps  == 4 + Word + Digest * ReadUint32(bytes, 4)
      nMaps == ReadUint32(bytes, maps) - 1
  IN Result([kind |-> "handshake", version |-> ReadBytes(bytes, 1, 3),
             bots |-> ReadHashes(bytes, 4 + Word, ReadUint32(bytes, 4)),
             maps |-> ReadHashes(bytes, maps + Word, nMaps)],
            bytes, maps + Word + Digest * nMaps)

(* ClientHandshakePacket::fromBuffer. *)
ReadHandshake(bytes) ==
  LET major == Skip(bytes, 1)
      minor == Skip(bytes, major + 1)
      patch == Skip(bytes, minor + 1)
      nBots == ReadUint32(bytes, patch + 1)
      bots  == patch + 1 + Word
      nMaps == ReadUint32(bytes, bots + nBots * Digest)
      maps  == bots + nBots * Digest + Word
  IN Result([kind    |-> "handshake",
             version |-> <<Peek(bytes, major), Peek(bytes, minor), Peek(bytes, patch)>>,
             bots    |-> ReadHashes(bytes, bots, nBots),
             maps    |-> ReadHashes(bytes, maps, nMaps)],
            bytes, maps + nMaps * Digest)

ReadStartGame(bytes) ==
  Result([kind |-> "game", data |-> ReadHashes(bytes, 1, 3)], bytes, 3 * Digest + 1)

(* fromBuffer of the packets of one byte: into a variable that is not      *)
(* initialised and keeps its junk when there is nothing to read.           *)
ReadCode(kind, bytes, junk) ==
  LET i == Skip(bytes, 1)
  IN Result([kind |-> kind, code |-> IF i <= Len(bytes) THEN bytes[i] ELSE junk], bytes, i + 1)

FromBuffer(kind, bytes, junk) ==
  CASE kind = "handshake" -> ReadHandshake(bytes)
    [] kind = "game"      -> ReadStartGame(bytes)
    [] OTHER              -> ReadCode(kind, bytes, junk)

---------------------------------------------------------------------------
(* The two ends. *)

Await(kind, bytes) == [kind |-> kind, bytes |-> bytes]
Nothing == Await("nothing", 0)

(* The read a handler starts after packet p: the server waits for a status *)
(* after the handshake; the client's next read depends on the command, and *)
(* a bad one is an assert.                                                 *)
Then(p) ==
  CASE p.kind = "handshake" -> Await("status", 1)
    [] p.kind = "command" /\ p.code = DISCONNECT -> Await("reason", 1)
    [] p.kind = "command" /\ p.code = START_GAME -> Await("game", 3 * Digest)
    [] OTHER -> Nothing

(* The server starts with the size of the handshake, the client with a     *)
(* command.                                                                *)
Init ==
  /\ sent = <<>> /\ wire = <<>> /\ buffer = <<>> /\ got = <<>>
  /\ await \in {Await("size", Word), Await("command", 1)}

(* What may be written next: the handshake and a status towards a server,  *)
(* a command and its argument towards a client.                            *)
Writable ==
  IF sent = <<>>
  THEN IF await.kind = "size" THEN Handshakes ELSE Coded("command")
  ELSE CASE Last(sent).kind = "handshake" -> Coded("status")
         [] Last(sent) = [kind |-> "command", code |-> DISCONNECT] -> Coded("reason")
         [] Last(sent) = [kind |-> "command", code |-> START_GAME] -> StartGames
         [] OTHER -> {}

Write(p) ==
  /\ sent' = Append(sent, p)
  /\ wire' = wire \o ToBuffer(p)
  /\ UNCHANGED <<buffer, await, got>>

(* async_read with transfer_exactly completes.                             *)
Received == buffer \o SubSeq(wire, 1, await.bytes)

Receives ==
  /\ await # Nothing
  /\ await.bytes <= Len(wire)
  /\ wire' = SubSeq(wire, await.bytes + 1, Len(wire))
  /\ UNCHANGED sent

(* readHandshakeSizeFn: the prefix says what to wait for. *)
ReadSize ==
  /\ Receives
  /\ await.kind = "size"
  /\ await' = Await("handshake", ReadUint32(Received, 1))
  /\ buffer' = SubSeq(Received, Word + 1, Len(Received))
  /\ UNCHANGED got

(* The handlers that construct a packet from their buffer. *)
ReadPacket ==
  /\ Receives
  /\ await.kind # "size"
  /\ \E bytes \in {Received}, junk \in Byte :
       \E r \in {FromBuffer(await.kind, bytes, junk)} :
         /\ buffer' = r.rest
         /\ got' = Append(got, r.packet)
         /\ await' = Then(r.packet)

Next ==
  \/ \E p \in Writable : Write(p)
  \/ ReadSize
  \/ ReadPacket

Spec == Init /\ [][Next]_vars

---------------------------------------------------------------------------
(* Properties. *)

(* A version no byte of which operator>> would skip: this build's 0.1.0 is *)
(* one, 9.0.1 is not, and is read as 0.1 with the next byte.               *)
Solid(p) == p.kind = "handshake" => \A i \in 1..3 : p.version[i] \notin Blank

AllSolid == \A i \in DOMAIN sent : Solid(sent[i])

(* Every variable keeps its shape; in particular a misread handshake is    *)
(* still one of bytes and whole digests.                                   *)
TypeOK ==
  /\ wire \in Seq(Byte) /\ buffer \in Seq(Byte)
  /\ await.bytes \in Nat
  /\ \A i \in DOMAIN got :
       LET p == got[i]
       IN CASE p.kind = "handshake" ->
                 /\ p.version \in [1..3 -> Byte]
                 /\ p.bots \in Seq([1..Digest -> Byte]) /\ p.maps \in Seq([1..Digest -> Byte])
            [] p.kind = "game" -> p.data \in [1..3 -> [1..Digest -> Byte]]
            [] OTHER -> p.code \in Byte

(* What is read is what was written, packet for packet ("Assumes the       *)
(* correct number of bytes are waiting in the buffer", packets.h line 34:  *)
(* every reader sees to that).                                             *)
ReadAsWritten == AllSolid => IsPrefix(got, sent)

(* "Will pull out as many bytes as necessary" (packets.h line 33), and no  *)
(* fewer: between two packets the buffer is empty, so that the answer put  *)
(* into it next starts with its own first byte.                            *)
BufferLeftEmpty == AllSolid => buffer = <<>>

(* The sizes the readers wait for are those of the packets: whatever is    *)
(* read, a misread version included, the bytes on the wire are those of    *)
(* the packets not read yet, from the first byte of one (or, after its     *)
(* size, the rest of a handshake), and the reader waits for exactly the    *)
(* first of them, so that it neither hangs nor takes from the next.        *)
CutAtPackets ==
  LET left  == [i \in 1..Len(sent) - Len(got) |-> ToBuffer(sent[Len(got) + i])]
      bytes == FlattenSeq(left)
      begun == IF await.kind = "handshake" THEN Word ELSE 0
  IN /\ wire = SubSeq(bytes, begun + 1, Len(bytes))
     /\ left # <<>> /\ await.kind # "size" => await.bytes = Len(Head(left)) - begun

===========================================================================

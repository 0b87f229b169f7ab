---------------------------- MODULE ObusDecoder ----------------------------
(***************************************************************************)
(* The packet framing decoder of protocol.py (class Decoder) fed by the    *)
(* reader loop of transport.py (Transport._readerThread): recv returns a   *)
(* chunk of any length, and decode(buf, off) is called until the chunk is  *)
(* consumed, each completed raw packet being posted to the main thread.    *)
(*                                                                         *)
(* Bytes are integers below 128 (so that a 32-bit big-endian size read     *)
(* from any four of them stays inside TLC's integers).  The stream the     *)
(* peer sends is some garbage followed by frames written by                *)
(* TxPacket.finalizeHeader.  The whole-stream reference parse Scan states  *)
(* the framing rule of the protocol: match the magic from MAGIC_0 at the   *)
(* byte after a mismatch, skip a bad header, yield size - 9 payload bytes. *)
(***************************************************************************)
EXTENDS Naturals, Sequences, FiniteSets

CONSTANTS
    Frames,      \* frames the peer may send: records [type, payload]
    Garbage,     \* byte sequences the stream may start with
    MaxChunk,    \* longest chunk one recv returns (the code asks for 1024)
    None         \* Python None: no header, no packet

VARIABLES
    stream,      \* the bytes the peer sends on this connection
    sent,        \* ghost: the records the frames of stream encode
    garbage,     \* ghost: the garbage stream starts with
    pos,         \* bytes of stream returned by recv so far
    chunk,       \* buf, the last chunk recv returned
    off,         \* off, the reader's offset into buf
    dec,         \* the Decoder: [st, hdr, pay, header]
    out          \* raw packets posted to the main thread, in order

vars == <<stream, sent, garbage, pos, chunk, off, dec, out>>

-----------------------------------------------------------------------------
(* Constants of protocol.py and the states of Decoder. *)

Magic == <<111, 98, 117, 115>>          \* "obus"
HdrSize == 9
PktCount == 8

IDLE == 0
MAGIC_0 == 1
HEADER == 5
PAYLOAD == 6

MinOf(a, b) == IF a < b THEN a ELSE b

Drop(s, n) == SubSeq(s, n + 1, Len(s))

(* Buffer.readU32 and writeU32: struct ">I", big-endian. *)
BE32(s) == ((s[1] * 256 + s[2]) * 256 + s[3]) * 256 + s[4]

U32(n) == << (n \div 16777216) % 256, (n \div 65536) % 256,
             (n \div 256) % 256, n % 256 >>

(* TxPacket: the payload is written after 9 reserved bytes, then          *)
(* finalizeHeader writes magic, the total size and the type.              *)
FinalizeHeaderPayloadSize(f) == Magic \o U32(Len(f.payload)) \o <<f.type>> \o f.payload

FinalizeHeader(f) == Magic \o U32(HdrSize + Len(f.payload)) \o <<f.type>> \o f.payload

Record(f) == [type |-> f.type, size |-> HdrSize + Len(f.payload), payload |-> f.payload]

-----------------------------------------------------------------------------
(* One iteration of the loop in Decoder.decode.  d holds the decoder's    *)
(* fields and the call's offSrc (d.off) and packet; lenSrc is             *)
(* Len(buf) - d.off.                                                       *)

Reset(d) == [d EXCEPT !.hdr = <<>>, !.pay = <<>>, !.header = None, !.st = IDLE]

CheckMagic(d, idx) ==
    [d EXCEPT !.st = IF d.hdr[idx + 1] # Magic[idx + 1] THEN MAGIC_0 ELSE d.st + 1]

CopyOne(d, buf) == [d EXCEPT !.hdr = Append(d.hdr, buf[d.off + 1]), !.off = d.off + 1]

CopyNoHave(d, buf, field, sizeDst) ==
    LET n == MinOf(Len(buf) - d.off, sizeDst)
    IN  [d EXCEPT ![field] = d[field] \o SubSeq(buf, d.off + 1, d.off + n),
                  !.off = d.off + n]

(* _copy: cpyLen = min(lenSrc, sizeDst - len(bufDst)).  A negative length *)
(* copies nothing and moves offSrc back, as the Python slice and += do.   *)
Copy(d, buf, field, sizeDst) ==
    LET n == MinOf(Len(buf) - d.off, sizeDst - Len(d[field]))
    IN  [d EXCEPT ![field] = d[field] \o SubSeq(buf, d.off + 1, d.off + n),
                  !.off = d.off + n]

DecodeHeaderSizeAt3(d) ==
    LET h == [size |-> BE32(SubSeq(d.hdr, 4, 7)), type |-> d.hdr[9]]
    IN  IF h.type >= PktCount \/ h.size < HdrSize
        THEN [d EXCEPT !.header = h, !.st = MAGIC_0]
        ELSE [d EXCEPT !.header = h, !.st = PAYLOAD, !.pay = <<>>]

DecodeHeader(d) ==
    LET h == [size |-> BE32(SubSeq(d.hdr, 5, 8)), type |-> d.hdr[9]]
    IN  IF h.type >= PktCount \/ h.size < HdrSize
        THEN [d EXCEPT !.header = h, !.st = MAGIC_0]
        ELSE [d EXCEPT !.header = h, !.st = PAYLOAD, !.pay = <<>>]

Step(d, buf) ==
    CASE d.st = MAGIC_0 ->
            CheckMagic(CopyOne([Reset(d) EXCEPT !.st = MAGIC_0], buf), 0)
      [] d.st \in MAGIC_0 + 1 .. MAGIC_0 + 3 ->
            CheckMagic(CopyOne(d, buf), d.st - MAGIC_0)
      [] d.st = HEADER ->
            LET c == Copy(d, buf, "hdr", HdrSize)
            IN  IF Len(c.hdr) = HdrSize THEN DecodeHeader(c) ELSE c
      [] d.st = PAYLOAD ->
            LET c == Copy(d, buf, "pay", d.header.size - HdrSize)
            IN  IF Len(c.pay) = d.header.size - HdrSize
                THEN [c EXCEPT !.packet = [type |-> d.header.type,
                                           size |-> d.header.size,
                                           payload |-> c.pay],
                               !.st = IDLE]
                ELSE c

RECURSIVE Loop(_, _)
Loop(d, buf) ==
    IF Len(buf) - d.off > 0 /\ d.st # IDLE THEN Loop(Step(d, buf), buf) ELSE d

(* Decoder.decode(buf, off): returns (offSrc, packet). *)
Decode(d, buf, o) ==
    Loop([st |-> IF d.st = IDLE THEN MAGIC_0 ELSE d.st,
          hdr |-> d.hdr, pay |-> d.pay, header |-> d.header,
          off |-> o, packet |-> None], buf)

-----------------------------------------------------------------------------
(* The reference: the records the framing rule yields from a whole stream. *)

MagicMatch(s) ==
    CHOOSE k \in 0..4 :
        /\ k <= Len(s) /\ SubSeq(s, 1, k) = SubSeq(Magic, 1, k)
        /\ (k < 4 /\ k < Len(s)) => s[k + 1] # Magic[k + 1]

RECURSIVE Scan(_)
Scan(s) ==
    LET k == MagicMatch(s) IN
    IF k < 4 THEN (IF Len(s) > k THEN Scan(Drop(s, k + 1)) ELSE <<>>)
    ELSE IF Len(s) < HdrSize THEN <<>>
    ELSE LET size == BE32(SubSeq(s, 5, 8))
             type == s[9]
         IN  IF type >= PktCount \/ size < HdrSize THEN Scan(Drop(s, HdrSize))
             ELSE IF Len(s) < size THEN <<>>
             ELSE <<[type |-> type, size |-> size, payload |-> SubSeq(s, 10, size)]>>
                    \o Scan(Drop(s, size))

-----------------------------------------------------------------------------
(* A new Decoder per connection; the peer sends garbage and two frames. *)
Init ==
    \E g \in Garbage, f1, f2 \in Frames :
        /\ garbage = g
        /\ stream = g \o FinalizeHeader(f1) \o FinalizeHeader(f2)
        /\ sent = <<Record(f1), Record(f2)>>
        /\ pos = 0
        /\ chunk = <<>>
        /\ off = 0
        /\ dec = [st |-> IDLE, hdr |-> <<>>, pay |-> <<>>, header |-> None]
        /\ out = <<>>

(* buf = self.sock.recv(1024), once the previous chunk is consumed. *)
recv ==
    /\ off >= Len(chunk)
    /\ pos < Len(stream)
    /\ \E n \in 1..MinOf(MaxChunk, Len(stream) - pos) :
          /\ chunk' = SubSeq(stream, pos + 1, pos + n)
          /\ pos' = pos + n
    /\ off' = 0
    /\ UNCHANGED <<stream, sent, garbage, dec, out>>

(* (off, packet) = decoder.decode(buf, off), then post the packet. *)
decode ==
    /\ off < Len(chunk)
    /\ LET r == Decode(dec, chunk, off)
       IN  /\ dec' = [st |-> r.st, hdr |-> r.hdr, pay |-> r.pay, header |-> r.header]
           /\ off' = r.off
           /\ out' = IF r.packet # None THEN Append(out, r.packet) ELSE out
    /\ UNCHANGED <<stream, sent, garbage, pos, chunk>>

Next == recv \/ decode

Spec == Init /\ [][Next]_vars

-----------------------------------------------------------------------------
(* The completed record the decoder holds without posting it: a payload   *)
(* of size - 9 = 0 bytes is complete as soon as the header is decoded,    *)
(* but decode only yields it on its next call, with a non-empty chunk.    *)
Held ==
    IF dec.st = PAYLOAD /\ Len(dec.pay) = dec.header.size - HdrSize
    THEN <<[type |-> dec.header.type, size |-> dec.header.size, payload |-> dec.pay]>>
    ELSE <<>>

Consumed == off >= Len(chunk)

\* Type invariant; the header and payload buffers never outgrow their sizes.
TypeOK ==
    /\ pos \in 0..Len(stream)
    /\ off \in 0..Len(chunk)
    /\ dec.st \in IDLE..PAYLOAD
    /\ Len(dec.hdr) <= HdrSize
    /\ dec.st = PAYLOAD => Len(dec.pay) <= dec.header.size - HdrSize
    /\ out \in Seq([type : 0..PktCount - 1, size : Nat, payload : Seq(Nat)])

\* Whatever chunks recv returns, once the reader has fed a chunk to
\* decode, the packets posted (and the one held) are those the framing rule
\* yields from the whole stream received so far: decode's state carries
\* every partial magic, header and payload across chunk boundaries.
StreamingMatchesScan ==
    Consumed => out \o Held = Scan(SubSeq(stream, 1, pos))

(* The garbage leaves the decoder matching no part of the magic. *)
EndsInPartialMagic(g) ==
    \E k \in 1..3 : k <= Len(g) /\ SubSeq(g, Len(g) - k + 1, Len(g)) = SubSeq(Magic, 1, k)

FramesRecovered(gs) ==
    (garbage \in gs /\ pos = Len(stream) /\ Consumed) => out \o Held = sent

\* Garbage that does not end in a prefix of the magic is discarded, and
\* every frame finalizeHeader wrote after it is decoded, header and payload.
CleanGarbageDiscarded ==
    FramesRecovered({g \in Garbage : ~EndsInPartialMagic(g)})

\* The spec's resync example (spec.md 4.2 tests): feeding garbage followed
\* by valid frames yields exactly those frames, the garbage discarded.
GarbageDiscarded == FramesRecovered(Garbage)

=============================================================================

-------------------------- MODULE VenusFrames_proofs --------------------------
(***************************************************************************)
(* Theorems of VenusFrames for every stream of bytes, every way to cut it  *)
(* into datagrams, also such that do not fit the buffer, and every size of *)
(* the buffer.                                                             *)
(***************************************************************************)
EXTENDS VenusFrames, WellFoundedInduction, TLAPS

(* What Bytes selects. *)
LEMMA BytesFacts ==
  ASSUME NEW data \in Seq(Byte), NEW offset \in Nat, NEW len \in Nat,
         offset + len <= Len(data)
  PROVE  /\ Bytes(data, offset, len) \in Seq(Byte)
         /\ Len(Bytes(data, offset, len)) = len
         /\ \A k \in 1 .. len : Bytes(data, offset, len)[k] = data[offset + k]
<1>1. \A k \in 1 .. len : data[offset + k] \in Byte
  OBVIOUS
<1> QED
  BY <1>1 DEF Bytes

LEMMA Sizes ==
  /\ BufSize \in Nat \ {0} /\ Chunks \subseteq Nat
  /\ MaxPacket \in Nat /\ 2 * MaxPacket <= BufSize
BY VenusFramesAssumption DEF MaxPacket

LEMMA Remainder ==
  ASSUME NEW n \in Int, NEW max \in Nat
  PROVE  n % (max + 1) \in 0 .. max
OBVIOUS

(* What an uint16_t keeps of a length. *)
LEMMA TruncatedLength ==
  ASSUME NEW n \in Nat
  PROVE  (n - 1) % 65536 \in UInt16
<1> DEFINE max == 65535
<1>1. max + 1 = 65536 /\ max \in Nat /\ n - 1 \in Int
  OBVIOUS
<1>2. UInt16 = 0 .. max
  BY SMT DEF UInt16
<1> HIDE DEF max
<1>3. (n - 1) % (max + 1) \in 0 .. max
  BY <1>1, Remainder
<1> QED
  BY <1>1, <1>2, <1>3

LEMMA TwoBytes ==
  ASSUME NEW a \in Byte, NEW b \in Byte
  PROVE  256 * a + b \in Nat
BY DEF Byte

LEMMA PacketLength ==
  ASSUME NEW data \in Seq(Byte), NEW f \in Nat, f + 4 <= Len(data)
  PROVE  packet_len(data, f) \in Nat
<1>1. data[f + 3] \in Byte /\ data[f + 4] \in Byte
  OBVIOUS
<1>2. 256 * data[f + 3] + data[f + 4] \in Nat
  BY <1>1, TwoBytes
<1> QED
  BY <1>2 DEF packet_len

-----------------------------------------------------------------------------
(* The buffer is a window on the stream.                                   *)

Window ==
  /\ ~scanning => frame = 0
  /\ base <= Origin
  /\ \A k \in 1 .. Len(buf) : buf[k] = stream[Origin + k]

(* The parts of the inductive invariant that do not speak of frames.       *)
WindowInv == TypeOK /\ Window

LEMMA KeepKeepsWindow ==
  ASSUME WindowInv, ~Spilled, NEW f \in 0 .. Len(buf), Keep(f)
  PROVE  WindowInv' /\ Origin' = Origin + f
<1>0. /\ buf \in Seq(Byte) /\ pos \in Nat
      /\ Len(buf) <= BufSize /\ (Len(buf) < BufSize \/ Len(buf) \in Chunks)
      /\ base \in 0 .. pos /\ base <= Origin
      /\ \A k \in 1 .. Len(buf) : buf[k] = stream[Origin + k]
  BY Sizes DEF WindowInv, TypeOK, Window, Spilled
<1>1. /\ Len(buf) - f \in Nat /\ f + (Len(buf) - f) <= Len(buf)
      /\ f \in Nat /\ Len(buf) \in Nat
  BY <1>0
<1>2. /\ buf' \in Seq(Byte) /\ Len(buf') = Len(buf) - f
      /\ \A k \in 1 .. Len(buf) - f : buf'[k] = buf[f + k]
  BY <1>0, <1>1, BytesFacts DEF Keep
<1>3. pos' = pos /\ base' = base /\ stream' = stream /\ sent' = sent
      /\ frame' = 0 /\ scanning' = FALSE
  BY DEF Keep
<1>4. Origin' = Origin + f
  BY <1>0, <1>1, <1>2, <1>3 DEF Origin
<1>5. TypeOK'
  <2>1. frame' \in 0 .. Len(buf')
    BY <1>1, <1>2, <1>3
  <2>2. Len(buf') < BufSize \/ Len(buf') \in Chunks
    <3>1. CASE f = 0
      <4>1. Len(buf') = Len(buf)
        BY <1>1, <1>2, <3>1
      <4> QED
        BY <1>0, <4>1
    <3>2. CASE f # 0
      BY Sizes, <1>0, <1>1, <1>2, <3>2
    <3> QED
      BY <3>1, <3>2
  <2> QED
    BY <1>2, <1>3, <2>1, <2>2 DEF WindowInv, TypeOK
<1>6. \A k \in 1 .. Len(buf') : buf'[k] = stream'[Origin' + k]
  <2> SUFFICES ASSUME NEW k \in 1 .. Len(buf') PROVE buf'[k] = stream'[Origin' + k]
    OBVIOUS
  <2>1. k \in 1 .. Len(buf) - f /\ f + k \in 1 .. Len(buf)
    BY <1>1, <1>2
  <2>2. buf[f + k] = stream[Origin + (f + k)]
    BY <2>1 DEF WindowInv, Window
  <2>3. Origin + (f + k) = (Origin + f) + k
    BY <1>0, <1>1, <2>1 DEF Origin
  <2> QED
    BY <1>2, <1>3, <1>4, <2>1, <2>2, <2>3
<1>7. base' <= Origin'
  BY <1>0, <1>1, <1>3, <1>4 DEF Origin
<1> QED
  BY <1>3, <1>4, <1>5, <1>6, <1>7 DEF WindowInv, Window

LEMMA ReceiveKeepsWindow ==
  ASSUME WindowInv, NEW n \in Chunks, cots_raw_in(n)
  PROVE  /\ WindowInv'
         /\ Origin' >= Origin
         /\ Origin' = Origin \/ base' = Origin'
<1> DEFINE chunk == Bytes(stream, pos, n)
           old   == IF Len(buf) + n >= BufSize THEN <<>> ELSE buf
<1>1. /\ buf \in Seq(Byte) /\ Len(buf) \in Nat /\ pos \in Nat /\ n \in Nat
      /\ stream \in Seq(Byte) /\ pos + n <= Len(stream) /\ base \in 0 .. pos
      /\ Len(buf) <= pos /\ BufSize \in Nat \ {0}
  <2>1. base <= pos - Len(buf)
    BY DEF WindowInv, Window, Origin
  <2>2. /\ buf \in Seq(Byte) /\ stream \in Seq(Byte) /\ pos \in Nat
        /\ base \in 0 .. pos
    BY DEF WindowInv, TypeOK
  <2>3. pos + n <= Len(stream)
    BY DEF cots_raw_in
  <2>4. n \in Nat
    BY Sizes
  <2> QED
    BY Sizes, <2>1, <2>2, <2>3, <2>4
<1>2. /\ chunk \in Seq(Byte) /\ Len(chunk) = n
      /\ \A k \in 1 .. n : chunk[k] = stream[pos + k]
  BY <1>1, BytesFacts
<1>3. /\ buf' = old \o chunk /\ pos' = pos + n /\ stream' = stream
      /\ frame' = 0 /\ scanning' = TRUE /\ sent' = sent
      /\ base' = IF Len(buf) + n >= BufSize THEN pos ELSE base
  BY Zenon DEF cots_raw_in
<1>4. /\ old \in Seq(Byte) /\ Len(old) \in Nat /\ Len(old) <= Len(buf)
      /\ Len(old) + n < BufSize \/ Len(old) + n = n
  BY <1>1
<1>5. /\ buf' \in Seq(Byte) /\ Len(buf') = Len(old) + n
      /\ \A k \in 1 .. Len(old) + n :
           buf'[k] = IF k <= Len(old) THEN old[k] ELSE chunk[k - Len(old)]
  <2> HIDE DEF old, chunk
  <2>1. \A s, t \in Seq(Byte) :
          /\ s \o t \in Seq(Byte) /\ Len(s \o t) = Len(s) + Len(t)
          /\ \A k \in 1 .. Len(s) + Len(t) :
               (s \o t)[k] = IF k <= Len(s) THEN s[k] ELSE t[k - Len(s)]
    OBVIOUS
  <2> QED
    BY <1>2, <1>3, <1>4, <2>1
<1>6. Origin' = pos - Len(old)
  <2> HIDE DEF old, chunk
  <2> QED
    BY <1>1, <1>3, <1>4, <1>5 DEF Origin
<1>7. /\ Origin' >= Origin
      /\ Origin' = Origin \/ base' = Origin'
      /\ base' <= Origin' /\ base' \in 0 .. pos'
  <2>1. CASE Len(buf) + n >= BufSize
    BY <1>1, <1>3, <1>6, <2>1 DEF Origin
  <2>2. CASE ~(Len(buf) + n >= BufSize)
    BY <1>1, <1>3, <1>6, <2>2 DEF Origin, WindowInv, Window
  <2> QED
    BY <2>1, <2>2
<1>8. ASSUME NEW k \in 1 .. Len(buf') PROVE buf'[k] = stream'[Origin' + k]
  <2>0. k \in 1 .. Len(old) + n
    BY <1>5
  <2>1. CASE k <= Len(old)
    <3>1. old = buf /\ k \in 1 .. Len(buf)
      BY <1>1, <1>4, <2>0, <2>1
    <3>2. buf[k] = stream[Origin + k]
      BY <3>1 DEF WindowInv, Window
    <3>3. Origin' = Origin
      BY <1>6, <3>1 DEF Origin
    <3> QED
      BY <1>3, <1>5, <2>0, <2>1, <3>1, <3>2, <3>3
  <2>2. CASE ~(k <= Len(old))
    <3>1. k - Len(old) \in 1 .. n /\ pos + (k - Len(old)) = Origin' + k
      BY <1>1, <1>4, <1>6, <2>0, <2>2
    <3>2. chunk[k - Len(old)] = stream[pos + (k - Len(old))]
      BY <1>2, <3>1
    <3>3. buf'[k] = chunk[k - Len(old)]
      BY <1>5, <2>0, <2>2
    <3> QED
      BY <1>3, <3>1, <3>2, <3>3
  <2> QED
    BY <2>1, <2>2
<1>9. TypeOK'
  <2>1. pos' \in 0 .. Len(stream')
    BY <1>1, <1>3
  <2> HIDE DEF old, chunk
  <2>2. frame' \in 0 .. Len(buf') /\ (Len(buf') < BufSize \/ Len(buf') = n)
    BY <1>1, <1>3, <1>4, <1>5
  <2> QED
    BY <1>3, <1>5, <1>7, <2>1, <2>2 DEF WindowInv, TypeOK
<1> QED
  BY <1>3, <1>7, <1>8, <1>9 DEF WindowInv, Window

-----------------------------------------------------------------------------
(* What the loop sees in the buffer is so in the stream.                   *)

LEMMA WindowFacts ==
  ASSUME WindowInv
  PROVE  /\ buf \in Seq(Byte) /\ Len(buf) \in Nat
         /\ stream \in Seq(Byte) /\ Len(stream) \in Nat
         /\ Origin \in Nat /\ base \in Nat /\ base <= Origin
         /\ frame \in 0 .. Len(buf)
         /\ Origin + Len(buf) <= Len(stream)
         /\ \A k \in 1 .. Len(buf) : buf[k] = stream[Origin + k]
<1>1. /\ buf \in Seq(Byte) /\ stream \in Seq(Byte)
      /\ pos \in 0 .. Len(stream) /\ base \in 0 .. pos /\ frame \in 0 .. Len(buf)
  BY DEF WindowInv, TypeOK
<1>2. /\ base <= pos - Len(buf)
      /\ \A k \in 1 .. Len(buf) : buf[k] = stream[Origin + k]
  BY DEF WindowInv, Window, Origin
<1>3. Len(buf) \in Nat /\ Len(stream) \in Nat
  BY <1>1
<1>4. /\ Origin \in Nat /\ base \in Nat /\ base <= Origin
      /\ Origin + Len(buf) <= Len(stream)
  BY <1>1, <1>2, <1>3 DEF Origin
<1> QED
  BY <1>1, <1>2, <1>3, <1>4

(* A byte of the buffer, by its offset from a frame's. *)
LEMMA SameByte ==
  ASSUME WindowInv, NEW f \in Nat, NEW k \in Nat \ {0}, f + k <= Len(buf)
  PROVE  buf[f + k] = stream[(Origin + f) + k]
<1>1. f + k \in 1 .. Len(buf) /\ Origin + (f + k) = (Origin + f) + k
  BY WindowFacts
<1> QED
  BY <1>1, WindowFacts

LEMMA SameBytes ==
  ASSUME WindowInv, NEW f \in Nat, NEW len \in Nat, f + len <= Len(buf)
  PROVE  Bytes(buf, f, len) = Bytes(stream, Origin + f, len)
<1>1. \A k \in 1 .. len : buf[f + k] = stream[(Origin + f) + k]
  <2> SUFFICES ASSUME NEW k \in 1 .. len
               PROVE  buf[f + k] = stream[(Origin + f) + k]
    OBVIOUS
  <2>1. k \in Nat \ {0} /\ f + k <= Len(buf)
    BY WindowFacts
  <2> QED
    BY <2>1, SameByte
<1> QED
  BY <1>1 DEF Bytes

LEMMA SameLength ==
  ASSUME WindowInv, NEW f \in Nat, f + Overhead <= Len(buf)
  PROVE  /\ packet_len(buf, f) = packet_len(stream, Origin + f)
         /\ packet_len(buf, f) \in Nat
<1>1. f + 3 <= Len(buf) /\ f + 4 <= Len(buf)
  BY WindowFacts DEF Overhead
<1>2. /\ buf[f + 3] = stream[(Origin + f) + 3]
      /\ buf[f + 4] = stream[(Origin + f) + 4]
  BY <1>1, SameByte
<1>3. packet_len(buf, f) = packet_len(stream, Origin + f)
  BY <1>2 DEF packet_len
<1> QED
  BY <1>1, <1>3, PacketLength, WindowFacts

(* Where a whole frame lies in the buffer, the loop's two tests of it are  *)
(* tests of the stream.                                                    *)
LEMMA SameTests ==
  ASSUME WindowInv, NEW f \in Nat, Whole(f)
  PROVE  /\ Trailer(buf, f) <=> Trailer(stream, Origin + f)
         /\ Checksum(buf, f) <=> Checksum(stream, Origin + f)
<1> DEFINE len == packet_len(buf, f)
<1>1. f + Overhead <= Len(buf) /\ f + Overhead + len <= Len(buf)
  BY Zenon DEF Whole, Header
<1>2. len \in Nat /\ len = packet_len(stream, Origin + f)
  BY <1>1, SameLength
<1>3. packet_len(stream, Origin + f) = packet_len(buf, f)
  BY <1>2
<1> HIDE DEF len
<1>4. Origin \in Nat /\ Len(buf) \in Nat
  BY WindowFacts
<1>5. f + 7 + len <= Len(buf)
  BY <1>1 DEF Overhead
<1>6. /\ f + 4 \in Nat /\ (f + 4) + len <= Len(buf)
      /\ Origin + (f + 4) = (Origin + f) + 4
      /\ f + 5 + len + 1 = f + (6 + len) /\ f + 5 + len + 2 = f + (7 + len)
      /\ f + 4 + len + 1 = f + (5 + len)
      /\ Origin + f + 5 + len + 1 = (Origin + f) + (6 + len)
      /\ Origin + f + 5 + len + 2 = (Origin + f) + (7 + len)
      /\ Origin + f + 4 + len + 1 = (Origin + f) + (5 + len)
  <2>1. len \in Nat
    BY <1>2
  <2>2. /\ f + 4 \in Nat /\ (f + 4) + len <= Len(buf)
        /\ Origin + (f + 4) = (Origin + f) + 4
    BY <1>4, <1>5, <2>1
  <2>3. /\ f + 5 + len + 1 = f + (6 + len) /\ f + 5 + len + 2 = f + (7 + len)
        /\ f + 4 + len + 1 = f + (5 + len)
    BY <2>1
  <2>4. /\ Origin + f + 5 + len + 1 = (Origin + f) + (6 + len)
        /\ Origin + f + 5 + len + 2 = (Origin + f) + (7 + len)
        /\ Origin + f + 4 + len + 1 = (Origin + f) + (5 + len)
    BY <1>4, <2>1
  <2> QED
    BY <2>2, <2>3, <2>4
<1>7. /\ buf[f + (5 + len)] = stream[(Origin + f) + (5 + len)]
      /\ buf[f + (6 + len)] = stream[(Origin + f) + (6 + len)]
      /\ buf[f + (7 + len)] = stream[(Origin + f) + (7 + len)]
  <2>1. /\ 5 + len \in Nat \ {0} /\ f + (5 + len) <= Len(buf)
        /\ 6 + len \in Nat \ {0} /\ f + (6 + len) <= Len(buf)
        /\ 7 + len \in Nat \ {0} /\ f + (7 + len) <= Len(buf)
    BY <1>2, <1>4, <1>5
  <2> QED
    BY <2>1, SameByte
<1>8. Bytes(buf, f + 4, len) = Bytes(stream, (Origin + f) + 4, len)
  BY <1>2, <1>6, SameBytes
<1>9. Trailer(buf, f) <=> Trailer(stream, Origin + f)
  BY <1>3, <1>6, <1>7 DEF Trailer, len
<1>10. Checksum(buf, f) <=> Checksum(stream, Origin + f)
  BY <1>3, <1>6, <1>7, <1>8 DEF Checksum, len
<1> QED
  BY <1>9, <1>10

LEMMA NoStart ==
  ASSUME WindowInv, NEW f \in 0 .. Len(buf) - 1, buf[f + 1] # 160
  PROVE  ~FrameAt(Origin + f)
<1>1. f \in Nat /\ f + 1 <= Len(buf)
  BY WindowFacts
<1>2. buf[f + 1] = stream[(Origin + f) + 1]
  BY <1>1, SameByte
<1> QED
  BY <1>2, Zenon DEF FrameAt

LEMMA ValidIsFrame ==
  ASSUME WindowInv, NEW f \in Nat, buf[f + 1] = 160, Valid(f)
  PROVE  FrameAt(Origin + f) /\ buf[f + 5] = stream[(Origin + f) + 5]
<1>1. /\ Whole(f) /\ Trailer(buf, f) /\ Checksum(buf, f)
      /\ f + Overhead <= Len(buf) /\ buf[f + 2] = 161
      /\ packet_len(buf, f) <= MaxPacket
      /\ f + Overhead + packet_len(buf, f) <= Len(buf)
  BY Zenon DEF Valid, Whole, Header
<1>2. f + 1 <= Len(buf) /\ f + 2 <= Len(buf) /\ f + 5 <= Len(buf)
  BY <1>1, WindowFacts DEF Overhead
<1>3. /\ stream[(Origin + f) + 1] = 160 /\ stream[(Origin + f) + 2] = 161
      /\ buf[f + 5] = stream[(Origin + f) + 5]
  BY <1>1, <1>2, SameByte
<1>4. /\ packet_len(buf, f) = packet_len(stream, Origin + f)
      /\ packet_len(buf, f) \in Nat
  BY <1>1, SameLength
<1>5. /\ Origin + f + Overhead <= Len(stream)
      /\ Origin + f + Overhead + packet_len(stream, Origin + f) <= Len(stream)
  <2>1. /\ Origin \in Nat /\ Len(buf) \in Nat /\ Len(stream) \in Nat
        /\ Origin + Len(buf) <= Len(stream)
    BY WindowFacts
  <2>2. f + 7 <= Len(buf) /\ f + 7 + packet_len(buf, f) <= Len(buf)
    BY <1>1 DEF Overhead
  <2>3. /\ Origin + f + 7 <= Len(stream)
        /\ Origin + f + 7 + packet_len(buf, f) <= Len(stream)
    BY <1>4, <2>1, <2>2
  <2> QED
    BY <1>4, <2>3 DEF Overhead
<1>6. Trailer(stream, Origin + f) /\ Checksum(stream, Origin + f)
  BY <1>1, SameTests
<1>7. packet_len(stream, Origin + f) <= MaxPacket
  BY <1>1, <1>4
<1> QED
  BY <1>3, <1>5, <1>6, <1>7, Zenon DEF FrameAt

LEMMA RejectedIsNoFrame ==
  ASSUME WindowInv, NEW f \in Nat, f + Overhead <= Len(buf),
         ~Header(f) \/ (Whole(f) /\ ~Valid(f))
  PROVE  ~FrameAt(Origin + f)
<1>1. f + 2 <= Len(buf)
  BY WindowFacts DEF Overhead
<1>2. /\ buf[f + 2] = stream[(Origin + f) + 2]
      /\ packet_len(buf, f) = packet_len(stream, Origin + f)
  BY <1>1, SameByte, SameLength
<1>3. CASE ~Header(f)
  <2>1. ~(/\ stream[(Origin + f) + 2] = 161
          /\ packet_len(stream, Origin + f) <= MaxPacket)
    BY <1>2, <1>3, Zenon DEF Header
  <2> QED
    BY <2>1, Zenon DEF FrameAt
<1>4. CASE Whole(f) /\ ~Valid(f)
  <2>1. ~Trailer(buf, f) \/ ~Checksum(buf, f)
    BY <1>4, Zenon DEF Valid
  <2>2. ~Trailer(stream, Origin + f) \/ ~Checksum(stream, Origin + f)
    BY <1>4, <2>1, SameTests
  <2> QED
    BY <2>2, Zenon DEF FrameAt
<1> QED
  BY <1>3, <1>4

-----------------------------------------------------------------------------
(* How far the parser has come in the stream, and that what it has passed  *)
(* without a report is no frame.                                           *)

Behind == \A m \in sent : m.next <= Origin + frame

IInv == WindowInv /\ FramesAreGenuine /\ Behind /\ NoneIsMissed /\ ResidueFits

LEMMA SameFrames ==
  ASSUME stream' = stream
  PROVE  \A i : /\ FrameAt(i)' <=> FrameAt(i)
                /\ packet_len(stream, i)' = packet_len(stream, i)
BY DEF FrameAt, Trailer, Checksum, packet_len, Bytes

LEMMA SameReports ==
  ASSUME FramesAreGenuine, stream' = stream, sent' = sent
  PROVE  FramesAreGenuine'
BY SameFrames, Zenon DEF FramesAreGenuine

LEMMA StillBehind ==
  ASSUME WindowInv, Behind, sent' = sent, Origin' + frame' \in Nat,
         Origin' + frame' >= Origin + frame
  PROVE  Behind'
<1> SUFFICES ASSUME NEW m \in sent PROVE m.next <= Origin' + frame'
  BY DEF Behind
<1>1. m.next \in Nat
  BY DEF WindowInv, TypeOK, Messages
<1>2. m.next <= Origin + frame /\ Origin + frame \in Nat
  BY WindowFacts DEF Behind
<1> QED
  BY <1>1, <1>2

(* Moving on to offset t of the buffer; S is what has been reported then.  *)
LEMMA Passed ==
  ASSUME WindowInv, NoneIsMissed, NEW t \in Nat, NEW S, sent \subseteq S,
         \A g \in frame .. t - 1 :
           FrameAt(Origin + g) =>
             \E m \in S : m.at <= Origin + g /\ Origin + g < m.next
  PROVE  \A i \in base .. Origin + t - 1 :
           FrameAt(i) => \E m \in S : m.at <= i /\ i < m.next
<1> SUFFICES ASSUME NEW i \in base .. Origin + t - 1, FrameAt(i)
             PROVE  \E m \in S : m.at <= i /\ i < m.next
  OBVIOUS
<1>0. i \in Nat /\ Origin \in Nat /\ frame \in Nat /\ base \in Nat
  BY WindowFacts
<1>1. CASE i <= Origin + frame - 1
  <2>1. i \in base .. Origin + frame - 1
    BY <1>0, <1>1
  <2> QED
    BY <2>1, Zenon DEF NoneIsMissed
<1>2. CASE ~(i <= Origin + frame - 1)
  <2>1. i - Origin \in frame .. t - 1 /\ Origin + (i - Origin) = i
    BY <1>0, <1>2
  <2> QED
    BY <2>1
<1> QED
  BY <1>1, <1>2

(* What lies before the next A0 starts no frame.                           *)
LEMMA BeforeCandidate ==
  ASSUME WindowInv, NEW f \in 0 .. Len(buf),
         \A k \in frame .. f - 1 : buf[k + 1] # 160
  PROVE  \A g \in frame .. f - 1 : ~FrameAt(Origin + g)
<1> SUFFICES ASSUME NEW g \in frame .. f - 1 PROVE ~FrameAt(Origin + g)
  OBVIOUS
<1>1. g \in 0 .. Len(buf) - 1 /\ buf[g + 1] # 160
  BY WindowFacts
<1> QED
  BY <1>1, NoStart

-----------------------------------------------------------------------------
LEMMA KeepStep ==
  ASSUME IInv, ~Spilled, NEW f \in 0 .. Len(buf), Keep(f), frame <= f,
         \A k \in frame .. f - 1 : buf[k + 1] # 160,
         Len(buf) - f < MaxPacket + Overhead
  PROVE  IInv'
<1>1. WindowInv /\ FramesAreGenuine /\ Behind /\ NoneIsMissed
  BY DEF IInv
<1>2. WindowInv' /\ Origin' = Origin + f
  BY <1>1, KeepKeepsWindow
<1>3. /\ stream' = stream /\ sent' = sent /\ base' = base /\ frame' = 0
      /\ scanning' = FALSE
  BY DEF Keep
<1>4. /\ f \in Nat /\ frame \in Nat /\ Origin \in Nat /\ Len(buf) \in Nat
      /\ Len(buf) - f \in Nat /\ f + (Len(buf) - f) <= Len(buf)
  BY <1>1, WindowFacts
<1>0. pos' \in Nat /\ Len(buf') \in Nat /\ pos \in Nat /\ base \in Nat
  BY <1>1, <1>2 DEF WindowInv, TypeOK
<1>5. FramesAreGenuine'
  BY <1>1, <1>3, SameReports
<1>6. Origin' + frame' = Origin + f /\ Origin' + frame' \in Nat
  BY <1>2, <1>3, <1>4
<1>7. Behind'
  BY <1>1, <1>3, <1>4, <1>6, StillBehind
<1>8. NoneIsMissed'
  <2>1. \A i \in base .. Origin + f - 1 :
          FrameAt(i) => \E m \in sent : m.at <= i /\ i < m.next
    BY <1>1, <1>4, BeforeCandidate, Passed
  <2>2. base' .. Origin' + frame' - 1 = base .. Origin + f - 1
    BY <1>2, <1>3, <1>4, <1>0 DEF Origin
  <2> QED
    BY <1>3, <2>1, <2>2, SameFrames DEF NoneIsMissed
<1>9. ResidueFits'
  <2>1. pos' = pos
    BY DEF Keep
  <2>2. pos' - Len(buf') = pos - Len(buf) + f
    BY <1>2 DEF Origin
  <2>3. Len(buf') = Len(buf) - f
    BY <1>0, <1>4, <2>1, <2>2
  <2> QED
    BY <2>3 DEF ResidueFits, MaxPacket, Overhead
<1> QED
  BY <1>2, <1>5, <1>7, <1>8, <1>9 DEF IInv

LEMMA ReceiveStep ==
  ASSUME IInv, NEW n \in Chunks, cots_raw_in(n)
  PROVE  IInv'
<1>1. WindowInv /\ FramesAreGenuine /\ Behind /\ NoneIsMissed
  BY DEF IInv
<1>2. /\ WindowInv' /\ Origin' >= Origin
      /\ Origin' = Origin \/ base' = Origin'
  BY <1>1, ReceiveKeepsWindow
<1>3. /\ stream' = stream /\ sent' = sent /\ frame' = 0 /\ scanning' = TRUE
      /\ base' = base \/ base' = pos
      /\ ~scanning
  BY DEF cots_raw_in
<1>4. /\ base \in Nat /\ pos \in Nat /\ base <= pos /\ Origin \in Nat
      /\ frame = 0
  BY <1>1, <1>3, WindowFacts DEF WindowInv, Window, TypeOK
<1>0. pos' \in Nat /\ Len(buf') \in Nat /\ Len(buf) \in Nat
  BY <1>1, <1>2 DEF WindowInv, TypeOK
<1>5. Origin' \in Nat /\ base' \in Nat /\ base <= base'
  <2>1. Origin' \in Int
    BY <1>2 DEF WindowInv, TypeOK, Origin
  <2> QED
    BY <1>2, <1>3, <1>4, <2>1
<1>6. FramesAreGenuine'
  BY <1>1, <1>3, SameReports
<1>7. Behind'
  <2>1. Origin' + frame' \in Nat /\ Origin' + frame' >= Origin + frame
    BY <1>2, <1>3, <1>4, <1>5, <1>0 DEF Origin
  <2> QED
    BY <1>1, <1>3, <2>1, StillBehind
<1>8. NoneIsMissed'
  <2>1. \A i \in base' .. Origin' - 1 : i \in base .. Origin - 1
    BY <1>2, <1>4, <1>5, <1>0 DEF Origin
  <2>2. Origin' + frame' - 1 = Origin' - 1 /\ Origin + frame - 1 = Origin - 1
    BY <1>3, <1>4, <1>5, <1>0 DEF Origin
  <2> QED
    BY <1>1, <1>3, <2>1, <2>2, SameFrames, Zenon DEF NoneIsMissed
<1>9. ResidueFits'
  BY <1>3 DEF ResidueFits
<1> QED
  BY <1>2, <1>6, <1>7, <1>8, <1>9 DEF IInv

(* The loop's pointer moves to offset t.                                   *)
LEMMA ContinueKeepsWindow ==
  ASSUME WindowInv, scanning, NEW t \in 0 .. Len(buf), Continue(t),
         sent' \subseteq Messages
  PROVE  WindowInv' /\ Origin' = Origin
<1>1. /\ buf' = buf /\ stream' = stream /\ pos' = pos /\ base' = base
      /\ scanning' = scanning /\ frame' = t
  BY DEF Continue
<1>2. Origin' = Origin
  BY <1>1 DEF Origin
<1>3. TypeOK'
  BY <1>1, Zenon DEF WindowInv, TypeOK
<1>4. Window'
  BY <1>1, <1>2, Zenon DEF WindowInv, Window
<1> QED
  BY <1>2, <1>3, <1>4 DEF WindowInv

LEMMA SkipStep ==
  ASSUME IInv, NEW f \in frame .. Len(buf) - 1, Skip(f)
  PROVE  IInv'
<1>1. WindowInv /\ FramesAreGenuine /\ Behind /\ NoneIsMissed
  BY DEF IInv
<1>2. /\ scanning /\ Candidate(f) /\ f + Overhead <= Len(buf) /\ sent' = sent
      /\ \/ buf[f + 2] # 161 /\ Continue(f + 1)
         \/ buf[f + 2] = 161 /\ ~Header(f) /\ Continue(f + 2)
         \/ Whole(f) /\ ~Valid(f) /\ Continue(f + 2)
  BY Zenon DEF Skip
<1>3. /\ f \in Nat /\ frame \in Nat /\ Origin \in Nat /\ Len(buf) \in Nat
      /\ f \in 0 .. Len(buf) /\ frame <= f /\ f + 7 <= Len(buf)
  BY <1>1, <1>2, WindowFacts DEF Overhead
<1>4. \A g \in frame .. f - 1 : ~FrameAt(Origin + g)
  <2>1. \A k \in frame .. f - 1 : buf[k + 1] # 160
    BY <1>2 DEF Candidate
  <2> QED
    BY <1>1, <1>3, <2>1, BeforeCandidate
<1>5. ~FrameAt(Origin + f)
  BY <1>1, <1>2, <1>3, RejectedIsNoFrame, Zenon DEF Header
<1>6. PICK t \in {f + 1, f + 2} :
        Continue(t) /\ (t = f + 2 => buf[f + 2] = 161)
  BY <1>2, <1>3 DEF Whole, Header
<1>7. t \in Nat /\ t \in 0 .. Len(buf) /\ frame <= t /\ (t = f + 1 \/ t = f + 2)
  BY <1>3, <1>6
<1>8. \A g \in frame .. t - 1 : ~FrameAt(Origin + g)
  <2> SUFFICES ASSUME NEW g \in frame .. t - 1 PROVE ~FrameAt(Origin + g)
    OBVIOUS
  <2>1. g \in frame .. f - 1 \/ g = f \/ (g = f + 1 /\ t = f + 2)
    BY <1>3, <1>7
  <2>2. CASE g = f + 1 /\ t = f + 2
    <3>1. buf[(f + 1) + 1] # 160 /\ f + 1 \in 0 .. Len(buf) - 1
      <4>1. (f + 1) + 1 = f + 2
        BY <1>3
      <4> QED
        BY <1>3, <1>6, <2>2, <4>1
    <3> QED
      BY <1>1, <2>2, <3>1, NoStart
  <2> QED
    BY <1>4, <1>5, <2>1, <2>2, Zenon
<1>9. /\ stream' = stream /\ base' = base /\ frame' = t /\ scanning' = scanning
  BY <1>6 DEF Continue
<1>10. WindowInv' /\ Origin' = Origin
  <2>1. sent' \subseteq Messages
    BY <1>1, <1>2 DEF WindowInv, TypeOK
  <2> QED
    BY <1>1, <1>2, <1>6, <1>7, <2>1, ContinueKeepsWindow
<1>11. FramesAreGenuine'
  BY <1>1, <1>2, <1>9, SameReports
<1>12. Behind'
  <2>1. Origin + t \in Nat /\ Origin + t >= Origin + frame
    BY <1>3, <1>7
  <2> QED
    BY <1>1, <1>2, <1>9, <1>10, <2>1, StillBehind
<1>13. NoneIsMissed'
  <2>1. \A i \in base .. Origin + t - 1 :
          FrameAt(i) => \E m \in sent : m.at <= i /\ i < m.next
    BY <1>1, <1>7, <1>8, Passed
  <2> QED
    BY <1>2, <1>9, <1>10, <2>1, SameFrames, Zenon DEF NoneIsMissed
<1>14. ResidueFits'
  BY <1>2, <1>9 DEF ResidueFits
<1> QED
  BY <1>10, <1>11, <1>12, <1>13, <1>14 DEF IInv

LEMMA MessageType ==
  ASSUME NEW a \in Nat, NEW i \in Byte, NEW d \in UInt16, NEW n \in Nat
  PROVE  [at |-> a, ID |-> i, data_length |-> d, next |-> n] \in Messages
BY DEF Messages

LEMMA ReportStep ==
  ASSUME IInv, NEW f \in frame .. Len(buf) - 1, gps_data_out(f)
  PROVE  IInv'
<1> DEFINE len == packet_len(buf, f)
           t   == f + len + Overhead
           m   == [at |-> Origin + f, ID |-> buf[f + 5],
                   data_length |-> (len - 1) % 65536,
                   next |-> Origin + f + len + Overhead]
<1>1. WindowInv /\ FramesAreGenuine /\ Behind /\ NoneIsMissed
  BY DEF IInv
<1>2. /\ scanning /\ Candidate(f) /\ Valid(f) /\ Continue(t)
      /\ sent' = sent \cup {m}
  BY DEF gps_data_out
<1>3. /\ Whole(f) /\ buf[f + 1] = 160 /\ \A k \in frame .. f - 1 : buf[k + 1] # 160
      /\ f + Overhead <= Len(buf) /\ f + Overhead + len <= Len(buf)
  BY <1>2 DEF Candidate, Valid, Whole, Header
<1>4. /\ f \in Nat /\ frame \in Nat /\ Origin \in Nat /\ Len(buf) \in Nat
      /\ f \in 0 .. Len(buf) /\ frame <= f /\ buf \in Seq(Byte)
  BY <1>1, WindowFacts
<1>5. len \in Nat /\ packet_len(stream, Origin + f) = len
  BY <1>1, <1>3, <1>4, SameLength
<1>6. FrameAt(Origin + f) /\ buf[f + 5] = stream[(Origin + f) + 5]
  BY <1>1, <1>2, <1>3, <1>4, ValidIsFrame
<1>7. buf[f + 5] \in Byte
  BY <1>3, <1>4 DEF Overhead
<1> HIDE DEF len
<1>8. /\ t \in 0 .. Len(buf) /\ t \in Nat /\ f < t
      /\ Origin + f + len + Overhead = Origin + t
      /\ Origin + t \in Nat /\ Origin + f \in Nat /\ Origin + frame <= Origin + t
      /\ Origin + f + len + Overhead = (Origin + f) + Overhead + len
  BY <1>3, <1>4, <1>5 DEF Overhead
<1>9. (len - 1) % 65536 \in UInt16
  BY <1>5, TruncatedLength
<1>10. m \in Messages
  <2>1. Origin + f + len + Overhead \in Nat /\ Origin + f \in Nat
    BY <1>8
  <2> QED
    BY <1>7, <1>9, <2>1, MessageType
<1>11. /\ m.at = Origin + f /\ m.ID = buf[f + 5] /\ m.next = Origin + t
  BY <1>8
<1> HIDE DEF t, m
<1>12. /\ stream' = stream /\ base' = base /\ frame' = t /\ scanning' = scanning
  BY <1>2 DEF Continue
<1>13. WindowInv' /\ Origin' = Origin
  <2>1. sent' \subseteq Messages
    BY <1>1, <1>2, <1>10 DEF WindowInv, TypeOK
  <2> QED
    BY <1>1, <1>2, <1>8, <2>1, ContinueKeepsWindow
<1>14. FramesAreGenuine'
  <2>1. FrameAt(m.at) /\ m.ID = stream[m.at + 5]
    BY <1>6, <1>11
  <2>2. m.next = m.at + Overhead + packet_len(stream, m.at)
    BY <1>5, <1>8, <1>11
  <2>3. ASSUME NEW n \in sent PROVE n.next <= m.at
    <3>1. n.next \in Nat /\ n.next <= Origin + frame
      BY <1>1 DEF Behind, WindowInv, TypeOK, Messages
    <3> QED
      BY <1>4, <1>11, <3>1
  <2>4. \A n \in sent' :
          /\ FrameAt(n.at) /\ n.ID = stream[n.at + 5]
          /\ n.next = n.at + Overhead + packet_len(stream, n.at)
    BY <1>1, <1>2, <2>1, <2>2, Zenon DEF FramesAreGenuine
  <2>5. \A a, b \in sent' : a = b \/ a.next <= b.at \/ b.next <= a.at
    BY <1>1, <1>2, <2>3, Zenon DEF FramesAreGenuine
  <2> QED
    BY <1>12, <2>4, <2>5, SameFrames, Zenon DEF FramesAreGenuine
<1>15. Behind'
  <2>1. ASSUME NEW n \in sent PROVE n.next <= Origin + t
    <3>1. n.next \in Nat /\ n.next <= Origin + frame
      BY <1>1 DEF Behind, WindowInv, TypeOK, Messages
    <3> QED
      BY <1>4, <1>8, <3>1
  <2>2. m.next <= Origin + t
    BY <1>8, <1>11
  <2> QED
    BY <1>2, <1>12, <1>13, <2>1, <2>2, Zenon DEF Behind
<1>16. NoneIsMissed'
  <2>1. ASSUME NEW g \in frame .. t - 1, FrameAt(Origin + g)
        PROVE  \E n \in sent' : n.at <= Origin + g /\ Origin + g < n.next
    <3>1. ~(g \in frame .. f - 1)
      BY <1>1, <1>3, <1>4, <2>1, BeforeCandidate
    <3>2. m.at <= Origin + g /\ Origin + g < m.next
      BY <1>4, <1>8, <1>11, <3>1
    <3> QED
      BY <1>2, <3>2, Zenon
  <2>2. \A i \in base .. Origin + t - 1 :
          FrameAt(i) => \E n \in sent' : n.at <= i /\ i < n.next
    BY <1>1, <1>2, <1>8, <2>1, Passed
  <2> QED
    BY <1>12, <1>13, <2>2, SameFrames, Zenon DEF NoneIsMissed
<1>17. ResidueFits'
  BY <1>2, <1>12 DEF ResidueFits
<1> QED
  BY <1>13, <1>14, <1>15, <1>16, <1>17 DEF IInv

-----------------------------------------------------------------------------
LEMMA Initially == Init => IInv
<1> SUFFICES ASSUME Init PROVE IInv
  OBVIOUS
<1>1. /\ buf = <<>> /\ frame = 0 /\ scanning = FALSE /\ sent = {}
      /\ pos = 0 /\ base = 0
  BY DEF Init
<1>2. stream \in Seq(Byte)
  BY VenusFramesAssumption DEF Init
<1>3. Len(buf) = 0 /\ buf \in Seq(Byte) /\ Origin = 0
  <2>1. Len(<<>>) = 0 /\ <<>> \in Seq(Byte)
    OBVIOUS
  <2>2. Len(buf) = 0 /\ buf \in Seq(Byte)
    BY <1>1, <2>1, Zenon
  <2>3. pos - Len(buf) = 0 - 0
    BY <1>1, <2>2, Zenon
  <2> QED
    BY <2>2, <2>3 DEF Origin
<1>4. 0 < BufSize
  BY Sizes
<1>5. Len(stream) \in Nat
  BY <1>2
<1>6. TypeOK
  <2>1. /\ frame \in 0 .. Len(buf) /\ pos \in 0 .. Len(stream)
        /\ base \in 0 .. pos /\ Len(buf) < BufSize
    BY <1>1, <1>3, <1>4, <1>5
  <2> QED
    BY <1>1, <1>2, <1>3, <2>1, Zenon DEF TypeOK
<1>7. Window
  BY <1>1, <1>3 DEF Window
<1>8. FramesAreGenuine /\ Behind
  BY <1>1, Zenon DEF FramesAreGenuine, Behind
<1>9. NoneIsMissed
  BY <1>1, <1>3 DEF NoneIsMissed
<1>10. ResidueFits
  BY <1>3, Sizes DEF ResidueFits, Overhead
<1> QED
  BY <1>6, <1>7, <1>8, <1>9, <1>10 DEF IInv, WindowInv

LEMMA IInvHolds == Spec => []IInv
<1>1. Init => IInv
  BY Initially
<1>2. IInv /\ [Next]_vars => IInv'
  <2> SUFFICES ASSUME IInv, [Next]_vars PROVE IInv'
    OBVIOUS
  <2>0. WindowInv
    BY DEF IInv
  <2>1. ASSUME NEW n \in Chunks, cots_raw_in(n) PROVE IInv'
    BY <2>1, ReceiveStep
  <2>2. ASSUME ~Spilled, Exhausted PROVE IInv'
    <3>1. Keep(Len(buf)) /\ \A k \in frame .. Len(buf) - 1 : buf[k + 1] # 160
      BY <2>2, Zenon DEF Exhausted
    <3>2. /\ Len(buf) \in 0 .. Len(buf) /\ frame <= Len(buf)
          /\ Len(buf) - Len(buf) < MaxPacket + Overhead
      BY <2>0, WindowFacts, Sizes DEF Overhead
    <3> QED
      BY <2>2, <3>1, <3>2, KeepStep
  <2>3. ASSUME ~Spilled, NEW f \in frame .. Len(buf) - 1, WaitForMore(f)
        PROVE  IInv'
    <3>1. /\ Keep(f) /\ \A k \in frame .. f - 1 : buf[k + 1] # 160
          /\ f + Overhead > Len(buf) \/ (Header(f) /\ ~Whole(f))
      BY <2>3, Zenon DEF WaitForMore, Candidate
    <3>2. f \in 0 .. Len(buf) /\ f \in Nat /\ frame <= f /\ Len(buf) \in Nat
      BY <2>0, WindowFacts
    <3>3. Len(buf) - f < MaxPacket + Overhead
      <4>1. CASE f + Overhead > Len(buf)
        BY <3>2, <4>1, Sizes DEF Overhead
      <4>2. CASE Header(f) /\ ~Whole(f)
        <5>1. /\ f + Overhead <= Len(buf) /\ packet_len(buf, f) <= MaxPacket
              /\ ~(f + Overhead + packet_len(buf, f) <= Len(buf))
          BY <4>2, Zenon DEF Header, Whole
        <5>2. packet_len(buf, f) \in Nat
          BY <2>0, <3>2, <5>1, SameLength
        <5> QED
          BY <3>2, <5>1, <5>2, Sizes DEF Overhead
      <4> QED
        BY <3>1, <4>1, <4>2
    <3> QED
      BY <2>3, <3>1, <3>2, <3>3, KeepStep
  <2>4. ASSUME NEW f \in frame .. Len(buf) - 1, Skip(f) PROVE IInv'
    BY <2>4, SkipStep
  <2>5. ASSUME NEW f \in frame .. Len(buf) - 1, gps_data_out(f) PROVE IInv'
    BY <2>5, ReportStep
  <2>6. CASE UNCHANGED vars
    <3>1. /\ buf' = buf /\ frame' = frame /\ scanning' = scanning /\ sent' = sent
          /\ stream' = stream /\ pos' = pos /\ base' = base
      BY <2>6 DEF vars
    <3>2. WindowInv'
      BY <2>0, <3>1, Zenon DEF WindowInv, TypeOK, Window, Origin
    <3>3. FramesAreGenuine'
      BY <3>1, SameReports DEF IInv
    <3>4. Behind' /\ ResidueFits' /\ Origin' = Origin
      BY <3>1, Zenon DEF IInv, Behind, ResidueFits, Origin
    <3>5. NoneIsMissed'
      BY <3>1, <3>4, SameFrames, Zenon DEF IInv, NoneIsMissed
    <3> QED
      BY <3>2, <3>3, <3>4, <3>5 DEF IInv
  <2> QED
    BY <2>1, <2>2, <2>3, <2>4, <2>5, <2>6, Zenon DEF Next, send_venus_messages
<1> QED
  BY <1>1, <1>2, PTL DEF Spec

(* The parser's pointers stay within what has been received.  However the  *)
(* stream is cut, a rest and a datagram together never fill the buffer: it *)
(* is filled, or written past, only by a datagram that alone is that long. *)
THEOREM TypeCorrect == Spec => []TypeOK
<1>1. IInv => TypeOK
  BY DEF IInv, WindowInv
<1> QED
  BY <1>1, IInvHolds, PTL

(* Every message sent is a frame of the received stream, and no two        *)
(* overlap, for every stream and every way to cut it into datagrams.       *)
THEOREM Genuine == Spec => []FramesAreGenuine
<1>1. IInv => FramesAreGenuine
  BY DEF IInv
<1> QED
  BY <1>1, IInvHolds, PTL

(* Every frame that the parser has passed since the last overrun was sent  *)
(* or began inside a frame that was.                                       *)
THEOREM NoFrameMissed == Spec => []NoneIsMissed
<1>1. IInv => NoneIsMissed
  BY DEF IInv
<1> QED
  BY <1>1, IInvHolds, PTL

(* What is left for the next datagram is shorter than the longest frame.   *)
THEOREM ResidueBound == Spec => []ResidueFits
<1>1. IInv => ResidueFits
  BY DEF IInv
<1> QED
  BY <1>1, IInvHolds, PTL

-----------------------------------------------------------------------------
(* A pass over the uncut stream finds one set of frames and no other.      *)
LEMMA SetInduction ==
  ASSUME NEW S, 0 \in S, \A n \in Nat : n \in S => n + 1 \in S
  PROVE  Nat \subseteq S
<1> SUFFICES ASSUME NEW T, T = Nat \ S, T # {} PROVE FALSE
  OBVIOUS
<1> DEFINE Less == {p \in Nat \X Nat : p[1] < p[2]}
<1>1. IsWellFoundedOn(Less, Nat)
  BY NatLessThanWellFounded, Zenon DEF OpToRel
<1>2. \A x, y \in Nat : x < y => <<x, y>> \in Less
  OBVIOUS
<1> HIDE DEF Less
<1>3. PICK x \in T : \A y \in T : ~(<<y, x>> \in Less)
  BY <1>1, WFMin
<1>4. x \in Nat /\ x \notin S /\ x # 0
  BY <1>3
<1>5. x - 1 \in Nat /\ x - 1 < x /\ x = (x - 1) + 1
  BY <1>4
<1>6. x - 1 \notin T
  BY <1>2, <1>3, <1>4, <1>5
<1> QED
  BY <1>4, <1>5, <1>6

LEMMA OneReading ==
  ASSUME NEW b \in Nat, NEW e \in Nat,
         NEW S \in SUBSET FramesIn(b, e), IsReading(S, b, e),
         NEW T \in SUBSET FramesIn(b, e), IsReading(T, b, e)
  PROVE  S = T
<1> DEFINE K == {n \in Nat : \A i \in Nat : i < n => (i \in S <=> i \in T)}
<1>0. \A i \in FramesIn(b, e) : i \in Nat
  BY DEF FramesIn
<1>1. 0 \in K
  OBVIOUS
<1>2. ASSUME NEW n \in Nat, n \in K PROVE n + 1 \in K
  <2>1. \A i \in Nat : i < n => (i \in S <=> i \in T)
    BY <1>2
  <2>2. n \in S <=> n \in T
    <3>1. CASE n \in FramesIn(b, e)
      <4>1. /\ n \in S <=> \A j \in S : j < n => FrameEnd(j) <= n
            /\ n \in T <=> \A j \in T : j < n => FrameEnd(j) <= n
        BY <3>1, Zenon DEF IsReading
      <4>2. \A j : (j \in S /\ j < n) <=> (j \in T /\ j < n)
        BY <1>0, <2>1, Zenon
      <4> QED
        BY <4>1, <4>2, Zenon
    <3>2. CASE n \notin FramesIn(b, e)
      BY <3>2, Zenon
    <3> QED
      BY <3>1, <3>2
  <2>3. ASSUME NEW i \in Nat, i < n + 1 PROVE i \in S <=> i \in T
    <3>1. i < n \/ i = n
      BY <2>3
    <3> QED
      BY <2>1, <2>2, <3>1, Zenon
  <2> QED
    BY <2>3
<1> HIDE DEF K
<1>3. Nat \subseteq K
  BY <1>1, <1>2, SetInduction
<1>4. ASSUME NEW i \in FramesIn(b, e) PROVE i \in S <=> i \in T
  <2>1. i \in Nat /\ i + 1 \in Nat /\ i < i + 1
    BY <1>0
  <2>2. i + 1 \in K
    BY <1>3, <2>1
  <2> QED
    BY <2>1, <2>2 DEF K
<1> QED
  BY <1>4, Zenon

(* An overrun happens between frames: none that was sent reaches across.   *)
Apart == \A m \in sent : m.next <= base \/ base <= m.at

LEMMA ReceiveKeepsApart ==
  ASSUME IInv, Apart, NEW n \in Chunks, cots_raw_in(n)
  PROVE  Apart'
<1>1. WindowInv /\ Behind
  BY DEF IInv
<1>2. sent' = sent /\ (base' = base \/ base' = pos)
  BY DEF cots_raw_in
<1>3. /\ pos \in Nat /\ Len(buf) \in Nat /\ frame \in Nat /\ frame <= Len(buf)
      /\ sent \subseteq Messages
  BY <1>1 DEF WindowInv, TypeOK
<1>4. ASSUME NEW m \in sent PROVE m.next <= pos
  <2>1. m.next \in Nat /\ m.next <= pos - Len(buf) + frame
    BY <1>1, <1>3 DEF Behind, Origin, Messages
  <2> QED
    BY <1>3, <2>1
<1> QED
  BY <1>2, <1>4, Zenon DEF Apart

LEMMA ReportKeepsApart ==
  ASSUME IInv, Apart, NEW f \in frame .. Len(buf) - 1, gps_data_out(f)
  PROVE  Apart'
<1> DEFINE m == [at |-> Origin + f, ID |-> buf[f + 5],
                 data_length |-> (packet_len(buf, f) - 1) % 65536,
                 next |-> Origin + f + packet_len(buf, f) + Overhead]
<1>1. sent' = sent \cup {m} /\ base' = base
  BY DEF gps_data_out, Continue
<1>2. m.at = Origin + f
  OBVIOUS
<1> HIDE DEF m
<1>3. base <= m.at
  BY <1>2, WindowFacts DEF IInv
<1>4. ASSUME NEW n \in sent' PROVE n.next <= base' \/ base' <= n.at
  BY <1>1, <1>3, <1>4, Zenon DEF Apart
<1> QED
  BY <1>4, Zenon DEF Apart

LEMMA ApartHolds == Spec => []Apart
<1>1. Init => Apart
  BY DEF Init, Apart
<1>2. IInv /\ Apart /\ [Next]_vars => Apart'
  <2> SUFFICES ASSUME IInv, Apart, [Next]_vars PROVE Apart'
    OBVIOUS
  <2>1. UNCHANGED <<sent, base>> => Apart'
    BY Zenon DEF Apart
  <2>2. ASSUME \/ Exhausted \/ UNCHANGED vars
               \/ \E f \in frame .. Len(buf) - 1 : WaitForMore(f) \/ Skip(f)
        PROVE  UNCHANGED <<sent, base>>
    BY <2>2, Zenon DEF Exhausted, WaitForMore, Skip, Keep, Continue, vars
  <2> QED
    BY <2>1, <2>2, ReceiveKeepsApart, ReportKeepsApart, Zenon
       DEF Next, send_venus_messages
<1> QED
  BY <1>1, <1>2, IInvHolds, PTL DEF Spec

(* What was reported is such a reading, hence the only one.                *)
LEMMA ReportsAreReading ==
  ASSUME IInv, Apart
  PROVE  CutsDoNotMatter
<1> DEFINE e == Origin + frame
           S == {m.at : m \in {n \in sent : n.at >= base}}
<1>1. /\ base \in Nat /\ e \in Nat /\ stream \in Seq(Byte) /\ sent \subseteq Messages
  BY WindowFacts DEF IInv, WindowInv, TypeOK
<1>2. ASSUME NEW m \in sent
      PROVE  /\ m.at \in Nat /\ m.next \in Nat /\ FrameAt(m.at)
             /\ m.next = FrameEnd(m.at) /\ m.at < m.next /\ m.next <= e
  <2>1. m.at \in Nat /\ m.next \in Nat /\ m.next <= e
    BY <1>1 DEF Messages, IInv, Behind
  <2>2. FrameAt(m.at) /\ m.next = FrameEnd(m.at)
    BY Zenon DEF IInv, FramesAreGenuine, FrameEnd
  <2>3. m.at + 7 <= Len(stream) /\ Len(stream) \in Nat
    BY <1>1, <2>2 DEF FrameAt, Overhead
  <2>4. packet_len(stream, m.at) \in Nat
    BY <1>1, <2>1, <2>3, PacketLength
  <2>5. m.at < m.next
    BY <2>1, <2>2, <2>4 DEF FrameEnd, Overhead
  <2> QED
    BY <2>1, <2>2, <2>5
<1>3. \A m, n \in sent : m = n \/ m.next <= n.at \/ n.next <= m.at
  BY Zenon DEF IInv, FramesAreGenuine
<1>4. \A i \in base .. e - 1 : FrameAt(i) => \E m \in sent : m.at <= i /\ i < m.next
  <2>1. NoneIsMissed
    BY DEF IInv
  <2>2. base .. e - 1 = base .. Origin + frame - 1
    <3>1. Origin \in Nat /\ frame \in Nat /\ base \in Nat
      BY WindowFacts DEF IInv
    <3> QED
      BY <3>1
  <2> HIDE DEF e
  <2> QED
    BY <2>1, <2>2, Zenon DEF NoneIsMissed
<1> HIDE DEF e
<1>5. S \subseteq FramesIn(base, e)
  <2> SUFFICES ASSUME NEW m \in sent, m.at >= base PROVE m.at \in FramesIn(base, e)
    OBVIOUS
  <2>1. m.at \in base .. e - 1
    BY <1>1, <1>2
  <2> QED
    BY <1>2, <2>1 DEF FramesIn
<1>6. ASSUME NEW i \in FramesIn(base, e)
      PROVE  i \in S <=> \A j \in S : j < i => FrameEnd(j) <= i
  <2>0. i \in Nat /\ base <= i /\ i \in base .. e - 1 /\ FrameAt(i)
    BY <1>1 DEF FramesIn
  <2>1. ASSUME i \in S, NEW j \in S, j < i PROVE FrameEnd(j) <= i
    <3>1. PICK m, n \in sent : m.at = i /\ n.at = j
      BY <2>1
    <3>2. m # n
      BY <1>2, <2>1, <3>1
    <3>3. ~(m.next <= n.at)
      BY <1>2, <2>1, <3>1
    <3>4. n.next <= m.at
      BY <1>3, <3>2, <3>3
    <3> QED
      BY <1>2, <3>1, <3>4
  <2>2. ASSUME \A j \in S : j < i => FrameEnd(j) <= i PROVE i \in S
    <3>1. PICK m \in sent : m.at <= i /\ i < m.next
      BY <1>4, <2>0
    <3>2. m.at >= base
      <4>1. ~(m.next <= base)
        BY <1>1, <1>2, <2>0, <3>1
      <4> QED
        BY <1>1, <1>2, <4>1 DEF Apart
    <3>3. m.at \in S
      BY <3>2
    <3>4. ~(m.at < i)
      BY <1>2, <2>0, <2>2, <3>1, <3>3
    <3>5. m.at = i
      BY <1>2, <2>0, <3>1, <3>4
    <3> QED
      BY <3>3, <3>5
  <2> QED
    BY <2>1, <2>2
<1> HIDE DEF S
<1>7. IsReading(S, base, e)
  BY <1>6, Zenon DEF IsReading
<1>8. Reading(base, e) \in SUBSET FramesIn(base, e) /\ IsReading(Reading(base, e), base, e)
  BY <1>5, <1>7, Zenon DEF Reading
<1>9. S = Reading(base, e)
  BY <1>1, <1>5, <1>7, <1>8, OneReading
<1> QED
  BY <1>9 DEF CutsDoNotMatter, S, e

(* What is reported does not depend on how the stream was cut into         *)
(* datagrams: since an overrun it is what one pass over the stream finds.  *)
THEOREM CutsAreInvisible == Spec => []CutsDoNotMatter
BY ReportsAreReading, IInvHolds, ApartHolds, PTL
=============================================================================

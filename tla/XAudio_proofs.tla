----------------------------- MODULE XAudio_proofs -----------------------------
(***************************************************************************)
(* What holds of xaudiotest for a file of any length, chunks, periods and  *)
(* buffers of any size: the buffer has room for what is decoded, playback  *)
(* neither repeats nor reorders a sample and loses only ends of chunks,    *)
(* the dump is complete, and a capture is heard to half a step of u-law.   *)
(*                                                                         *)
(* The first part is about u-law: the segment of a sample is the one its   *)
(* magnitude lies in, and decoding gives it back to half a step.           *)
(***************************************************************************)
EXTENDS XAudio, TLAPS

LEMMA Powers ==
  /\ Power(0) = 1 /\ Power(1) = 2 /\ Power(2) = 4 /\ Power(3) = 8
  /\ Power(4) = 16 /\ Power(5) = 32 /\ Power(6) = 64 /\ Power(7) = 128
  /\ Power(8) = 256 /\ Power(9) = 512 /\ Power(10) = 1024 /\ Power(11) = 2048
  /\ Power(12) = 4096 /\ Power(13) = 8192 /\ Power(14) = 16384
  /\ Power(15) = 32768 /\ Power(16) = 65536
BY DEF Power

\* The upper half decides the bit, or is empty: words of four and eight bits.
LEMMA HalvingOf4 ==
  ASSUME NEW w \in 1 .. 15
  PROVE  \/ w = 1 /\ TopOf4(w) = 0
         \/ 2 <= w /\ w < 4 /\ TopOf4(w) = 1
         \/ 4 <= w /\ w < 8 /\ TopOf4(w) = 2
         \/ 8 <= w /\ TopOf4(w) = 3
<1> DEFINE d == w \div 4
<1>1. d \in Int /\ 4 * d <= w /\ w < 4 * d + 4
  OBVIOUS
<1> HIDE DEF d
<1>2. TopOf4(w) = IF w >= 4 THEN 2 + TopOf2(d) ELSE TopOf2(w)
  BY DEF TopOf4, d
<1> QED BY <1>1, <1>2 DEF TopOf2

LEMMA HalvingOf8 ==
  ASSUME NEW w \in 1 .. 255
  PROVE  \/ w = 1 /\ TopOf8(w) = 0
         \/ 2 <= w /\ w < 4 /\ TopOf8(w) = 1
         \/ 4 <= w /\ w < 8 /\ TopOf8(w) = 2
         \/ 8 <= w /\ w < 16 /\ TopOf8(w) = 3
         \/ 16 <= w /\ w < 32 /\ TopOf8(w) = 4
         \/ 32 <= w /\ w < 64 /\ TopOf8(w) = 5
         \/ 64 <= w /\ w < 128 /\ TopOf8(w) = 6
         \/ 128 <= w /\ TopOf8(w) = 7
<1> DEFINE d == w \div 16
<1>1. d \in Int /\ 16 * d <= w /\ w < 16 * d + 16
  OBVIOUS
<1> HIDE DEF d
<1>2. TopOf8(w) = IF w >= 16 THEN 4 + TopOf4(d) ELSE TopOf4(w)
  BY DEF TopOf8, d
<1>3. CASE w < 16
  BY <1>2, <1>3, HalvingOf4
<1>4. CASE w >= 16
  <2>1. d \in 1 .. 15
    BY <1>1, <1>4
  <2> QED BY <1>1, <1>2, <1>4, <2>1, HalvingOf4
<1> QED BY <1>3, <1>4

\* top_bit with its masks finds the segment whose bounds enclose a magnitude.
LEMMA SegmentEncloses ==
  ASSUME NEW m \in Int, 0 <= m, m < 65536
  PROVE  \/ Segment(m) = 0 /\ m < 256
         \/ \E seg \in 1 .. 8 :
              Segment(m) = seg /\ Power(seg + 7) <= m /\ m < Power(seg + 8)
<1> DEFINE h == m \div 256
           w == 256 * h + 255
<1>1. h \in Int /\ 256 * h <= m /\ m < 256 * h + 256
  OBVIOUS
<1>2. h \in 0 .. 255
  BY <1>1
<1> HIDE DEF h
<1>3. w \div 256 = h /\ w >= 255 /\ w < 65536
  BY <1>2
<1>4. Segment(m) = top_bit(w) - 7
  BY DEF Segment, h
<1>5. CASE h = 0
  <2>1. top_bit(w) = 7
    BY <1>5 DEF top_bit, TopOf16, TopOf8, TopOf4, TopOf2
  <2> QED BY <2>1, <1>1, <1>4, <1>5
<1>6. CASE h > 0
  <2>1. top_bit(w) = 8 + TopOf8(h)
    BY <1>2, <1>3, <1>6 DEF top_bit, TopOf16
  <2>2. h \in 1 .. 255
    BY <1>2, <1>6
  <2>3. \E j \in 0 .. 7 :
          TopOf8(h) = j /\ Power(j + 8) <= 256 * h /\ 256 * h + 255 < Power(j + 9)
    BY <2>2, HalvingOf8, Powers
  <2>4. PICK j \in 0 .. 7 :
          TopOf8(h) = j /\ Power(j + 8) <= 256 * h /\ 256 * h + 255 < Power(j + 9)
    BY <2>3
  <2>5. Segment(m) = j + 1 /\ (j + 1) + 7 = j + 8 /\ (j + 1) + 8 = j + 9
    BY <2>1, <2>4, <1>4
  <2> QED BY <2>4, <2>5, <1>1, Powers
<1>7. h = 0 \/ h > 0
  BY <1>2
<1> QED BY <1>5, <1>6, <1>7
-----------------------------------------------------------------------------
\* Shifts by the segment, side by side.
LEMMA Shifts ==
  ASSUME NEW k \in 0 .. 7
  PROVE  /\ Power(k) \in {1, 2, 4, 8, 16, 32, 64, 128}
         /\ Power(k + 3) = 8 * Power(k)
         /\ Power(k + 7) = 128 * Power(k)
         /\ Power(k + 8) = 256 * Power(k)
<1>1. k = 0 \/ k = 1 \/ k = 2 \/ k = 3 \/ k = 4 \/ k = 5 \/ k = 6 \/ k = 7
  OBVIOUS
<1> QED BY <1>1, Powers

\* Segment k and mantissa q as they are found in a magnitude, ...
LEMMA Mantissa ==
  ASSUME NEW m \in Int, 128 <= m, m < 65536, NEW k \in 0 .. 7, Segment(m) = k
  PROVE  \E q \in 0 .. 15 :
           /\ (m \div Power(k + 3)) % 16 = q
           /\ Power(k + 3) * (q + 16) <= m /\ m < Power(k + 3) * (q + 17)
<1> DEFINE P == Power(k + 3)
           e == m \div P
<1>1. \/ Segment(m) = 0 /\ m < 256
      \/ \E seg \in 1 .. 8 :
           Segment(m) = seg /\ Power(seg + 7) <= m /\ m < Power(seg + 8)
  BY SegmentEncloses
<1>2. \/ k = 0 /\ m < 256
      \/ Power(k + 7) <= m /\ m < Power(k + 8)
  BY <1>1
<1>3. /\ P \in {8, 16, 32, 64, 128, 256, 512, 1024}
      /\ 16 * P <= m /\ m < 32 * P
  BY <1>2, Shifts, Powers
<1> HIDE DEF P
<1>4. m \in Int /\ P \in Int
  BY <1>3
<1>5. e \in Int /\ P * e <= m /\ m < P * e + P
  BY <1>3, <1>4
<1> HIDE DEF e
<1>6. e \in 16 .. 31
  BY <1>3, <1>4, <1>5
<1>7. e % 16 = e - 16 /\ e - 16 \in 0 .. 15
  BY <1>6
<1>8. P * ((e - 16) + 16) <= m /\ m < P * ((e - 16) + 17)
  <2>1. (e - 16) + 16 = e /\ (e - 16) + 17 = e + 1 /\ P * (e + 1) = P * e + P
    BY <1>4, <1>6
  <2> QED BY <2>1, <1>5
<1> QED BY <1>7, <1>8 DEF e, P

\* ... and as they are read off a code word.
LEMMA Decode ==
  ASSUME NEW k \in 0 .. 7, NEW q \in 0 .. 15
  PROVE  /\ ulaw_to_linear(255 - (16 * k + q)) = (8 * q + 132) * Power(k) - 132
         /\ ulaw_to_linear(127 - (16 * k + q)) = 132 - (8 * q + 132) * Power(k)
<1> DEFINE c == 16 * k + q
<1>1. c \in 0 .. 127 /\ c % 16 = q /\ c % 128 = c /\ c \div 16 = k
  OBVIOUS
<1>2. (c + 128) % 16 = q /\ (c + 128) % 128 = c
  OBVIOUS
<1>3. 255 - (255 - c) = c /\ 255 - (127 - c) = c + 128
  OBVIOUS
<1> HIDE DEF c
<1>4. ulaw_to_linear(255 - c) = (8 * q + 132) * Power(k) - 132
  BY <1>1, <1>3 DEF ulaw_to_linear, ULAW_BIAS
<1>5. ulaw_to_linear(127 - c) = 132 - (8 * q + 132) * Power(k)
  BY <1>1, <1>2, <1>3 DEF ulaw_to_linear, ULAW_BIAS
<1> QED BY <1>4, <1>5 DEF c

\* A sample that is coded and decoded again comes back to half a step of its
\* segment, the extremes that are clipped included (g711.h, lines 248-299).
THEOREM UlawToHalfAStep ==
  ASSUME NEW x \in Int, -32768 <= x, x <= 32767
  PROVE  /\ UlawHeard(x) \in Int /\ UlawHalfStep(x) \in Int
         /\ UlawHeard(x) - x <= UlawHalfStep(x)
         /\ x - UlawHeard(x) <= UlawHalfStep(x)
<1> DEFINE m == Biased(x)
           k == Segment(m)
           base == IF x < 0 THEN 127 ELSE 255
<1>1. /\ x < 0 => m = 131 - x
      /\ x >= 0 => m = 132 + x
  BY DEF Biased, ULAW_BIAS
<1>2. linear_to_ulaw(x) =
        base - (IF k >= 8 THEN 127 ELSE 16 * k + ((m \div Power(k + 3)) % 16))
  BY DEF linear_to_ulaw
<1>3. UlawHalfStep(x) = 4 * Power(k)
  BY DEF UlawHalfStep
<1> HIDE DEF m
<1>4. m \in Int /\ 131 <= m /\ m <= 32899
  BY <1>1
<1>5. \/ Segment(m) = 0 /\ m < 256
      \/ \E seg \in 1 .. 8 :
           Segment(m) = seg /\ Power(seg + 7) <= m /\ m < Power(seg + 8)
  BY <1>4, SegmentEncloses
<1>6. k \in 0 .. 7 \/ (k = 8 /\ 32768 <= m)
  BY <1>5, Powers
<1>7. CASE k = 8 /\ 32768 <= m
  <2>1. linear_to_ulaw(x) = base - (16 * 7 + 15)
    BY <1>2, <1>7
  <2>2. Power(7) = 128 /\ Power(8) = 256
    BY Powers
  <2>3. /\ x < 0 => UlawHeard(x) = -32124
        /\ x >= 0 => UlawHeard(x) = 32124
    BY <2>1, <2>2, Decode DEF UlawHeard
  <2>4. UlawHalfStep(x) = 1024
    BY <1>3, <1>7, <2>2
  <2> QED BY <2>3, <2>4, <1>1, <1>4, <1>7
<1>8. CASE k \in 0 .. 7
  <2>1. Segment(m) = k /\ m >= 128
    BY <1>4
  <2>2. \E q \in 0 .. 15 :
          /\ (m \div Power(k + 3)) % 16 = q
          /\ Power(k + 3) * (q + 16) <= m /\ m < Power(k + 3) * (q + 17)
    BY <1>4, <1>8, <2>1, Mantissa
  <2> HIDE DEF k
  <2>3. PICK q \in 0 .. 15 :
          /\ (m \div Power(k + 3)) % 16 = q
          /\ Power(k + 3) * (q + 16) <= m /\ m < Power(k + 3) * (q + 17)
    BY <2>2
  <2>4. linear_to_ulaw(x) = base - (16 * k + q)
    BY <1>2, <1>8, <2>3
  <2>5. /\ x < 0 => UlawHeard(x) = 132 - (8 * q + 132) * Power(k)
        /\ x >= 0 => UlawHeard(x) = (8 * q + 132) * Power(k) - 132
    BY <1>8, <2>4, Decode DEF UlawHeard
  <2>6. Power(k + 3) = 8 * Power(k) /\ Power(k) \in {1, 2, 4, 8, 16, 32, 64, 128}
    BY <1>8, Shifts
  <2> DEFINE p == Power(k)
  <2>7. /\ p \in {1, 2, 4, 8, 16, 32, 64, 128}
        /\ 8 * p * (q + 16) <= m /\ m < 8 * p * (q + 17)
    BY <2>3, <2>6
  <2>8. /\ x < 0 => UlawHeard(x) = 132 - (8 * q + 132) * p
        /\ x >= 0 => UlawHeard(x) = (8 * q + 132) * p - 132
    BY <2>5
  <2>9. UlawHalfStep(x) = 4 * p
    BY <1>3
  <2> HIDE DEF p
  <2>10. UlawHeard(x) \in Int
    BY <2>7, <2>8
  <2>11. CASE x < 0
    BY <2>7, <2>8, <2>9, <1>1, <1>4, <2>11
  <2>12. CASE x >= 0
    BY <2>7, <2>8, <2>9, <1>1, <1>4, <2>12
  <2> QED BY <2>11, <2>12
<1> QED BY <1>6, <1>7, <1>8
-----------------------------------------------------------------------------
(* Quotients, buffers and frames.                                          *)

LEMMA Quotient ==
  ASSUME NEW a \in Nat, NEW b \in Nat \ {0}
  PROVE  a \div b \in Nat /\ (a \div b) * b <= a /\ a < (a \div b) * b + b
OBVIOUS

LEMMA QuotientOfProduct ==
  ASSUME NEW q \in Nat, NEW b \in Nat \ {0}, NEW r \in 0 .. b - 1
  PROVE  (q * b + r) \div b = q
OBVIOUS

LEMMA ProductsGrow ==
  ASSUME NEW m \in Nat, NEW n \in Nat, NEW b \in Nat, m <= n
  PROVE  m * b \in Nat /\ n * b \in Nat /\ m * b <= n * b
OBVIOUS

\* Frames start and end inside what they are counted in, and pcm_buffer holds
\* a whole number of them.
LEMMA FrameBounds ==
  ASSUME XAudioAssumption, channels \in 1 .. 2
  PROVE  /\ \A n \in Nat : /\ FrameUp(n) \in Nat /\ n <= FrameUp(n)
                           /\ FrameDown(n) \in Nat /\ FrameDown(n) <= n
         /\ Room = PCM
<1> DEFINE u == Unit
<1>1. u \in Nat \ {0} /\ PCM \in Nat
  BY DEF XAudioAssumption, Unit
<1>2. PCM % u = 0
  <2>1. FRAME \in Nat \ {0} /\ PCM % (2 * FRAME) = 0
    BY DEF XAudioAssumption
  <2>2. CASE channels = 2
    BY <2>1, <2>2 DEF Unit
  <2>3. CASE channels = 1
    <3>1. PCM = (PCM \div (2 * FRAME)) * (2 * FRAME)
      BY <1>1, <2>1
    <3> DEFINE q == PCM \div (2 * FRAME)
    <3>2. q \in Nat /\ PCM = (2 * q) * FRAME
      BY <1>1, <2>1, <3>1, Quotient
    <3> HIDE DEF q
    <3>3. PCM % FRAME = 0
      BY <2>1, <3>2
    <3>4. u = FRAME
      BY <2>1, <2>3 DEF Unit
    <3>5. QED BY <3>3, <3>4
  <2>4. QED BY <2>2, <2>3
<1> HIDE DEF u
<1>3. /\ \A n : FrameUp(n) = ((n + u - 1) \div u) * u
      /\ \A n : FrameDown(n) = (n \div u) * u
  BY DEF FrameUp, FrameDown, u
<1>4. ASSUME NEW n \in Nat
      PROVE  /\ FrameUp(n) \in Nat /\ n <= FrameUp(n)
             /\ FrameDown(n) \in Nat /\ FrameDown(n) <= n
  <2>1. n + u - 1 \in Nat
    BY <1>1
  <2>2. FrameUp(n) \in Nat /\ n + u - 1 < FrameUp(n) + u
    BY <1>1, <1>3, <2>1, Quotient
  <2>3. FrameDown(n) \in Nat /\ FrameDown(n) <= n
    BY <1>1, <1>3, Quotient
  <2>4. QED BY <1>1, <2>2, <2>3
<1>5. FrameUp(PCM) = PCM
  <2> DEFINE q == PCM \div u
  <2>1. q \in Nat /\ PCM = q * u
    BY <1>1, <1>2, Quotient
  <2> HIDE DEF q
  <2>2. PCM + u - 1 = q * u + (u - 1) /\ u - 1 \in 0 .. u - 1
    BY <1>1, <2>1
  <2>3. (PCM + u - 1) \div u = q
    BY <1>1, <2>1, <2>2, QuotientOfProduct
  <2>4. QED BY <1>3, <2>1, <2>3
<1>6. QED BY <1>4, <1>5 DEF Room

\* s holds the n samples from b on.
Holds(s, b, n) == \A i \in 1 .. n : s[i] = b + i - 1

LEMMA SamplesHold ==
  ASSUME NEW b \in Nat, NEW c \in Int
  PROVE  /\ Samples(b, c) \in Seq(Nat)
         /\ Len(Samples(b, c)) = IF b <= c THEN c - b ELSE 0
         /\ Holds(Samples(b, c), b, Len(Samples(b, c)))
<1>1. CASE b <= c
  <2>1. c - b \in Nat /\ Samples(b, c) \in [1 .. c - b -> Nat]
    BY <1>1 DEF Samples
  <2>2. QED BY <1>1, <2>1 DEF Samples, Holds
<1>2. CASE c < b
  <2>1. 1 .. c - b = {} /\ 1 .. 0 = {}
    BY <1>2
  <2>2. Samples(b, c) \in [1 .. 0 -> Nat]
    BY <2>1 DEF Samples
  <2>3. QED BY <1>2, <2>2 DEF Holds
<1>3. QED BY <1>1, <1>2

\* decode gives a run of the chunk's samples for which there is room; G711's
\* run is the chunk.
LEMMA DecodedRun ==
  ASSUME XAudioAssumption, channels \in 1 .. 2, NEW b \in Nat, NEW c \in Nat, b <= c,
         codec = "G711" => c - b <= PCM, NEW d \in Decoded(b, c)
  PROVE  /\ d \in Seq(Nat) /\ Len(d) \in 0 .. PCM
         /\ \E f \in b .. c : f + Len(d) <= c /\ Holds(d, f, Len(d))
         /\ codec = "G711" => Len(d) = c - b /\ Holds(d, b, Len(d))
<1>1. CASE codec = "G711"
  <2>1. d = Samples(b, c)
    BY <1>1 DEF Decoded
  <2>2. c \in Int /\ c - b \in Nat /\ PCM \in Nat
    BY DEF XAudioAssumption
  <2>3. /\ Samples(b, c) \in Seq(Nat) /\ Len(Samples(b, c)) = c - b
        /\ Holds(Samples(b, c), b, Len(Samples(b, c)))
    BY <2>2, SamplesHold
  <2>4. d \in Seq(Nat) /\ Len(d) = c - b /\ Holds(d, b, Len(d))
    BY <2>1, <2>3
  <2>5. QED BY <1>1, <2>2, <2>4
<1>2. CASE codec # "G711" /\ d = <<>>
  BY <1>2 DEF Holds, XAudioAssumption
<1>3. CASE codec # "G711" /\ d # <<>>
  <2> DEFINE f == FrameUp(b)
             e == Smaller(FrameDown(c), f + Room)
  <2>1. d = Samples(f, e)
    BY <1>3 DEF Decoded
  <2>2. /\ f \in Nat /\ b <= f /\ Room = PCM /\ PCM \in Nat
        /\ FrameDown(c) \in Nat /\ FrameDown(c) <= c
    BY FrameBounds DEF XAudioAssumption
  <2>3. e \in Nat /\ e <= c /\ e <= f + PCM
    BY <2>2 DEF Smaller
  <2> HIDE DEF f, e
  <2>4. /\ d \in Seq(Nat) /\ Len(d) = (IF f <= e THEN e - f ELSE 0)
        /\ Holds(d, f, Len(d))
    <3>1. f \in Nat /\ e \in Int
      BY <2>2, <2>3
    <3>2. /\ Samples(f, e) \in Seq(Nat)
          /\ Len(Samples(f, e)) = IF f <= e THEN e - f ELSE 0
          /\ Holds(Samples(f, e), f, Len(Samples(f, e)))
      BY <3>1, SamplesHold
    <3>3. QED BY <2>1, <3>2
  <2>5. CASE f <= e
    BY <1>3, <2>2, <2>3, <2>4, <2>5
  <2>6. CASE e < f
    <3>1. Len(d) = 0 /\ Holds(d, b, Len(d))
      BY <2>2, <2>3, <2>4, <2>6 DEF Holds
    <3>2. QED BY <1>3, <2>2, <2>4, <3>1
  <2>7. QED BY <2>2, <2>3, <2>5, <2>6
<1>4. QED BY <1>1, <1>2, <1>3

\* The n samples behind index o in a buffer.
LEMMA Slice ==
  ASSUME NEW S, NEW N \in Nat, NEW buf \in [1 .. N -> S], NEW o \in Nat, NEW n \in Nat,
         o + n <= N
  PROVE  /\ SubSeq(buf, o + 1, o + n) \in Seq(S)
         /\ Len(SubSeq(buf, o + 1, o + n)) = n
         /\ \A i \in 1 .. n : SubSeq(buf, o + 1, o + n)[i] = buf[o + i]
OBVIOUS
-----------------------------------------------------------------------------
(* Types and stages.                                                       *)

\* What the stages say of the rest: nothing has been read before "fread" or
\* "read", playback reads a file and does not read past its end.
StageInv ==
  /\ pc \in {"options", "start"} =>
       /\ pos = 0 /\ out = <<>> /\ dumped = <<>> /\ batch = 0 /\ num_frames = 0
       /\ xrun = FALSE
  /\ pc \in {"fread", "write", "close", "closed", "crashed"} =>
       mode = "Playback" /\ pos <= len
  /\ pc \in {"start", "fread", "write"} /\ mode = "Playback" => bufsz \in Chunks
  /\ pc = "read" => mode = "Capture"
  /\ pc = "read" => batch <= CAPTURE \div period_size
  /\ pc = "write" => batch <= num_batches

LEMMA Elements ==
  ASSUME NEW S, NEW T, NEW s \in Seq(S), \A i \in 1 .. Len(s) : s[i] \in T
  PROVE  s \in Seq(T)
<1>1. s \in [1 .. Len(s) -> T] /\ Len(s) \in Nat
  OBVIOUS
<1>2. QED BY <1>1

LEMMA Overwritten ==
  ASSUME NEW S, NEW N \in Nat, NEW buf \in [1 .. N -> S], NEW i \in Nat,
         NEW new \in Seq(S)
  PROVE  /\ Overwrite(buf, i, new) \in [1 .. N -> S]
         /\ \A j \in 1 .. N :
              Overwrite(buf, i, new)[j] =
                IF j \in i + 1 .. i + Len(new) THEN new[j - i] ELSE buf[j]
<1>1. ASSUME NEW j \in i + 1 .. i + Len(new) PROVE new[j - i] \in S
  <2>1. j - i \in 1 .. Len(new)
    OBVIOUS
  <2>2. QED BY <2>1
<1>2. QED BY <1>1 DEF Overwrite

LEMMA OverwrittenStart ==
  ASSUME NEW S, NEW N \in Nat, NEW buf \in [1 .. N -> S], NEW new \in Seq(S),
         Len(new) <= N
  PROVE  /\ Overwrite(buf, 0, new) \in [1 .. N -> S]
         /\ \A j \in 1 .. Len(new) : Overwrite(buf, 0, new)[j] = new[j]
<1>1. 0 \in Nat
  OBVIOUS
<1>2. /\ Overwrite(buf, 0, new) \in [1 .. N -> S]
      /\ \A j \in 1 .. N :
           Overwrite(buf, 0, new)[j] =
             IF j \in 0 + 1 .. 0 + Len(new) THEN new[j - 0] ELSE buf[j]
  BY <1>1, Overwritten
<1>3. \A j \in 1 .. Len(new) : j \in 1 .. N /\ j \in 0 + 1 .. 0 + Len(new) /\ j - 0 = j
  OBVIOUS
<1>4. QED BY <1>2, <1>3

\* The chunk that Fread reads.
LEMMA ChunkRead ==
  ASSUME XAudioAssumption, TypeOK, StageInv, pc = "fread"
  PROVE  /\ bufsz \in Nat \ {0} /\ pos \in Nat /\ len \in Nat
         /\ Smaller(pos + bufsz, len) \in pos .. len
         /\ Smaller(pos + bufsz, len) <= Junk
<1>1. bufsz \in Nat \ {0} /\ pos \in Nat /\ len \in Nat /\ pos <= len /\ len <= MaxLen
  BY DEF XAudioAssumption, TypeOK, StageInv
<1>2. MaxLen \in Nat /\ Junk \in Nat /\ MaxLen <= Junk
  BY DEF XAudioAssumption, Junk
<1>3. QED BY <1>1, <1>2 DEF Smaller

\* ... and what pcm_buffer has of it.
LEMMA ChunkDecoded ==
  ASSUME XAudioAssumption, TypeOK, StageInv, Fread, pc' = "write"
  PROVE  /\ pos' \in pos .. len
         /\ pcm_buffer' \in [1 .. PCM -> 0 .. Junk]
         /\ num_frames' \in Nat /\ num_frames' * channels <= PCM
         /\ \E f \in pos .. pos' : /\ f + num_frames' * channels <= pos'
                                   /\ Holds(pcm_buffer', f, num_frames' * channels)
         /\ codec = "G711" => /\ num_frames' = (pos' - pos) \div channels
                              /\ Holds(pcm_buffer', pos, num_frames' * channels)
<1> DEFINE to == Smaller(pos + bufsz, len)
<1>1. /\ pos' = to /\ pc = "fread" /\ (codec = "G711" => to - pos <= PCM)
      /\ \E d \in Decoded(pos, to) :
           /\ pcm_buffer' = Overwrite(pcm_buffer, 0, d)
           /\ num_frames' = Len(d) \div channels
  BY DEF Fread
<1>2. PICK d \in Decoded(pos, to) : /\ pcm_buffer' = Overwrite(pcm_buffer, 0, d)
                                    /\ num_frames' = Len(d) \div channels
  BY <1>1
<1>3. pos \in Nat /\ to \in pos .. len /\ to <= Junk
  BY <1>1, ChunkRead
<1> HIDE DEF to
<1>4. /\ channels \in 1 .. 2 /\ PCM \in Nat /\ Junk \in Nat
      /\ pcm_buffer \in [1 .. PCM -> 0 .. Junk] /\ to \in Nat /\ len \in Nat
  BY <1>3 DEF TypeOK, XAudioAssumption, Junk
<1>5. /\ d \in Seq(Nat) /\ Len(d) \in 0 .. PCM
      /\ \E f \in pos .. to : f + Len(d) <= to /\ Holds(d, f, Len(d))
      /\ codec = "G711" => Len(d) = to - pos /\ Holds(d, pos, Len(d))
  BY <1>1, <1>2, <1>3, <1>4, DecodedRun
<1>6. PICK f \in pos .. to : f + Len(d) <= to /\ Holds(d, f, Len(d))
  BY <1>5
<1>7. f \in Nat /\ to \in Nat /\ Len(d) \in Nat /\ channels \in Nat \ {0}
  BY <1>3, <1>4, <1>5, <1>6
<1>8. d \in Seq(0 .. Junk)
  <2>1. \A i \in 1 .. Len(d) : d[i] \in 0 .. Junk
    <3>1. ASSUME NEW i \in 1 .. Len(d) PROVE d[i] \in 0 .. Junk
      <4>1. d[i] = f + i - 1
        BY <1>6 DEF Holds
      <4>2. QED BY <1>3, <1>4, <1>6, <1>7, <4>1
    <3>2. QED BY <3>1
  <2>2. QED BY <1>5, <2>1, Elements
<1>9. /\ pcm_buffer' \in [1 .. PCM -> 0 .. Junk]
      /\ \A j \in 1 .. Len(d) : pcm_buffer'[j] = d[j]
  <2>1. PCM \in Nat /\ Len(d) <= PCM /\ pcm_buffer \in [1 .. PCM -> 0 .. Junk]
    BY <1>4, <1>5
  <2>2. /\ Overwrite(pcm_buffer, 0, d) \in [1 .. PCM -> 0 .. Junk]
        /\ \A j \in 1 .. Len(d) : Overwrite(pcm_buffer, 0, d)[j] = d[j]
    <3> DEFINE T == 0 .. Junk
    <3>1. d \in Seq(T) /\ pcm_buffer \in [1 .. PCM -> T]
      BY <1>8, <2>1
    <3> HIDE DEF T
    <3>2. /\ Overwrite(pcm_buffer, 0, d) \in [1 .. PCM -> T]
          /\ \A j \in 1 .. Len(d) : Overwrite(pcm_buffer, 0, d)[j] = d[j]
      BY <2>1, <3>1, OverwrittenStart
    <3>3. QED BY <3>2 DEF T
  <2>3. QED BY <1>2, <2>2
<1> DEFINE got == num_frames' * channels
<1>10. num_frames' \in Nat /\ got \in Nat /\ got <= Len(d)
  BY <1>2, <1>7, Quotient
<1>11. got <= PCM /\ f + got <= pos'
  <2> HIDE DEF got
  <2>1. QED BY <1>1, <1>4, <1>5, <1>6, <1>7, <1>10
<1>12. ASSUME NEW g \in Nat, Holds(d, g, Len(d))
       PROVE  Holds(pcm_buffer', g, got)
  <2> HIDE DEF got
  <2>1. \A i \in 1 .. got : i \in 1 .. Len(d)
    BY <1>7, <1>10
  <2>2. QED BY <1>9, <1>12, <2>1 DEF Holds
<1>13. codec = "G711" => /\ num_frames' = (pos' - pos) \div channels
                         /\ Holds(pcm_buffer', pos, got)
  BY <1>1, <1>2, <1>3, <1>5, <1>12
<1>14. pos' \in pos .. len /\ f \in pos .. pos' /\ Holds(pcm_buffer', f, got)
  BY <1>1, <1>3, <1>6, <1>7, <1>12
<1> HIDE DEF got
<1>15. /\ \E g \in pos .. pos' : g + got <= pos' /\ Holds(pcm_buffer', g, got)
  BY <1>11, <1>14
<1>16. QED BY <1>9, <1>10, <1>11, <1>13, <1>14, <1>15 DEF got

LEMMA Sizes ==
  ASSUME XAudioAssumption, TypeOK
  PROVE  /\ period_size \in Nat \ {0} /\ channels \in Nat \ {0} /\ channels \in 1 .. 2
         /\ PCM \in Nat /\ Junk \in Nat /\ CAPTURE \in Nat \ {0} /\ CAPTURE <= PCM
         /\ MaxLen \in Nat /\ MaxCaptured \in Nat /\ Junk = MaxLen + MaxCaptured
         /\ num_frames \in Nat /\ num_frames <= PCM /\ batch \in Nat
         /\ pos \in Nat /\ len \in Nat /\ len <= MaxLen
BY DEF XAudioAssumption, TypeOK, Junk

\* Whole periods of n frames.
LEMMA WholePeriods ==
  ASSUME XAudioAssumption, TypeOK, NEW n \in Nat
  PROVE  /\ n \div period_size \in Nat /\ n \div period_size <= n
         /\ (n \div period_size) * period_size <= n
         /\ n < (n \div period_size) * period_size + period_size
<1>1. period_size \in Nat \ {0}
  BY Sizes
<1> DEFINE q == n \div period_size
<1>2. q \in Nat /\ q * period_size <= n /\ n < q * period_size + period_size
  BY <1>1, Quotient
<1> HIDE DEF q
<1>3. q <= q * period_size
  BY <1>1, <1>2
<1>4. QED BY <1>1, <1>2, <1>3 DEF q

LEMMA Batches ==
  ASSUME XAudioAssumption, TypeOK
  PROVE  /\ num_batches \in Nat /\ num_batches <= PCM
         /\ CAPTURE \div period_size \in Nat /\ CAPTURE \div period_size <= PCM
<1>1. num_batches \in Nat /\ num_batches <= num_frames
  BY Sizes, WholePeriods DEF num_batches
<1>2. CAPTURE \div period_size \in Nat /\ CAPTURE \div period_size <= CAPTURE
  BY Sizes, WholePeriods
<1>3. QED BY <1>1, <1>2, Sizes

LEMMA OptionTypes ==
  ASSUME XAudioAssumption, TypeOK, StageInv, DecodedFits, Options
  PROVE  TypeOK' /\ StageInv' /\ DecodedFits'
<1>1. pc = "options" /\ pc' \in {"options", "start", "failed"}
  BY DEF Options, OptionsNext, SetMode, SetFormat, SetChannels, SetRateOrVerbose,
         SetDump, Exit, Fopen, Taken
<1>2. mode' \in {"Playback", "Capture"} /\ codec' \in {"AAC", "G711"} /\ channels' \in 1 .. 2
  BY DEF Options, OptionsNext, SetMode, SetFormat, SetChannels, SetRateOrVerbose,
         SetDump, Exit, Fopen, config, TypeOK
<1>3. ASSUME NEW a \in Path \union {Other}, NEW ws \in {<<Other>>, <<Other, a>>}, Taken(ws)
      PROVE  words' \in 0 .. 2 /\ second' \in Path \union {Input, Other, None}
  <2>1. words \in 0 .. 2 /\ second \in Path \union {Input, Other, None}
    BY DEF TypeOK
  <2>2. CASE ws = <<Other>>
    <3>1. Len(ws) = 1 /\ ws[1] = Other
      BY <2>2
    <3>2. QED BY <1>3, <2>1, <3>1 DEF Taken
  <2>3. CASE ws = <<Other, a>>
    <3>1. Len(ws) = 2 /\ ws[1] = Other /\ ws[2] = a
      BY <2>3
    <3>2. QED BY <1>3, <2>1, <2>3, <3>1 DEF Taken
  <2>4. QED BY <2>2, <2>3
<1>4. words' \in 0 .. 2 /\ second' \in Path \union {Input, Other, None}
  <2>1. CASE Exit \/ Fopen
    BY <2>1 DEF Exit, Fopen, TypeOK
  <2>2. CASE SetMode \/ SetFormat \/ SetChannels \/ SetRateOrVerbose \/ SetDump
    <3>1. \E a \in Path \union {Other} : \E ws \in {<<Other>>, <<Other, a>>} : Taken(ws)
      BY <2>2 DEF SetMode, SetFormat, SetChannels, SetRateOrVerbose, SetDump, AsWords
    <3>2. QED BY <1>3, <3>1
  <2>3. QED BY <2>1, <2>2 DEF Options, OptionsNext
<1>5. /\ dump_file' \in Path \union {Input, Other, None}
      /\ asked' \in Path \union {None}
  BY DEF Options, OptionsNext, SetMode, SetFormat, SetChannels, SetRateOrVerbose,
         SetDump, Exit, Fopen, TypeOK
<1>6. /\ len' \in 0 .. MaxLen /\ bufsz' \in Chunks \union {1}
      /\ pc' = "start" /\ mode = "Playback" => bufsz' \in Chunks
  BY DEF Options, TypeOK
<1>7. pc' = "start" => mode' = mode
  BY <1>1 DEF Options, OptionsNext, SetMode, SetFormat, SetChannels, SetRateOrVerbose,
         SetDump, Exit, Fopen, Taken, config
<1>8. UNCHANGED <<ready, dumping, stream>>
  BY DEF Options
<1>9. TypeOK'
  BY <1>1, <1>2, <1>4, <1>5, <1>6, <1>8 DEF TypeOK, stream
<1>10. StageInv'
  BY <1>1, <1>6, <1>7, <1>8 DEF StageInv, stream
<1>11. DecodedFits'
  <2>1. num_frames' = 0 /\ channels' \in Nat /\ PCM \in Nat
    BY <1>1, <1>2, <1>8, Sizes DEF StageInv, stream
  <2>2. PICK c \in Nat : c = channels'
    BY <2>1
  <2>3. num_frames' * c <= PCM
    <3>1. 0 * c <= PCM
      BY <2>1
    <3>2. QED BY <2>1, <3>1
  <2>4. num_frames' * channels' <= PCM
    BY <2>2, <2>3
  <2>5. QED BY <2>4 DEF DecodedFits
<1>12. QED BY <1>9, <1>10, <1>11

\* What the rest of main leaves alone.
LEMMA AfterOptions ==
  ASSUME \/ Open \/ OpenFails \/ Fread \/ FreadTooMuch \/ Write \/ WriteFails \/ Dump
         \/ Read \/ ReadFails \/ Encode \/ Close
  PROVE  config' = config /\ bufsz' = bufsz
BY DEF Open, OpenFails, Fread, FreadTooMuch, Write, WriteFails, Dump, Read, ReadFails,
       Encode, Close, setup

LEMMA TypeStep ==
  ASSUME XAudioAssumption, TypeOK, StageInv, DecodedFits, Next
  PROVE  TypeOK' /\ StageInv' /\ DecodedFits'
<1> USE DEF config, line, setup, stream
<1>1. CASE Options
  BY <1>1, OptionTypes
<1>2. CASE Open
  <2>1. ready' \in BOOLEAN /\ dumping' \in BOOLEAN
    BY <1>2 DEF Open, CodecReady, MayDump
  <2>2. len' \in 0 .. MaxLen /\ pos' = 0 /\ batch' = 0 /\ num_frames' = 0
    BY <1>2, Sizes DEF Open, StageInv
  <2>3. TypeOK'
    BY <1>2, <2>1, <2>2 DEF Open, TypeOK
  <2>4. period_size' \in Nat \ {0}
    BY <1>2 DEF Open, XAudioAssumption
  <2>5. 0 <= CAPTURE \div period_size'
    BY <2>4, Sizes, Quotient
  <2>6. pc' # "write" /\ pos' <= len'
    BY <1>2, <2>2, Sizes DEF Open
  <2>7. StageInv'
    <3>1. pc' \in {"fread", "read"} /\ mode' = mode /\ bufsz' = bufsz
      BY <1>2 DEF Open
    <3>2. /\ pc' = "fread" => mode = "Playback"
          /\ pc' = "read" => mode = "Capture"
      BY <1>2 DEF Open, TypeOK
    <3>3. mode = "Playback" => bufsz \in Chunks
      BY <1>2 DEF Open, StageInv
    <3>4. batch' <= CAPTURE \div period_size'
      BY <2>2, <2>5
    <3>5. QED BY <2>6, <3>1, <3>2, <3>3, <3>4 DEF StageInv
  <2>8. DecodedFits'
    BY <1>2 DEF Open, DecodedFits
  <2>9. QED BY <2>3, <2>7, <2>8
<1>3. CASE OpenFails \/ FreadTooMuch \/ Close
  BY <1>3 DEF OpenFails, FreadTooMuch, Close, TypeOK, StageInv, DecodedFits
<1>4. CASE Fread
  <2>1. pos' \in pos .. len /\ pos' <= Junk
    BY <1>4, ChunkRead DEF Fread
  <2>2. CASE pc' = "close"
    <3>1. pos' \in 0 .. Junk /\ pos' <= len /\ batch' \in 0 .. PCM
      BY <1>4, <2>1, Sizes DEF Fread
    <3>2. /\ UNCHANGED <<setup, period_size, pcm_buffer, num_frames, out, dumped, xrun>>
          /\ last_chunk' \in BOOLEAN /\ pc = "fread"
      BY <1>4, <2>2 DEF Fread
    <3>3. QED BY <2>2, <3>1, <3>2 DEF TypeOK, StageInv, DecodedFits
  <2>3. CASE pc' = "write"
    <3>1. /\ pcm_buffer' \in [1 .. PCM -> 0 .. Junk]
          /\ num_frames' \in Nat /\ num_frames' * channels <= PCM
      BY <1>4, <2>3, ChunkDecoded
    <3>2. num_frames' \in 0 .. PCM
      BY <3>1, Sizes
    <3>3. pos' \in 0 .. Junk /\ pos' <= len
      BY <2>1, Sizes
    <3>4. TypeOK'
      BY <1>4, <2>3, <3>1, <3>2, <3>3, Sizes DEF Fread, TypeOK
    <3>5. num_batches' \in Nat
      BY <1>4, <3>1, Sizes, WholePeriods DEF Fread, num_batches
    <3>6. StageInv'
      BY <1>4, <2>3, <3>3, <3>5 DEF Fread, StageInv
    <3>7. DecodedFits'
      BY <1>4, <3>1 DEF Fread, DecodedFits
    <3>8. QED BY <3>4, <3>6, <3>7
  <2>4. QED BY <1>4, <2>2, <2>3 DEF Fread
<1>5. CASE Write \/ WriteFails
  <2>1. /\ UNCHANGED <<pc, setup, pos, period_size, pcm_buffer, num_frames, last_chunk>>
        /\ pc = "write" /\ batch < num_batches /\ batch' = batch + 1
        /\ xrun' \in {TRUE, xrun}
    BY <1>5 DEF Write, WriteFails
  <2>2. batch' \in 0 .. PCM /\ batch' <= num_batches
    <3>1. num_batches \in Nat /\ num_batches <= PCM /\ PCM \in Nat /\ batch \in Nat
      BY Sizes, Batches
    <3>2. QED BY <2>1, <3>1
  <2>3. QED BY <2>1, <2>2 DEF TypeOK, StageInv, DecodedFits, num_batches
<1>6. CASE Dump
  BY <1>6 DEF Dump, TypeOK, StageInv, DecodedFits
<1>7. CASE Read \/ ReadFails
  <2>1. /\ UNCHANGED <<pc, setup, period_size, num_frames, last_chunk>>
        /\ pc = "read" /\ batch < CAPTURE \div period_size /\ batch' = batch + 1
        /\ xrun' \in {TRUE, xrun}
    BY <1>7 DEF Read, ReadFails
  <2>2. batch' \in 0 .. PCM /\ batch' <= CAPTURE \div period_size
    <3> DEFINE q == CAPTURE \div period_size
    <3>1. q \in Nat /\ q <= PCM /\ PCM \in Nat /\ batch \in Nat
      BY Sizes, Batches
    <3>2. batch < q /\ batch' = batch + 1
      BY <2>1
    <3> HIDE DEF q
    <3>3. batch' \in 0 .. PCM /\ batch' <= q
      BY <3>1, <3>2
    <3>4. QED BY <3>3 DEF q
  <2>3. pcm_buffer' \in [1 .. PCM -> 0 .. Junk] /\ pos' \in 0 .. Junk
    <3>1. CASE Read
      <4> DEFINE new == Samples(pos, pos + period_size)
                 T == 0 .. Junk
                 o == batch * period_size
      <4>1. /\ pcm_buffer' = Overwrite(pcm_buffer, o, new)
            /\ pos' = pos + period_size /\ pos' <= MaxCaptured
        BY <3>1 DEF Read
      <4>2. pos' \in 0 .. Junk /\ pos + period_size <= Junk
        <5>1. pos + period_size <= MaxCaptured /\ pos + period_size \in Nat
          BY <4>1, Sizes
        <5>2. QED BY <4>1, <5>1, Sizes
      <4>3. new \in Seq(T)
        <5>1. /\ new \in Seq(Nat) /\ Len(new) = period_size
              /\ Holds(new, pos, Len(new))
          <6>1. pos \in Nat /\ pos + period_size \in Int /\ pos <= pos + period_size
                /\ (pos + period_size) - pos = period_size
            BY Sizes
          <6>2. QED BY <6>1, SamplesHold
        <5> HIDE DEF new
        <5>2. ASSUME NEW i \in 1 .. Len(new) PROVE new[i] \in T
          <6>1. new[i] = pos + i - 1
            BY <5>1 DEF Holds
          <6>2. /\ pos \in Nat /\ period_size \in Nat /\ Junk \in Nat
                /\ i \in 1 .. period_size
            BY <5>1, Sizes
          <6>3. QED BY <4>2, <6>1, <6>2
        <5> HIDE DEF T
        <5>3. QED BY <5>1, <5>2, Elements
      <4>4. o \in Nat /\ PCM \in Nat /\ pcm_buffer \in [1 .. PCM -> T]
        BY Sizes DEF TypeOK
      <4> HIDE DEF new, T, o
      <4>5. pcm_buffer' \in [1 .. PCM -> T]
        BY <4>1, <4>3, <4>4, Overwritten
      <4>6. QED BY <4>2, <4>5 DEF T
    <3>2. CASE ReadFails
      BY <3>2 DEF ReadFails, TypeOK
    <3>3. QED BY <1>7, <3>1, <3>2
  <2>4. QED BY <2>1, <2>2, <2>3, Sizes DEF TypeOK, StageInv, DecodedFits
<1>8. CASE Encode
  BY <1>8, Sizes DEF Encode, TypeOK, StageInv, DecodedFits
<1>9. QED BY <1>1, <1>2, <1>3, <1>4, <1>5, <1>6, <1>7, <1>8 DEF Next

LEMMA TypeInit ==
  ASSUME XAudioAssumption, Init
  PROVE  TypeOK /\ StageInv /\ DecodedFits
<1>1. PCM \in Nat /\ MaxLen \in Nat /\ MaxCaptured \in Nat /\ Junk \in 0 .. Junk
  BY DEF XAudioAssumption, Junk
<1>2. Uninitialized \in [1 .. PCM -> 0 .. Junk]
  BY <1>1 DEF Uninitialized
<1>3. QED BY <1>1, <1>2 DEF Init, OptionsInit, TypeOK, StageInv, DecodedFits, Junk

LEMMA StagesAlways == Spec => [](TypeOK /\ StageInv /\ DecodedFits)
<1>1. Init => TypeOK /\ StageInv /\ DecodedFits
  BY XAudioAssumption, TypeInit
<1>2. TypeOK /\ StageInv /\ DecodedFits /\ [Next]_vars => (TypeOK /\ StageInv /\ DecodedFits)'
  <2>1. ASSUME TypeOK, StageInv, DecodedFits, UNCHANGED vars
        PROVE  TypeOK' /\ StageInv' /\ DecodedFits'
    BY <2>1 DEF vars, config, line, setup, stream, TypeOK, StageInv, DecodedFits, num_batches
  <2>2. QED BY <2>1, XAudioAssumption, TypeStep
<1>3. QED BY <1>1, <1>2, PTL DEF Spec

\* Stages, counters and buffers stay in their domains, for whatever sizes
\* (main of xaudio/main.cpp, xaudio_playback and xaudio_capture).
THEOREM TypeCorrect == Spec => []TypeOK
BY StagesAlways, PTL

\* What is decoded always fits pcm_buffer (AACCodec::decode, which tests the
\* fill level after it has written a frame).
THEOREM DecodedAlwaysFits == Spec => []DecodedFits
BY StagesAlways, PTL
-----------------------------------------------------------------------------
(* Playback keeps the order.                                               *)

Below(s, b) == \A i \in 1 .. Len(s) : s[i] < b

\* Samples that follow everything in s.
LEMMA Continued ==
  ASSUME NEW s \in Seq(Nat), NEW t \in Seq(Nat), NEW b \in Nat,
         Increasing(s), Below(s, b), Holds(t, b, Len(t))
  PROVE  /\ s \o t \in Seq(Nat) /\ Len(s \o t) = Len(s) + Len(t)
         /\ Increasing(s \o t) /\ Below(s \o t, b + Len(t))
<1> DEFINE u == s \o t
<1>1. /\ u \in Seq(Nat) /\ Len(u) = Len(s) + Len(t) /\ Len(s) \in Nat /\ Len(t) \in Nat
      /\ \A i \in 1 .. Len(u) : u[i] = IF i <= Len(s) THEN s[i] ELSE t[i - Len(s)]
  OBVIOUS
<1> HIDE DEF u
<1>2. \A i \in 1 .. Len(u) : i <= Len(s) => u[i] = s[i] /\ s[i] \in Nat /\ s[i] < b
  BY <1>1 DEF Below
<1>3. ASSUME NEW i \in 1 .. Len(u), i > Len(s) PROVE u[i] = b + (i - Len(s)) - 1
  <2>1. u[i] = t[i - Len(s)] /\ i - Len(s) \in 1 .. Len(t)
    BY <1>1, <1>3
  <2>2. QED BY <2>1 DEF Holds
<1>4. Below(u, b + Len(t))
  <2>1. ASSUME NEW i \in 1 .. Len(u) PROVE u[i] < b + Len(t)
    <3>1. i <= Len(s) => u[i] \in Nat /\ u[i] < b
      BY <1>2
    <3>2. i > Len(s) => u[i] = b + (i - Len(s)) - 1
      BY <1>3
    <3>3. QED BY <1>1, <3>1, <3>2
  <2>2. QED BY <2>1 DEF Below
<1>5. ASSUME NEW i \in 1 .. Len(u) - 1 PROVE u[i] < u[i + 1]
  <2>1. i \in 1 .. Len(u) /\ i + 1 \in 1 .. Len(u) /\ i \in Nat
    BY <1>1
  <2>2. CASE i + 1 <= Len(s)
    <3>1. u[i] = s[i] /\ u[i + 1] = s[i + 1] /\ i \in 1 .. Len(s) - 1
      BY <1>1, <1>2, <2>1, <2>2
    <3>2. QED BY <3>1 DEF Increasing
  <2>3. CASE i = Len(s)
    <3>1. u[i] < b /\ u[i] \in Nat
      BY <1>2, <2>1, <2>3
    <3>2. u[i + 1] = b + ((i + 1) - Len(s)) - 1
      <4>1. i + 1 > Len(s)
        BY <2>3, <1>1
      <4>2. QED BY <1>3, <2>1, <4>1
    <3>3. QED BY <2>3, <3>1, <3>2
  <2>4. CASE i > Len(s)
    <3>1. /\ u[i] = b + (i - Len(s)) - 1
          /\ u[i + 1] = b + ((i + 1) - Len(s)) - 1
      BY <1>1, <1>3, <2>1, <2>4
    <3>2. QED BY <1>1, <2>1, <3>1
  <2>5. QED BY <1>1, <2>1, <2>2, <2>3, <2>4
<1>6. Increasing(u)
  BY <1>5 DEF Increasing
<1>7. QED BY <1>1, <1>4, <1>6 DEF u

LEMMA BatchProducts ==
  ASSUME NEW b \in Nat, NEW n \in Nat, NEW p \in Nat, NEW c \in Nat, NEW f \in Nat,
         b <= n, n * p <= f
  PROVE  /\ b * p * c \in Nat /\ p * c \in Nat /\ f * c \in Nat
         /\ b * p * c <= f * c
         /\ (b + 1) * p * c = b * p * c + p * c
         /\ b < n => b * p * c + p * c <= f * c
<1>1. b * p * c \in Nat /\ p * c \in Nat /\ f * c \in Nat
  OBVIOUS
<1>2. (b + 1) * p = b * p + p /\ (b + 1) * p * c = b * p * c + p * c
  OBVIOUS
<1>3. b * p <= n * p
  BY ProductsGrow
<1>4. b * p * c <= f * c
  <2>1. b * p \in Nat /\ b * p <= f
    BY <1>3
  <2>2. QED BY <2>1, ProductsGrow
<1>5. ASSUME b < n PROVE b * p * c + p * c <= f * c
  <2>1. b + 1 \in Nat /\ b + 1 <= n
    BY <1>5
  <2>2. (b + 1) * p <= n * p
    BY <2>1, ProductsGrow
  <2>3. (b + 1) * p \in Nat /\ (b + 1) * p <= f
    BY <2>1, <2>2
  <2>4. (b + 1) * p * c <= f * c
    BY <2>3, ProductsGrow
  <2>5. QED BY <1>2, <2>4
<1>6. QED BY <1>1, <1>2, <1>4, <1>5

\* Where the batches of a chunk are.
LEMMA BatchPlaces ==
  ASSUME XAudioAssumption, TypeOK, StageInv, DecodedFits, pc = "write"
  PROVE  /\ batch * period_size * channels \in Nat /\ period_size * channels \in Nat
         /\ num_frames * channels \in Nat /\ num_frames * channels <= PCM
         /\ batch * period_size * channels <= num_frames * channels
         /\ (batch + 1) * period_size * channels
              = batch * period_size * channels + period_size * channels
         /\ batch < num_batches =>
              batch * period_size * channels + period_size * channels
                <= num_frames * channels
<1>1. /\ period_size \in Nat /\ channels \in Nat /\ num_frames \in Nat /\ batch \in Nat
      /\ num_batches \in Nat /\ batch <= num_batches
  BY Sizes, Batches DEF StageInv
<1>2. num_batches * period_size <= num_frames
  BY <1>1, WholePeriods DEF num_batches
<1>3. num_frames * channels <= PCM
  BY DEF DecodedFits
<1>4. QED BY <1>1, <1>2, <1>3, BatchProducts

\* The batch of a buffer that holds the samples from f on.
LEMMA BatchHolds ==
  ASSUME XAudioAssumption, TypeOK, StageInv, DecodedFits, pc = "write",
         batch < num_batches, NEW f \in Nat,
         Holds(pcm_buffer, f, num_frames * channels)
  PROVE  /\ Batch(batch) \in Seq(Nat) /\ Len(Batch(batch)) = period_size * channels
         /\ Holds(Batch(batch), f + batch * period_size * channels, period_size * channels)
<1> DEFINE o == batch * period_size * channels
           k == period_size * channels
           n == num_frames * channels
<1>1. /\ o \in Nat /\ k \in Nat /\ n \in Nat /\ n <= PCM /\ o + k <= n
      /\ (batch + 1) * period_size * channels = o + k
  BY BatchPlaces
<1>2. Batch(batch) = SubSeq(pcm_buffer, o + 1, o + k)
  BY <1>1 DEF Batch
<1>3. Holds(pcm_buffer, f, n)
  OBVIOUS
<1> HIDE DEF o, k, n
<1>4. PCM \in Nat /\ o + k <= PCM
  BY <1>1, Sizes
<1> DEFINE T == 0 .. Junk
<1>5. pcm_buffer \in [1 .. PCM -> T]
  BY DEF TypeOK
<1> HIDE DEF T
<1>6. /\ Batch(batch) \in Seq(T) /\ Len(Batch(batch)) = k
      /\ \A i \in 1 .. k : Batch(batch)[i] = pcm_buffer[o + i]
  BY <1>1, <1>2, <1>4, <1>5, Slice
<1>7. Batch(batch) \in Seq(Nat)
  <2>1. \A i \in 1 .. Len(Batch(batch)) : Batch(batch)[i] \in T
    BY <1>6
  <2>2. \A i \in 1 .. Len(Batch(batch)) : Batch(batch)[i] \in Nat
    BY <2>1 DEF T
  <2>3. QED BY <1>6, <2>2, Elements
<1>8. ASSUME NEW i \in 1 .. k PROVE Batch(batch)[i] = (f + o) + i - 1
  <2>1. o + i \in 1 .. n
    BY <1>1
  <2>2. pcm_buffer[o + i] = f + (o + i) - 1
    BY <1>3, <2>1 DEF Holds
  <2>3. QED BY <1>1, <1>6, <2>2
<1>9. Holds(Batch(batch), f + o, k)
  BY <1>8 DEF Holds
<1>10. QED BY <1>6, <1>7, <1>9 DEF o, k

\* The chunk in pcm_buffer starts at f, and what was played is what comes
\* before its next batch.
Playing(f) ==
  /\ f + num_frames * channels <= pos
  /\ Holds(pcm_buffer, f, num_frames * channels)
  /\ Below(out, f + batch * period_size * channels)

PlayInv ==
  mode = "Playback" =>
    /\ out \in Seq(Nat) /\ Increasing(out)
    /\ pc # "write" => Below(out, pos)
    /\ pc = "write" => \E f \in Nat : Playing(f)

LEMMA NothingPlayed ==
  ASSUME NEW s, NEW b, s = <<>>
  PROVE  s \in Seq(Nat) /\ Increasing(s) /\ Below(s, b)
<1>1. <<>> \in Seq(Nat) /\ Len(<<>>) = 0 /\ 1 .. 0 = {} /\ 1 .. 0 - 1 = {}
  OBVIOUS
<1>2. QED BY <1>1 DEF Increasing, Below

LEMMA PlayStep ==
  ASSUME XAudioAssumption, TypeOK, StageInv, DecodedFits, PlayInv, Next
  PROVE  PlayInv'
<1> USE DEF config, line, setup, stream
<1>1. CASE Options \/ Open
  <2>1. out' = <<>> /\ pc' # "write"
    BY <1>1 DEF Options, OptionsNext, SetMode, SetFormat, SetChannels, SetRateOrVerbose,
                SetDump, Exit, Fopen, Taken, Open, StageInv
  <2>2. out' \in Seq(Nat) /\ Increasing(out') /\ Below(out', pos')
    BY <2>1, NothingPlayed
  <2>3. QED BY <2>1, <2>2 DEF PlayInv
<1>2. CASE OpenFails \/ FreadTooMuch \/ Close
  BY <1>2 DEF OpenFails, FreadTooMuch, Close, PlayInv
<1>3. CASE Fread
  <2>1. /\ pc = "fread" /\ out' = out /\ mode' = mode /\ mode = "Playback"
        /\ channels' = channels /\ period_size' = period_size /\ batch' = 0
        /\ pc' \in {"write", "close"}
    BY <1>3 DEF Fread, StageInv
  <2>2. out \in Seq(Nat) /\ Increasing(out) /\ Below(out, pos)
    BY <2>1 DEF PlayInv
  <2>3. ASSUME NEW b \in Nat, pos <= b PROVE Below(out, b)
    <3>1. \A i \in 1 .. Len(out) : out[i] \in Nat /\ out[i] < pos
      BY <2>2 DEF Below
    <3>2. QED BY <2>3, <3>1, Sizes DEF Below
  <2>4. pos' \in Nat /\ pos <= pos'
    BY <1>3, ChunkRead DEF Fread
  <2>5. CASE pc' = "close"
    <3>1. Below(out, pos')
      BY <2>3, <2>4
    <3>2. QED BY <2>1, <2>2, <2>5, <3>1 DEF PlayInv
  <2>6. CASE pc' = "write"
    <3>1. PICK f \in pos .. pos' : /\ f + num_frames' * channels <= pos'
                                   /\ Holds(pcm_buffer', f, num_frames' * channels)
      BY <1>3, <2>6, ChunkDecoded
    <3>2. f \in Nat /\ pos <= f
      BY <2>4, <3>1, Sizes
    <3>3. batch' * period_size' * channels' = 0
      <4>1. 0 * period_size * channels = 0
        BY Sizes
      <4>2. QED BY <2>1, <4>1
    <3>4. Below(out, f + 0)
      BY <2>3, <3>2
    <3>5. Playing(f)'
      BY <2>1, <3>1, <3>3, <3>4 DEF Playing
    <3>6. QED BY <2>1, <2>2, <2>6, <3>2, <3>5 DEF PlayInv
  <2>7. QED BY <2>1, <2>5, <2>6
<1>4. CASE Write \/ WriteFails \/ Dump
  <2>1. pc = "write" /\ mode = "Playback" /\ mode' = mode /\ channels' = channels
        /\ UNCHANGED <<period_size, pcm_buffer, num_frames, pos>>
    BY <1>4 DEF Write, WriteFails, Dump, StageInv
  <2>2. PICK f \in Nat : Playing(f)
    BY <2>1 DEF PlayInv
  <2> DEFINE o == batch * period_size * channels
             k == period_size * channels
             n == num_frames * channels
  <2>3. /\ o \in Nat /\ k \in Nat /\ n \in Nat /\ o <= n
        /\ (batch + 1) * period_size * channels = o + k
    BY <2>1, BatchPlaces
  <2>4. f + n <= pos /\ Holds(pcm_buffer, f, n) /\ Below(out, f + o)
    BY <2>2 DEF Playing
  <2>5. out \in Seq(Nat) /\ Increasing(out)
    BY <2>1 DEF PlayInv
  <2>6. CASE Write
    <3> DEFINE new == Batch(batch)
    <3>1. out' = out \o new /\ batch' = batch + 1 /\ pc' = "write" /\ batch < num_batches
      BY <2>6 DEF Write
    <3>2. new \in Seq(Nat) /\ Len(new) = k /\ Holds(new, f + o, Len(new))
      BY <2>1, <2>4, <3>1, BatchHolds
    <3>3. (batch' * period_size' * channels') = o + k
      BY <2>1, <2>3, <3>1
    <3> HIDE DEF new, o, k, n
    <3>4. f + o \in Nat
      BY <2>3
    <3>5. out' \in Seq(Nat) /\ Increasing(out') /\ Below(out', (f + o) + k)
      BY <2>4, <2>5, <3>1, <3>2, <3>4, Continued
    <3>6. (f + o) + k = f + (o + k)
      BY <2>3
    <3>7. Playing(f)'
      BY <2>1, <2>4, <3>3, <3>5, <3>6 DEF Playing, n
    <3>8. QED BY <2>1, <3>1, <3>5, <3>7 DEF PlayInv
  <2>7. ASSUME NEW b \in Nat, f + o <= b PROVE Below(out, b)
    <3> HIDE DEF o
    <3>1. \A i \in 1 .. Len(out) : out[i] \in Nat /\ out[i] < f + o
      BY <2>4, <2>5 DEF Below
    <3>2. QED BY <2>3, <2>7, <3>1 DEF Below
  <2>8. CASE WriteFails
    <3>1. out' = out /\ batch' = batch + 1 /\ pc' = "write"
      BY <2>8 DEF WriteFails
    <3>2. (batch' * period_size' * channels') = o + k
      BY <2>1, <2>3, <3>1
    <3> HIDE DEF o, k, n
    <3>3. f + (o + k) \in Nat /\ f + o <= f + (o + k)
      BY <2>3
    <3>4. Below(out, f + (o + k))
      BY <2>7, <3>3
    <3>5. Playing(f)'
      BY <2>1, <2>4, <3>1, <3>2, <3>4 DEF Playing, n
    <3>6. QED BY <2>1, <2>5, <3>1, <3>5 DEF PlayInv
  <2>9. CASE Dump
    <3>1. out' = out /\ pc' # "write"
      BY <2>9 DEF Dump
    <3> HIDE DEF o, k, n
    <3>2. f + o <= pos /\ pos \in Nat
      BY <2>3, <2>4, Sizes
    <3>3. Below(out, pos)
      BY <2>7, <3>2
    <3>4. QED BY <2>1, <2>5, <3>1, <3>3 DEF PlayInv
  <2>10. QED BY <1>4, <2>6, <2>8, <2>9
<1>5. CASE Read \/ ReadFails \/ Encode
  <2>1. mode' = "Capture"
    BY <1>5 DEF Read, ReadFails, Encode, StageInv
  <2>2. QED BY <2>1 DEF PlayInv
<1>6. QED BY <1>1, <1>2, <1>3, <1>4, <1>5 DEF Next

\* No sample is played twice or out of order, whatever transfers fail
\* (AlsaDevice::write and the loop of main).
THEOREM PlaybackKeepsOrder == Spec => []PlayedInOrder
<1>1. Init => PlayInv
  <2>1. ASSUME Init PROVE out \in Seq(Nat) /\ Increasing(out) /\ Below(out, pos)
    BY <2>1, NothingPlayed DEF Init
  <2>2. QED BY <2>1 DEF PlayInv, Init, OptionsInit
<1>2. TypeOK /\ StageInv /\ DecodedFits /\ PlayInv /\ [Next]_vars => PlayInv'
  <2>1. ASSUME PlayInv, UNCHANGED vars PROVE PlayInv'
    BY <2>1 DEF vars, config, line, setup, stream, PlayInv, Playing
  <2>2. QED BY <2>1, XAudioAssumption, PlayStep
<1>3. PlayInv => PlayedInOrder
  BY DEF PlayInv, PlayedInOrder
<1>4. QED BY <1>1, <1>2, <1>3, StagesAlways, PTL DEF Spec
-----------------------------------------------------------------------------
(* What G711 playback loses, and what it dumps.                            *)

Heard(n) == \E i \in DOMAIN out : out[i] = n

\* n is heard, unless it is in the last period of its chunk.
Kept(n) ==
  LET end == Smaller((n \div bufsz + 1) * bufsz, len)
  IN  end - n >= period_size * channels => Heard(n)

\* The chunk in pcm_buffer starts at f: it is a chunk of the file, what came
\* before it is dealt with, and of it the batches so far are heard.
G711Chunk(f) ==
  /\ f <= pos /\ \E q \in Nat : f = q * bufsz
  /\ pos = Smaller(f + bufsz, len) /\ (last_chunk <=> pos - f < bufsz)
  /\ num_frames = (pos - f) \div channels
  /\ Holds(pcm_buffer, f, num_frames * channels)
  /\ dumping => dumped = Samples(0, f)
  /\ ~xrun => /\ \A n \in 0 .. f - 1 : Kept(n)
              /\ \A n \in f .. f + batch * period_size * channels - 1 : Heard(n)

G711Inv ==
  mode = "Playback" /\ codec = "G711" =>
    /\ out \in Seq(Nat)
    /\ pc = "fread" => \E q \in Nat : pos = q * bufsz
    /\ pc \in {"fread", "close"} =>
         /\ dumping => dumped = Samples(0, (pos \div channels) * channels)
         /\ ~xrun => \A n \in 0 .. pos - 1 : Kept(n)
    /\ pc = "write" => \E f \in Nat : G711Chunk(f)

\* A chunk of z samples is shorter than its whole periods and one more.
LEMMA TailBound ==
  ASSUME NEW z \in Nat, NEW c \in Nat \ {0}, NEW p \in Nat \ {0}
  PROVE  z < ((z \div c) \div p) * p * c + p * c
<1> DEFINE m == z \div c
           b == m \div p
<1>1. m \in Nat /\ z < m * c + c
  BY Quotient
<1> HIDE DEF m
<1>2. b \in Nat /\ m < b * p + p
  BY <1>1, Quotient
<1> HIDE DEF b
<1>3. b * p + p \in Nat /\ m + 1 \in Nat /\ m + 1 <= b * p + p
  BY <1>1, <1>2
<1>4. (m + 1) * c <= (b * p + p) * c
  BY <1>3, ProductsGrow
<1>5. (m + 1) * c = m * c + c /\ (b * p + p) * c = b * p * c + p * c
  BY <1>1, <1>2
<1>6. m * c \in Nat /\ b * p * c \in Nat /\ p * c \in Nat
  BY <1>1, <1>2
<1>7. z < b * p * c + p * c
  BY <1>1, <1>4, <1>5, <1>6
<1>8. QED BY <1>7 DEF b, m

\* What precedes whole chunks consists of whole frames.
LEMMA FramesUpTo ==
  ASSUME NEW f \in Nat, NEW c \in 1 .. 2, NEW q \in Nat, NEW b \in Nat,
         f = q * b, b % 2 = 0
  PROVE  /\ \A z \in Nat : ((f + z) \div c) * c = f + (z \div c) * c
         /\ (f \div c) * c = f
<1> DEFINE h == b \div 2
<1>1. h \in Nat /\ b = 2 * h
  OBVIOUS
<1> HIDE DEF h
<1>2. f = 2 * (q * h) /\ q * h \in Nat
  BY <1>1
<1> DEFINE w == q * h
<1>3. w \in Nat /\ f = 2 * w
  BY <1>2
<1> HIDE DEF w
<1>4. CASE c = 1
  BY <1>4
<1>5. CASE c = 2
  BY <1>3, <1>5
<1>6. QED BY <1>4, <1>5

LEMMA SameSequence ==
  ASSUME NEW S, NEW s \in Seq(S), NEW t \in Seq(S), Len(s) = Len(t),
         \A i \in 1 .. Len(s) : s[i] = t[i]
  PROVE  s = t
OBVIOUS

\* A run of samples from 0 on, continued.
LEMMA SamplesContinued ==
  ASSUME NEW f \in Nat, NEW n \in Nat, NEW t \in Seq(Nat), Len(t) = n, Holds(t, f, n)
  PROVE  Samples(0, f) \o t = Samples(0, f + n)
<1> DEFINE s == Samples(0, f)
           u == Samples(0, f + n)
<1>1. /\ s \in Seq(Nat) /\ Len(s) = f /\ Holds(s, 0, f)
      /\ u \in Seq(Nat) /\ Len(u) = f + n /\ Holds(u, 0, f + n)
  <2>1. /\ 0 \in Nat /\ f \in Int /\ f + n \in Int /\ 0 <= f /\ 0 <= f + n
        /\ f - 0 = f /\ (f + n) - 0 = f + n
    OBVIOUS
  <2>2. QED BY <2>1, SamplesHold
<1> HIDE DEF s, u
<1> DEFINE v == s \o t
<1>2. /\ v \in Seq(Nat) /\ Len(v) = f + n
      /\ \A i \in 1 .. f + n : v[i] = IF i <= f THEN s[i] ELSE t[i - f]
  <2>1. /\ v \in Seq(Nat) /\ Len(v) = Len(s) + Len(t)
        /\ \A i \in 1 .. Len(v) : v[i] = IF i <= Len(s) THEN s[i] ELSE t[i - Len(s)]
    BY <1>1
  <2> HIDE DEF v
  <2>2. QED BY <1>1, <2>1
<1> HIDE DEF v
<1>3. ASSUME NEW i \in 1 .. f + n PROVE v[i] = u[i]
  <2>1. u[i] = 0 + i - 1
    BY <1>1 DEF Holds
  <2>2. CASE i <= f
    <3>1. s[i] = 0 + i - 1 /\ v[i] = s[i]
      BY <1>1, <1>2, <2>2 DEF Holds
    <3>2. QED BY <2>1, <3>1
  <2>3. CASE i > f
    <3>1. i - f \in 1 .. n /\ v[i] = t[i - f]
      BY <1>2, <2>3
    <3>2. t[i - f] = f + (i - f) - 1
      BY <3>1 DEF Holds
    <3>3. QED BY <2>1, <3>1, <3>2
  <2>4. QED BY <2>2, <2>3
<1>4. v = u
  BY <1>1, <1>2, <1>3, SameSequence
<1>5. QED BY <1>4 DEF v, s, u

\* Reading a chunk: what Fread does to the invariant.
LEMMA G711Fread ==
  ASSUME XAudioAssumption, TypeOK, StageInv, DecodedFits, G711Inv, Fread
  PROVE  G711Inv'
<1> USE DEF config, setup
<1> SUFFICES ASSUME mode' = "Playback", codec' = "G711" PROVE G711Inv'
  BY DEF G711Inv
<1>1. /\ pc = "fread" /\ mode = "Playback" /\ codec = "G711"
      /\ UNCHANGED <<setup, period_size, out, dumped, xrun>> /\ batch' = 0
      /\ pos' = Smaller(pos + bufsz, len) /\ last_chunk' = (pos' - pos < bufsz)
      /\ pc' \in {"write", "close"} /\ (pc' = "close" => pos' = pos)
  BY DEF Fread
<1>2. PICK q \in Nat : pos = q * bufsz
  BY <1>1 DEF G711Inv
<1>3. /\ out \in Seq(Nat)
      /\ dumping => dumped = Samples(0, (pos \div channels) * channels)
      /\ ~xrun => \A n \in 0 .. pos - 1 : Kept(n)
  BY <1>1 DEF G711Inv
<1>4. pos \in Nat /\ pos' \in pos .. len /\ pos' \in Nat
  BY <1>1, ChunkRead, Sizes
<1>5. \A n : Kept(n)' <=> Kept(n)
  BY <1>1 DEF Kept, Heard
<1>6. CASE pc' = "close"
  BY <1>1, <1>3, <1>5, <1>6 DEF G711Inv
<1>7. CASE pc' = "write"
  <2>1. /\ num_frames' = (pos' - pos) \div channels
        /\ Holds(pcm_buffer', pos, num_frames' * channels)
    BY <1>1, <1>7, ChunkDecoded
  <2>2. (pos \div channels) * channels = pos
    <3>1. bufsz \in Nat /\ bufsz % 2 = 0
      BY <1>1 DEF StageInv, XAudioAssumption
    <3>2. QED BY <1>2, <1>4, <3>1, Sizes, FramesUpTo
  <2>3. pos + batch' * period_size' * channels' - 1 < pos
    <3>1. 0 * period_size * channels = 0
      BY Sizes
    <3>2. QED BY <1>1, <1>4, <3>1
  <2>4. \A n \in pos .. pos + batch' * period_size' * channels' - 1 : Heard(n)'
    <3> DEFINE e == pos + batch' * period_size' * channels' - 1
    <3>1. e \in Int
      <4>1. 0 * period_size * channels = 0
        BY Sizes
      <4>2. QED BY <1>1, <1>4, <4>1
    <3> HIDE DEF e
    <3>2. e < pos
      BY <2>3 DEF e
    <3>3. pos .. e = {}
      BY <1>4, <3>1, <3>2
    <3>4. QED BY <3>3 DEF e
  <2>5. PICK p \in Nat : p = pos
    BY <1>4
  <2>6. G711Chunk(p)'
    <3>1. (p <= pos /\ \E k \in Nat : p = k * bufsz)'
      BY <1>1, <1>2, <1>4, <2>5
    <3>2. /\ (pos = Smaller(p + bufsz, len) /\ (last_chunk <=> pos - p < bufsz))'
          /\ (num_frames = (pos - p) \div channels)'
          /\ Holds(pcm_buffer, p, num_frames * channels)'
      BY <1>1, <2>1, <2>5 DEF Smaller
    <3>3. (dumping => dumped = Samples(0, p))'
      BY <1>1, <1>3, <2>2, <2>5
    <3>4. (~xrun)' => \A n \in 0 .. p - 1 : Kept(n)'
      BY <1>1, <1>3, <1>5, <2>5
    <3>5. \A n \in (p .. p + batch * period_size * channels - 1)' : Heard(n)'
      BY <2>4, <2>5
    <3>6. QED BY <3>1, <3>2, <3>3, <3>4, <3>5 DEF G711Chunk
  <2>7. QED BY <1>1, <1>3, <1>7, <2>6 DEF G711Inv
<1>8. QED BY <1>1, <1>6, <1>7

\* Hearing more.
LEMMA HeardOn ==
  ASSUME out \in Seq(Nat), NEW new \in Seq(Nat), out' = out \o new,
         NEW b \in Nat, Holds(new, b, Len(new))
  PROVE  /\ out' \in Seq(Nat)
         /\ \A n : Heard(n) => Heard(n)'
         /\ \A n \in b .. b + Len(new) - 1 : Heard(n)'
<1> DEFINE u == out \o new
<1>1. /\ u \in Seq(Nat) /\ Len(u) = Len(out) + Len(new) /\ DOMAIN u = 1 .. Len(u)
      /\ Len(out) \in Nat /\ Len(new) \in Nat /\ DOMAIN out = 1 .. Len(out)
      /\ \A i \in 1 .. Len(u) : u[i] = IF i <= Len(out) THEN out[i] ELSE new[i - Len(out)]
  OBVIOUS
<1>2. out' = u
  OBVIOUS
<1> HIDE DEF u
<1>3. ASSUME NEW n, Heard(n) PROVE Heard(n)'
  <2>1. PICK i \in DOMAIN out : out[i] = n
    BY <1>3 DEF Heard
  <2>2. i \in DOMAIN u /\ u[i] = n
    BY <1>1, <2>1
  <2>3. QED BY <1>2, <2>2 DEF Heard
<1>4. ASSUME NEW n \in b .. b + Len(new) - 1 PROVE Heard(n)'
  <2> DEFINE j == n - b + 1
             i == Len(out) + j
  <2>1. j \in 1 .. Len(new) /\ i \in DOMAIN u /\ i - Len(out) = j /\ ~ i <= Len(out)
    BY <1>1
  <2>2. u[i] = new[j]
    BY <1>1, <2>1
  <2>3. b + j - 1 = n
    OBVIOUS
  <2> HIDE DEF j, i
  <2>4. new[j] = b + j - 1
    BY <2>1 DEF Holds
  <2>5. QED BY <1>2, <2>1, <2>2, <2>3, <2>4 DEF Heard
<1>5. QED BY <1>1, <1>2, <1>3, <1>4

LEMMA G711Write ==
  ASSUME XAudioAssumption, TypeOK, StageInv, DecodedFits, G711Inv, Write \/ WriteFails
  PROVE  G711Inv'
<1> USE DEF config, setup
<1> SUFFICES ASSUME mode' = "Playback", codec' = "G711" PROVE G711Inv'
  BY DEF G711Inv
<1>1. /\ pc = "write" /\ pc' = "write" /\ mode = "Playback" /\ codec = "G711"
      /\ UNCHANGED <<setup, pos, period_size, pcm_buffer, num_frames, dumped, last_chunk>>
      /\ batch < num_batches /\ batch' = batch + 1
  BY DEF Write, WriteFails
<1>2. PICK f \in Nat : G711Chunk(f)
  BY <1>1 DEF G711Inv
<1>3. out \in Seq(Nat)
  BY <1>1 DEF G711Inv
<1> DEFINE o == batch * period_size * channels
           k == period_size * channels
           n == num_frames * channels
<1>4. /\ o \in Nat /\ k \in Nat /\ (batch + 1) * period_size * channels = o + k
      /\ batch' * period_size' * channels' = o + k
  <2>1. /\ o \in Nat /\ k \in Nat /\ (batch + 1) * period_size * channels = o + k
    BY <1>1, BatchPlaces
  <2>2. QED BY <1>1, <2>1
<1>5. /\ Holds(pcm_buffer, f, n)
      /\ ~xrun => /\ \A m \in 0 .. f - 1 : Kept(m)
                  /\ \A m \in f .. f + o - 1 : Heard(m)
  BY <1>2 DEF G711Chunk
<1>6. /\ out' \in Seq(Nat)
      /\ (~xrun)' => /\ \A m \in 0 .. f - 1 : Kept(m)'
                     /\ \A m \in f .. f + (o + k) - 1 : Heard(m)'
  <2>1. CASE WriteFails
    BY <1>3, <2>1 DEF WriteFails
  <2>2. CASE Write
    <3> DEFINE new == Batch(batch)
    <3>1. new \in Seq(Nat) /\ Len(new) = k /\ Holds(new, f + o, Len(new))
      BY <1>1, <1>5, BatchHolds
    <3>2. out' = out \o new /\ xrun' = xrun
      BY <2>2 DEF Write
    <3> HIDE DEF new, o, k, n
    <3>3. f + o \in Nat
      BY <1>4
    <3>4. /\ out' \in Seq(Nat)
          /\ \A m : Heard(m) => Heard(m)'
          /\ \A m \in f + o .. f + o + k - 1 : Heard(m)'
      BY <1>3, <3>1, <3>2, <3>3, HeardOn
    <3>5. \A m : Kept(m) => Kept(m)'
      BY <1>1, <3>4 DEF Kept
    <3>6. \A m \in f .. f + (o + k) - 1 :
             m \in f .. f + o - 1 \/ m \in f + o .. f + o + k - 1
      BY <1>4
    <3>7. QED BY <1>5, <3>2, <3>4, <3>5, <3>6
  <2>3. QED BY <2>1, <2>2
<1>7. G711Chunk(f)'
  <2>1. /\ f <= pos /\ \E q \in Nat : f = q * bufsz
        /\ pos = Smaller(f + bufsz, len) /\ (last_chunk <=> pos - f < bufsz)
        /\ num_frames = (pos - f) \div channels
        /\ dumping => dumped = Samples(0, f)
    BY <1>2 DEF G711Chunk
  <2>2. (f <= pos /\ \E q \in Nat : f = q * bufsz)'
    BY <1>1, <2>1
  <2>3. /\ (pos = Smaller(f + bufsz, len) /\ (last_chunk <=> pos - f < bufsz))'
        /\ (num_frames = (pos - f) \div channels)'
        /\ Holds(pcm_buffer, f, num_frames * channels)'
    BY <1>1, <1>5, <2>1 DEF Smaller, Holds
  <2>4. (dumping => dumped = Samples(0, f))'
    BY <1>1, <2>1
  <2>5. (~xrun)' => \A m \in 0 .. f - 1 : Kept(m)'
    BY <1>6
  <2>6. (~xrun)' => \A m \in (f .. f + batch * period_size * channels - 1)' : Heard(m)'
    BY <1>4, <1>6
  <2>7. QED BY <2>2, <2>3, <2>4, <2>5, <2>6 DEF G711Chunk
<1>8. QED BY <1>1, <1>6, <1>7 DEF G711Inv

\* The end of a chunk.
LEMMA G711Dump ==
  ASSUME XAudioAssumption, TypeOK, StageInv, DecodedFits, G711Inv, Dump
  PROVE  G711Inv'
<1> USE DEF config, setup
<1> SUFFICES ASSUME mode' = "Playback", codec' = "G711" PROVE G711Inv'
  BY DEF G711Inv
<1>1. /\ pc = "write" /\ mode = "Playback" /\ codec = "G711" /\ batch = num_batches
      /\ UNCHANGED <<setup, pos, period_size, pcm_buffer, num_frames, batch, out,
                     xrun, last_chunk>>
      /\ pc' = IF last_chunk THEN "close" ELSE "fread"
      /\ dumping => dumped' = dumped \o SubSeq(pcm_buffer, 1, num_frames * channels)
  BY DEF Dump
<1>2. PICK f \in Nat : G711Chunk(f)
  BY <1>1 DEF G711Inv
<1>3. /\ f <= pos /\ \E q \in Nat : f = q * bufsz
      /\ pos = Smaller(f + bufsz, len) /\ (last_chunk <=> pos - f < bufsz)
      /\ num_frames = (pos - f) \div channels
      /\ Holds(pcm_buffer, f, num_frames * channels)
      /\ dumping => dumped = Samples(0, f)
      /\ ~xrun => /\ \A n \in 0 .. f - 1 : Kept(n)
                  /\ \A n \in f .. f + batch * period_size * channels - 1 : Heard(n)
  BY <1>2 DEF G711Chunk
<1>4. PICK q \in Nat : f = q * bufsz
  BY <1>3
<1>5. /\ bufsz \in Nat \ {0} /\ bufsz % 2 = 0 /\ pos - f \in Nat /\ pos \in Nat
      /\ channels \in 1 .. 2 /\ len \in Nat /\ pos <= f + bufsz
      /\ ~last_chunk => pos = f + bufsz
  <2>1. bufsz \in Chunks
    BY <1>1 DEF StageInv
  <2>2. bufsz \in Nat \ {0} /\ bufsz % 2 = 0
    BY <2>1 DEF XAudioAssumption
  <2>3. channels \in 1 .. 2 /\ len \in Nat /\ pos \in Nat
    BY Sizes
  <2>4. pos <= f + bufsz
    BY <1>3, <2>2, <2>3 DEF Smaller
  <2>5. pos - f \in Nat /\ (~last_chunk => pos = f + bufsz)
    BY <1>3, <2>2, <2>3, <2>4
  <2>6. QED BY <2>2, <2>3, <2>4, <2>5
<1>6. (pos \div channels) * channels = f + num_frames * channels
  <2> DEFINE z == pos - f
  <2>1. f + z = pos /\ z \in Nat /\ bufsz \in Nat
    BY <1>5
  <2>2. num_frames = z \div channels
    BY <1>3
  <2> HIDE DEF z
  <2>3. ((f + z) \div channels) * channels = f + (z \div channels) * channels
    <3>1. channels \in 1 .. 2 /\ bufsz % 2 = 0 /\ f = q * bufsz
      BY <1>4, <1>5
    <3>2. \A y \in Nat : ((f + y) \div channels) * channels = f + (y \div channels) * channels
      BY <2>1, <3>1, FramesUpTo
    <3>3. QED BY <2>1, <3>2
  <2>4. QED BY <2>1, <2>2, <2>3
<1>7. dumping => dumped' = Samples(0, (pos \div channels) * channels)
  <2> DEFINE n == num_frames * channels
             t == SubSeq(pcm_buffer, 1, n)
             T == 0 .. Junk
  <2>1. n \in Nat /\ n <= PCM /\ PCM \in Nat
    BY <1>1, BatchPlaces, Sizes
  <2>2. pcm_buffer \in [1 .. PCM -> T] /\ 0 \in Nat /\ 0 + n = n /\ 0 + 1 = 1
    BY <2>1 DEF TypeOK
  <2>3. Holds(pcm_buffer, f, n)
    BY <1>3
  <2> HIDE DEF n, T
  <2>4. t \in Seq(T) /\ Len(t) = n /\ \A i \in 1 .. n : t[i] = pcm_buffer[i]
    <3>1. /\ SubSeq(pcm_buffer, 0 + 1, 0 + n) \in Seq(T)
          /\ Len(SubSeq(pcm_buffer, 0 + 1, 0 + n)) = n
          /\ \A i \in 1 .. n : SubSeq(pcm_buffer, 0 + 1, 0 + n)[i] = pcm_buffer[0 + i]
      BY <2>1, <2>2, Slice
    <3>2. \A i \in 1 .. n : 0 + i = i
      BY <2>1
    <3>3. QED BY <2>2, <3>1, <3>2
  <2> HIDE DEF t
  <2>5. t \in Seq(Nat)
    <3>1. \A i \in 1 .. Len(t) : t[i] \in T
      BY <2>4
    <3>2. \A i \in 1 .. Len(t) : t[i] \in Nat
      BY <3>1 DEF T
    <3>3. QED BY <2>4, <3>2, Elements
  <2>6. Holds(t, f, n)
    BY <2>3, <2>4 DEF Holds
  <2>7. Samples(0, f) \o t = Samples(0, f + n)
    BY <2>1, <2>4, <2>5, <2>6, SamplesContinued
  <2>8. dumping => dumped' = Samples(0, f + n)
    BY <1>1, <1>3, <2>7 DEF t, n
  <2>9. QED BY <1>6, <2>8 DEF n
<1> DEFINE o == batch * period_size * channels
           k == period_size * channels
<1>8. o \in Nat /\ k \in Nat /\ pos - f < o + k
  <2>1. period_size \in Nat \ {0} /\ channels \in Nat \ {0}
    BY Sizes
  <2>2. o = (((pos - f) \div channels) \div period_size) * period_size * channels
    BY <1>1, <1>3 DEF num_batches
  <2>3. QED BY <1>1, <1>5, <2>1, <2>2, TailBound, BatchPlaces
<1>9. ASSUME NEW n \in 0 .. pos - 1, ~xrun PROVE Kept(n)
  <2>1. CASE n < f
    BY <1>3, <1>9, <2>1
  <2>2. CASE n >= f
    <3> DEFINE r == n - f
    <3>1. r \in 0 .. bufsz - 1 /\ n = q * bufsz + r
      BY <1>4, <1>5, <2>2
    <3>2. n \div bufsz = q
      BY <1>5, <3>1, QuotientOfProduct
    <3>3. (n \div bufsz + 1) * bufsz = f + bufsz
      BY <1>4, <1>5, <3>2
    <3>4. Smaller((n \div bufsz + 1) * bufsz, len) = pos
      BY <1>3, <3>3
    <3>5. ASSUME pos - n >= k PROVE Heard(n)
      <4> HIDE DEF o, k
      <4>1. n \in f .. f + o - 1
        BY <1>5, <1>8, <2>2, <3>5
      <4>2. QED BY <1>3, <1>9, <4>1 DEF o
    <3>6. QED BY <3>4, <3>5 DEF Kept
  <2>3. QED BY <1>5, <2>1, <2>2
<1>10. \A n : Kept(n)' <=> Kept(n)
  BY <1>1 DEF Kept, Heard
<1>11. pc' = "fread" => \E j \in Nat : pos' = j * bufsz'
  <2>1. ASSUME pc' = "fread" PROVE pos' = (q + 1) * bufsz' /\ q + 1 \in Nat
    <3>1. pos = f + bufsz
      BY <1>1, <1>5, <2>1
    <3>2. (q + 1) * bufsz = q * bufsz + bufsz
      BY <1>5
    <3>3. QED BY <1>1, <1>4, <3>1, <3>2
  <2>2. QED BY <2>1
<1>12. out' \in Seq(Nat) /\ pc' # "write"
  BY <1>1 DEF G711Inv
<1>13. /\ (dumping => dumped = Samples(0, (pos \div channels) * channels))'
       /\ (~xrun)' => \A n \in 0 .. pos' - 1 : Kept(n)'
  BY <1>1, <1>7, <1>9, <1>10
<1>14. QED BY <1>11, <1>12, <1>13 DEF G711Inv

LEMMA G711Step ==
  ASSUME XAudioAssumption, TypeOK, StageInv, DecodedFits, G711Inv, Next
  PROVE  G711Inv'
<1> USE DEF config, line, setup, stream
<1>1. CASE Options
  <2>1. out' = <<>> /\ pc' \notin {"fread", "close", "write"}
    BY <1>1 DEF Options, OptionsNext, SetMode, SetFormat, SetChannels, SetRateOrVerbose,
                SetDump, Exit, Fopen, Taken, StageInv
  <2>2. out' \in Seq(Nat)
    BY <2>1
  <2>3. QED BY <2>1, <2>2 DEF G711Inv
<1>2. CASE Open
  <2>1. /\ out' = <<>> /\ pos' = 0 /\ pc' \in {"fread", "read"} /\ dumped' = <<>>
        /\ channels' = channels
    BY <1>2 DEF Open, StageInv
  <2>2. out' \in Seq(Nat)
    BY <2>1
  <2>3. (0 \div channels) * channels = 0
    BY Sizes
  <2>4. dumped' = Samples(0, (pos' \div channels') * channels')
    <3>1. Samples(0, 0) = <<>>
      BY DEF Samples
    <3>2. QED BY <2>1, <2>3, <3>1
  <2>5. 0 .. pos' - 1 = {}
    BY <2>1
  <2>6. \E q \in Nat : pos' = q * bufsz'
    <3>1. bufsz \in Nat /\ bufsz' = bufsz
      BY <1>2 DEF Open, TypeOK, XAudioAssumption
    <3>2. 0 * bufsz = 0 /\ 0 \in Nat
      BY <3>1
    <3>3. QED BY <2>1, <3>1, <3>2
  <2>7. QED BY <2>1, <2>2, <2>4, <2>5, <2>6 DEF G711Inv
<1>3. CASE OpenFails \/ FreadTooMuch \/ Close
  <2>1. /\ UNCHANGED out /\ mode' = mode /\ codec' = codec
        /\ pc' \in {"failed", "closed", "crashed"}
    BY <1>3 DEF OpenFails, FreadTooMuch, Close
  <2>2. QED BY <2>1 DEF G711Inv
<1>4. CASE Fread
  BY <1>4, G711Fread
<1>5. CASE Write \/ WriteFails
  BY <1>5, G711Write
<1>6. CASE Dump
  BY <1>6, G711Dump
<1>7. CASE Read \/ ReadFails \/ Encode
  <2>1. mode' = "Capture"
    BY <1>7 DEF Read, ReadFails, Encode, StageInv
  <2>2. QED BY <2>1 DEF G711Inv
<1>8. QED BY <1>1, <1>2, <1>3, <1>4, <1>5, <1>6, <1>7 DEF Next

LEMMA G711Always == Spec => []G711Inv
<1>1. Init => G711Inv
  <2>1. ASSUME Init PROVE out \in Seq(Nat)
    BY <2>1, NothingPlayed DEF Init
  <2>2. QED BY <2>1 DEF G711Inv, Init, OptionsInit
<1>2. TypeOK /\ StageInv /\ DecodedFits /\ G711Inv /\ [Next]_vars => G711Inv'
  <2>1. ASSUME G711Inv, UNCHANGED vars PROVE G711Inv'
    BY <2>1 DEF vars, config, line, setup, stream, G711Inv, G711Chunk, Kept, Heard
  <2>2. QED BY <2>1, XAudioAssumption, G711Step
<1>3. QED BY <1>1, <1>2, StagesAlways, PTL DEF Spec

\* Without failed transfers, a G711 playback loses samples at the end of a
\* chunk only, and less than a period of frames (AlsaDevice::write).
THEOREM OnlyTailsAreLost == Spec => []LostAtTailsOnly
<1>1. G711Inv => LostAtTailsOnly
  BY DEF G711Inv, LostAtTailsOnly, Kept, Heard
<1>2. QED BY <1>1, G711Always, PTL

\* The dump file has every whole frame of a G711 file, whatever failed to be
\* played (xaudio_playback).
THEOREM DumpIsComplete == Spec => []DumpComplete
<1>1. G711Inv => DumpComplete
  BY DEF G711Inv, DumpComplete
<1>2. QED BY <1>1, G711Always, PTL
-----------------------------------------------------------------------------
(* Capture.                                                                *)

\* Nothing is lost and nothing is added: what is not yet encoded of the
\* captured samples, those from n on, is in pcm_buffer.
CaptureInv ==
  mode = "Capture" /\ Undisturbed /\ (codec = "AAC" \/ channels = 1) =>
    \E n \in Nat : /\ pos = n + batch * period_size
                   /\ Holds(pcm_buffer, n, batch * period_size)
                   /\ out = [i \in 1 .. n |-> Coded(i - 1)]

LEMMA Concatenation ==
  ASSUME NEW S, NEW s \in Seq(S), NEW t \in Seq(S)
  PROVE  /\ s \o t \in Seq(S) /\ Len(s \o t) = Len(s) + Len(t)
         /\ \A i \in 1 .. Len(s \o t) :
              (s \o t)[i] = IF i <= Len(s) THEN s[i] ELSE t[i - Len(s)]
OBVIOUS

LEMMA Joined ==
  ASSUME NEW S, NEW c \in [Nat -> S], NEW n \in Nat, NEW m \in Nat
  PROVE  [i \in 1 .. n |-> c[i - 1]] \o [i \in 1 .. m |-> c[n + i - 1]]
           = [i \in 1 .. n + m |-> c[i - 1]]
<1> DEFINE s == [i \in 1 .. n |-> c[i - 1]]
           t == [i \in 1 .. m |-> c[n + i - 1]]
           u == [i \in 1 .. n + m |-> c[i - 1]]
<1>1. s \in Seq(S) /\ Len(s) = n /\ \A i \in 1 .. n : s[i] = c[i - 1]
  <2>1. s \in [1 .. n -> S]
    OBVIOUS
  <2>2. QED BY <2>1
<1>2. t \in Seq(S) /\ Len(t) = m /\ \A i \in 1 .. m : t[i] = c[n + i - 1]
  <2>1. \A i \in 1 .. m : n + i - 1 \in Nat
    OBVIOUS
  <2>2. t \in [1 .. m -> S]
    BY <2>1
  <2>3. QED BY <2>2
<1>3. u \in Seq(S) /\ Len(u) = n + m /\ \A i \in 1 .. n + m : u[i] = c[i - 1]
  <2>1. u \in [1 .. n + m -> S] /\ n + m \in Nat
    OBVIOUS
  <2>2. QED BY <2>1
<1> HIDE DEF s, t, u
<1> DEFINE v == s \o t
<1>4. /\ v \in Seq(S) /\ Len(v) = Len(s) + Len(t)
      /\ \A i \in 1 .. Len(v) : v[i] = IF i <= Len(s) THEN s[i] ELSE t[i - Len(s)]
  BY <1>1, <1>2, Concatenation
<1> HIDE DEF v
<1>5. ASSUME NEW i \in 1 .. n + m PROVE v[i] = u[i]
  <2>1. CASE i <= n
    BY <1>1, <1>2, <1>3, <1>4, <2>1
  <2>2. CASE i > n
    <3>1. i - n \in 1 .. m /\ n + (i - n) - 1 = i - 1 /\ ~ i <= n
      BY <2>2
    <3>2. v[i] = t[i - n]
      BY <1>1, <1>2, <1>4, <3>1
    <3>3. t[i - n] = c[n + (i - n) - 1]
      BY <1>2, <3>1
    <3>4. QED BY <1>3, <3>1, <3>2, <3>3
  <2>3. QED BY <2>1, <2>2
<1>6. v = u
  BY <1>1, <1>2, <1>3, <1>4, <1>5, SameSequence
<1>7. QED BY <1>6 DEF v, s, t, u

LEMMA NothingCaptured ==
  ASSUME pos = 0, batch = 0, out = <<>>, period_size \in Nat
  PROVE  CaptureInv
<1>1. batch * period_size = 0
  BY SMT
<1>2. [i \in 1 .. 0 |-> Coded(i - 1)] = <<>>
  OBVIOUS
<1>3. Holds(pcm_buffer, 0, 0)
  BY DEF Holds
<1>4. 0 \in Nat /\ pos = 0 + batch * period_size
  BY <1>1
<1>5. QED BY <1>1, <1>2, <1>3, <1>4 DEF CaptureInv

LEMMA CaptureRead ==
  ASSUME XAudioAssumption, TypeOK, StageInv, CaptureInv, Read
  PROVE  CaptureInv'
<1> USE DEF config, setup
<1> SUFFICES ASSUME (mode = "Capture" /\ Undisturbed /\ (codec = "AAC" \/ channels = 1))'
             PROVE  CaptureInv'
  BY DEF CaptureInv
<1>1. /\ pc = "read" /\ batch < CAPTURE \div period_size /\ batch' = batch + 1
      /\ UNCHANGED <<pc, setup, period_size, num_frames, out, dumped, xrun, last_chunk>>
      /\ pcm_buffer' = Overwrite(pcm_buffer, batch * period_size,
                                 Samples(pos, pos + period_size))
      /\ pos' = pos + period_size
  BY DEF Read
<1>2. mode = "Capture" /\ Undisturbed /\ (codec = "AAC" \/ channels = 1)
  BY <1>1 DEF Undisturbed
<1>3. PICK n \in Nat : /\ pos = n + batch * period_size
                       /\ Holds(pcm_buffer, n, batch * period_size)
                       /\ out = [i \in 1 .. n |-> Coded(i - 1)]
  BY <1>2 DEF CaptureInv
<1> DEFINE o == batch * period_size
           p == period_size
           new == Samples(pos, pos + period_size)
           T == 0 .. Junk
           k == batch' * period_size'
<1>4. /\ o \in Nat /\ p \in Nat /\ k = o + p
      /\ o + p <= PCM /\ PCM \in Nat
  <2>1. batch \in Nat /\ p \in Nat /\ PCM \in Nat /\ CAPTURE \in Nat /\ CAPTURE <= PCM
    BY Sizes
  <2> DEFINE q == CAPTURE \div p
  <2>2. q \in Nat /\ q * p <= CAPTURE /\ batch + 1 <= q
    BY <1>1, <2>1, WholePeriods
  <2> HIDE DEF q
  <2>3. (batch + 1) * p <= q * p
    BY <2>1, <2>2, ProductsGrow
  <2>4. o \in Nat /\ (batch + 1) * p = o + p
    BY <2>1
  <2>5. k = o + p
    BY <1>1, <2>4
  <2> HIDE DEF o, p, k
  <2>6. o + p <= PCM
    BY <2>1, <2>2, <2>3, <2>4
  <2>7. QED BY <2>1, <2>4, <2>5, <2>6
<1>5. /\ pcm_buffer' = Overwrite(pcm_buffer, o, new)
      /\ pos' = pos + p /\ pos = n + o /\ Holds(pcm_buffer, n, o)
  BY <1>1, <1>3
<1>6. pcm_buffer \in [1 .. PCM -> T] /\ pos \in Nat
  BY Sizes DEF TypeOK
<1>7. new \in Seq(Nat) /\ Len(new) = p /\ Holds(new, pos, p)
  <2>1. pos \in Nat /\ pos + p \in Int /\ pos <= pos + p /\ (pos + p) - pos = p
    BY <1>4, <1>6
  <2>2. QED BY <2>1, SamplesHold
<1>8. pos + p <= Junk
  <2>1. pos + p <= MaxCaptured
    BY DEF Read
  <2>2. pos + p \in Nat
    BY <1>4, <1>6
  <2> HIDE DEF p
  <2>3. QED BY <2>1, <2>2, Sizes
<1> HIDE DEF o, new, k
<1>9. new \in Seq(T)
  <2>1. ASSUME NEW i \in 1 .. Len(new) PROVE new[i] \in T
    <3>1. new[i] = pos + i - 1
      BY <1>7 DEF Holds
    <3>2. i \in 1 .. p /\ p \in Nat /\ pos \in Nat
      BY <1>4, <1>6, <1>7
    <3> HIDE DEF p
    <3>3. pos + i - 1 \in 0 .. Junk
      <4>1. Junk \in Nat
        BY Sizes
      <4>2. QED BY <1>8, <3>2, <4>1
    <3>4. QED BY <3>1, <3>3 DEF T
  <2> HIDE DEF T
  <2>2. QED BY <1>7, <2>1, Elements
<1> HIDE DEF T, p
<1>10. \A j \in 1 .. PCM :
         pcm_buffer'[j] = IF j \in o + 1 .. o + Len(new) THEN new[j - o] ELSE pcm_buffer[j]
  BY <1>4, <1>5, <1>6, <1>9, Overwritten
<1>11. ASSUME NEW j \in 1 .. o + p PROVE pcm_buffer'[j] = n + j - 1
  <2>1. j \in 1 .. PCM
    BY <1>4
  <2>2. CASE j <= o
    <3>1. j \in 1 .. o /\ j \notin o + 1 .. o + Len(new)
      BY <1>4, <2>2
    <3>2. pcm_buffer[j] = n + j - 1
      BY <1>5, <3>1 DEF Holds
    <3>3. QED BY <1>10, <2>1, <3>1, <3>2
  <2>3. CASE j > o
    <3>1. j - o \in 1 .. p /\ j \in o + 1 .. o + Len(new)
      BY <1>4, <1>7, <2>3
    <3>2. new[j - o] = pos + (j - o) - 1
      BY <1>7, <3>1 DEF Holds
    <3>3. pos + (j - o) - 1 = n + j - 1
      BY <1>4, <1>5
    <3>4. QED BY <1>10, <2>1, <3>1, <3>2, <3>3
  <2>4. QED BY <1>4, <2>2, <2>3
<1>12. pos' = n + k /\ Holds(pcm_buffer', n, k)
  BY <1>4, <1>5, <1>11 DEF Holds
<1>13. out' = [i \in 1 .. n |-> Coded(i - 1)']
  BY <1>1, <1>3 DEF Coded
<1>14. QED BY <1>12, <1>13 DEF CaptureInv, k

LEMMA CaptureEncode ==
  ASSUME XAudioAssumption, TypeOK, StageInv, CaptureInv, Encode
  PROVE  CaptureInv'
<1> USE DEF config, setup
<1> SUFFICES ASSUME (mode = "Capture" /\ Undisturbed /\ (codec = "AAC" \/ channels = 1))'
             PROVE  CaptureInv'
  BY DEF CaptureInv
<1>1. /\ batch = CAPTURE \div period_size /\ batch' = 0
      /\ UNCHANGED <<pc, setup, pos, period_size, pcm_buffer, num_frames, xrun, last_chunk>>
      /\ out' = out \o [i \in 1 .. Encodable |-> Coded(pcm_buffer[i])]
  BY DEF Encode
<1>2. mode = "Capture" /\ Undisturbed /\ (codec = "AAC" \/ channels = 1)
  BY <1>1 DEF Undisturbed
<1>3. PICK n \in Nat : /\ pos = n + batch * period_size
                       /\ Holds(pcm_buffer, n, batch * period_size)
                       /\ out = [i \in 1 .. n |-> Coded(i - 1)]
  BY <1>2 DEF CaptureInv
<1>4. CAPTURE \in Nat /\ period_size \in Nat \ {0} /\ BATCH \in Nat \ {0}
  BY Sizes DEF XAudioAssumption
<1>5. batch * period_size = CAPTURE
  <2>1. CAPTURE % period_size = 0
    BY <1>2 DEF Undisturbed
  <2>2. (CAPTURE \div period_size) * period_size = CAPTURE
    BY <1>4, <2>1
  <2>3. QED BY <1>1, <2>2
<1>6. Encodable = CAPTURE
  <2>1. CASE codec = "G711"
    <3>1. channels = 1 /\ CAPTURE \div 1 = CAPTURE /\ ready
      BY <1>2, <1>4, <2>1 DEF Undisturbed
    <3>2. QED BY <2>1, <3>1 DEF Encodable
  <2>2. CASE codec = "AAC"
    <3>1. ready /\ CAPTURE % BATCH = 0
      BY <1>2, <2>2 DEF Undisturbed
    <3>2. (CAPTURE \div BATCH) * BATCH = CAPTURE
      BY <1>4, <3>1
    <3>3. QED BY <2>2, <3>1, <3>2 DEF Encodable
  <2>3. QED BY <2>1, <2>2 DEF TypeOK
<1> DEFINE S == {Coded(m) : m \in Nat}
           c == [m \in Nat |-> Coded(m)]
<1>7. c \in [Nat -> S] /\ \A m \in Nat : c[m] = Coded(m)
  OBVIOUS
<1> HIDE DEF c, S
<1>8. out = [i \in 1 .. n |-> c[i - 1]]
  <2>1. \A i \in 1 .. n : i - 1 \in Nat /\ Coded(i - 1) = c[i - 1]
    BY <1>7
  <2>2. QED BY <1>3, <2>1
<1>9. [i \in 1 .. Encodable |-> Coded(pcm_buffer[i])] = [i \in 1 .. CAPTURE |-> c[n + i - 1]]
  <2>1. ASSUME NEW i \in 1 .. CAPTURE PROVE Coded(pcm_buffer[i]) = c[n + i - 1]
    <3>1. pcm_buffer[i] = n + i - 1
      BY <1>3, <1>5 DEF Holds
    <3>2. n + i - 1 \in Nat
      BY <1>4
    <3>3. QED BY <1>7, <3>1, <3>2
  <2>2. QED BY <1>6, <2>1
<1>10. out' = [i \in 1 .. n + CAPTURE |-> c[i - 1]]
  <2>1. out' = [i \in 1 .. n |-> c[i - 1]] \o [i \in 1 .. CAPTURE |-> c[n + i - 1]]
    BY <1>1, <1>8, <1>9
  <2>2. QED BY <1>4, <1>7, <2>1, Joined
<1> DEFINE w == n + CAPTURE
<1>11. w \in Nat /\ pos = w
  BY <1>3, <1>4, <1>5
<1> HIDE DEF w
<1>12. out' = [i \in 1 .. w |-> Coded(i - 1)']
  <2>1. \A i \in 1 .. w : i - 1 \in Nat /\ Coded(i - 1)' = c[i - 1]
    <3>1. \A m : Coded(m)' = Coded(m)
      BY <1>1 DEF Coded
    <3>2. QED BY <1>7, <1>11, <3>1
  <2>2. QED BY <1>10, <2>1 DEF w
<1>13. batch' * period_size' = 0
  <2>1. 0 * period_size = 0
    BY <1>4
  <2>2. QED BY <1>1, <2>1
<1>14. pos' = w + 0 /\ Holds(pcm_buffer', w, 0)
  BY <1>1, <1>11 DEF Holds
<1>15. QED BY <1>11, <1>12, <1>13, <1>14 DEF CaptureInv

LEMMA CaptureStep ==
  ASSUME XAudioAssumption, TypeOK, StageInv, CaptureInv, Next, TypeOK'
  PROVE  CaptureInv'
<1> USE DEF config, line, setup, stream
<1>1. CASE Options \/ Open
  <2>1. pos' = 0 /\ batch' = 0 /\ out' = <<>>
    BY <1>1 DEF Options, OptionsNext, SetMode, SetFormat, SetChannels, SetRateOrVerbose,
                SetDump, Exit, Fopen, Taken, Open, StageInv
  <2>2. period_size' \in Nat
    BY DEF TypeOK, XAudioAssumption
  <2>3. batch' * period_size' = 0
    <3>1. PICK p \in Nat : p = period_size'
      BY <2>2
    <3>2. 0 * p = 0
      OBVIOUS
    <3>3. QED BY <2>1, <3>1, <3>2
  <2>4. out' = [i \in 1 .. 0 |-> Coded(i - 1)']
    BY <2>1
  <2>5. 0 \in Nat /\ pos' = 0 + 0 /\ Holds(pcm_buffer', 0, 0)
    BY <2>1 DEF Holds
  <2>6. QED BY <2>3, <2>4, <2>5 DEF CaptureInv
<1>2. CASE OpenFails
  <2>1. /\ UNCHANGED <<pos, batch, period_size, pcm_buffer, out>>
        /\ UNCHANGED <<mode, codec, channels, ready, xrun>>
    BY <1>2 DEF OpenFails
  <2>2. \A m : Coded(m)' = Coded(m)
    BY <2>1 DEF Coded
  <2>3. QED BY <2>1, <2>2 DEF CaptureInv, Undisturbed
<1>3. CASE \/ Fread \/ FreadTooMuch \/ Write \/ WriteFails \/ Dump \/ Close
  <2>1. mode' = "Playback"
    BY <1>3 DEF Fread, FreadTooMuch, Write, WriteFails, Dump, Close, StageInv
  <2>2. QED BY <2>1 DEF CaptureInv
<1>4. CASE Read
  BY <1>4, CaptureRead
<1>5. CASE ReadFails
  BY <1>5 DEF ReadFails, CaptureInv, Undisturbed
<1>6. CASE Encode
  BY <1>6, CaptureEncode
<1>7. QED BY <1>1, <1>2, <1>3, <1>4, <1>5, <1>6 DEF Next

LEMMA CaptureAlways == Spec => []CaptureInv
<1>1. Init => CaptureInv
  <2>1. ASSUME Init PROVE CaptureInv
    <3>1. pos = 0 /\ batch = 0 /\ out = <<>> /\ period_size \in Nat
      BY <2>1 DEF Init
    <3>2. QED BY <3>1, NothingCaptured
  <2>2. QED BY <2>1
<1>2. TypeOK /\ StageInv /\ CaptureInv /\ [Next]_vars /\ TypeOK' => CaptureInv'
  <2>1. ASSUME CaptureInv, UNCHANGED vars PROVE CaptureInv'
    <3>1. \A m : Coded(m)' = Coded(m)
      BY <2>1 DEF Coded, vars, setup, config
    <3>2. QED BY <2>1, <3>1 DEF vars, config, line, setup, stream, CaptureInv, Undisturbed
  <2>2. QED BY <2>1, XAudioAssumption, CaptureStep
<1>3. QED BY <1>1, <1>2, StagesAlways, PTL DEF Spec

\* When nothing fails and the sizes divide each other, every captured sample
\* is encoded, once and in order (xaudio_capture, AlsaDevice::read).
THEOREM AllIsCaptured == Spec => []CapturedWhole
<1>1. TypeOK /\ CaptureInv => CapturedWhole
  <2>1. ASSUME TypeOK, CaptureInv, mode = "Capture", Undisturbed, batch = 0,
               codec = "AAC" \/ channels = 1
        PROVE  out = [i \in 1 .. pos |-> Coded(i - 1)]
    <3>1. PICK n \in Nat : /\ pos = n + batch * period_size
                           /\ out = [i \in 1 .. n |-> Coded(i - 1)]
      BY <2>1 DEF CaptureInv
    <3>2. 0 * period_size = 0
      BY <2>1, XAudioAssumption, Sizes
    <3>3. pos = n
      BY <2>1, <3>1, <3>2
    <3>4. QED BY <3>1, <3>3
  <2>2. QED BY <2>1 DEF CapturedWhole
<1>2. QED BY <1>1, CaptureAlways, StagesAlways, PTL

\* What is heard of a captured sample is the sample to half a step of its
\* segment (G711Codec::encode, linear_to_ulaw).
THEOREM SoundIsKept == Spec => []SoundKept
<1>1. TypeOK /\ CaptureInv => SoundKept
  <2>1. ASSUME TypeOK, CaptureInv, mode = "Capture", Undisturbed, codec = "G711",
               channels = 1, NEW i \in DOMAIN out
        PROVE  /\ -UlawHalfStep(Sound[i - 1]) <= ulaw_to_linear(out[i]) - Sound[i - 1]
               /\ ulaw_to_linear(out[i]) - Sound[i - 1] <= UlawHalfStep(Sound[i - 1])
    <3>1. PICK n \in Nat : /\ pos = n + batch * period_size
                           /\ out = [j \in 1 .. n |-> Coded(j - 1)]
      BY <2>1 DEF CaptureInv
    <3>2. i \in 1 .. n /\ out[i] = Coded(i - 1)
      BY <2>1, <3>1
    <3>3. n <= pos /\ pos <= Junk /\ Junk \in Nat /\ pos \in Nat
      <4>1. batch * period_size \in Nat
        BY <2>1, XAudioAssumption, Sizes
      <4>2. pos \in 0 .. Junk /\ Junk \in Nat /\ pos \in Nat
        BY <2>1, XAudioAssumption, Sizes DEF TypeOK
      <4>3. QED BY <3>1, <4>1, <4>2
    <3>4. i - 1 \in 0 .. Junk
      BY <3>2, <3>3
    <3> DEFINE x == Sound[i - 1]
    <3>5. x \in Int /\ -32768 <= x /\ x <= 32767
      <4>1. Sound \in [0 .. Junk -> Linear]
        BY XAudioAssumption DEF XAudioAssumption
      <4>2. x \in Linear
        BY <3>4, <4>1
      <4> DEFINE lo == -32768
                 hi == 32767
      <4>3. lo \in Int /\ hi \in Int
        OBVIOUS
      <4> HIDE DEF x
      <4>4. x \in lo .. hi
        BY <4>2 DEF Linear
      <4> HIDE DEF lo, hi
      <4>5. x \in Int /\ lo <= x /\ x <= hi
        BY <4>3, <4>4
      <4>6. QED BY <4>5 DEF lo, hi
    <3>6. ulaw_to_linear(out[i]) = UlawHeard(x)
      BY <2>1, <3>2 DEF Coded, UlawHeard
    <3> HIDE DEF x
    <3>7. /\ UlawHeard(x) \in Int /\ UlawHalfStep(x) \in Int
          /\ UlawHeard(x) - x <= UlawHalfStep(x)
          /\ x - UlawHeard(x) <= UlawHalfStep(x)
      BY <3>5, UlawToHalfAStep
    <3>8. -UlawHalfStep(x) <= UlawHeard(x) - x
      BY <3>5, <3>7
    <3>9. QED BY <3>6, <3>7, <3>8 DEF x
  <2>2. QED BY <2>1 DEF SoundKept
<1>2. QED BY <1>1, CaptureAlways, StagesAlways, PTL
=============================================================================

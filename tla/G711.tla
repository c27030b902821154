--------------------------------- MODULE G711 ---------------------------------
(***************************************************************************)
(* The companding of xaudio's G711 codec (xaudio/g711.h) and the           *)
(* transcoding tables (g711.c).  Samples are 16-bit integers, codes are    *)
(* octets.  Shifts are products and quotients with powers of two, and xor  *)
(* with a mask of ones is a difference.                                    *)
(***************************************************************************)
EXTENDS Integers, Sequences

Linear == -32768 .. 32767
Octet  == 0 .. 255

\* 1 << n
Power(n) == <<1, 2, 4, 8, 16, 32, 64, 128, 256, 512, 1024, 2048, 4096, 8192,
              16384, 32768, 65536>>[n + 1]

-----------------------------------------------------------------------------
\* The highest bit set in a word below 2^2, 2^4, ..., found by halving: the
\* upper half decides unless it is empty.
TopOf2(w)  == IF w >= 2 THEN 1 ELSE 0
TopOf4(w)  == IF w >= 4 THEN 2 + TopOf2(w \div 4) ELSE TopOf2(w)
TopOf8(w)  == IF w >= 16 THEN 4 + TopOf4(w \div 16) ELSE TopOf4(w)
TopOf16(w) == IF w >= 256 THEN 8 + TopOf8(w \div 256) ELSE TopOf8(w)
top_bit(bits) ==
  IF bits = 0 THEN -1
  ELSE IF bits >= 65536 THEN 16 + TopOf16(bits \div 65536) ELSE TopOf16(bits)

\* The segment of a magnitude: everything below 2^8 is in the first.
Segment(m) == top_bit((m \div 256) * 256 + 255) - 7

-----------------------------------------------------------------------------
(* u-law: sign, segment and four bits of the biased magnitude, inverted.   *)

ULAW_BIAS == 132

Biased(linear) ==
  IF linear < 0 THEN ULAW_BIAS - linear - 1 ELSE ULAW_BIAS + linear

\* Mutant of linear_to_ulaw: what is out of range is not clipped.
linear_to_ulaw_unclipped(linear) ==
  LET m   == Biased(linear)
      seg == Segment(m)
  IN  (IF linear < 0 THEN 127 ELSE 255) - (16 * seg + ((m \div Power(seg + 3)) % 16))

linear_to_ulaw(linear) ==
  LET m    == Biased(linear)
      seg  == Segment(m)
      code == IF seg >= 8 THEN 127
              ELSE 16 * seg + ((m \div Power(seg + 3)) % 16)
  IN  (IF linear < 0 THEN 127 ELSE 255) - code

ulaw_to_linear(ulaw) ==
  LET u == 255 - ulaw
      t == (8 * (u % 16) + ULAW_BIAS) * Power((u % 128) \div 16)
  IN  IF u >= 128 THEN ULAW_BIAS - t ELSE t - ULAW_BIAS

-----------------------------------------------------------------------------
(* A-law: sign, segment and four bits of the magnitude, every other bit    *)
(* inverted.                                                               *)

\* w ^ ALAW_AMI_MASK, digit by digit to the base of four.
FlipEven(w) ==
  LET flip(d) == IF d % 2 = 0 THEN d + 1 ELSE d - 1
  IN  flip(w % 4) + 4 * flip((w \div 4) % 4) + 16 * flip((w \div 16) % 4)
        + 64 * flip(w \div 64)

linear_to_alaw(linear) ==
  LET m    == IF linear >= 0 THEN linear ELSE -linear - 1
      seg  == Segment(m)
      code == IF seg >= 8 THEN 127
              ELSE 16 * seg + ((m \div Power(IF seg = 0 THEN 4 ELSE seg + 3)) % 16)
  IN  FlipEven(code + IF linear >= 0 THEN 128 ELSE 0)

alaw_to_linear(alaw) ==
  LET a   == FlipEven(alaw)
      seg == (a % 128) \div 16
      i   == 16 * (a % 16)
      m   == IF seg = 0 THEN i + 8 ELSE (i + 264) * Power(seg - 1)
  IN  IF a >= 128 THEN m ELSE -m

-----------------------------------------------------------------------------
(* What a sample becomes when it is coded and decoded again.               *)

UlawHeard(linear) == ulaw_to_linear(linear_to_ulaw(linear))

\* Half the quantisation step at a sample; coarse where it was clipped.
UlawHalfStep(linear) == 4 * Power(Segment(Biased(linear)))

-----------------------------------------------------------------------------
(* Transcoding.  Sequences start at 1, the tables of the code at 0.        *)

ulaw_to_alaw_table == <<
  42,43,40,41,46,47,44,45,34,35,32,33,38,39,36,37,58,59,56,57,62,63,60,61,50,51,48,49,54,55,52,53,
  10,11,8,9,14,15,12,13,2,3,0,1,6,7,4,26,27,24,25,30,31,28,29,18,19,16,17,22,23,20,21,106,
  104,105,110,111,108,109,98,99,96,97,102,103,100,101,122,120,126,127,124,125,114,115,112,113,118,119,116,117,75,73,79,77,
  66,67,64,65,70,71,68,69,90,91,88,89,94,95,92,93,82,82,83,83,80,80,81,81,86,86,87,87,84,84,85,85,
  170,171,168,169,174,175,172,173,162,163,160,161,166,167,164,165,186,187,184,185,190,191,188,189,178,179,176,177,182,183,180,181,
  138,139,136,137,142,143,140,141,130,131,128,129,134,135,132,154,155,152,153,158,159,156,157,146,147,144,145,150,151,148,149,234,
  232,233,238,239,236,237,226,227,224,225,230,231,228,229,250,248,254,255,252,253,242,243,240,241,246,247,244,245,203,201,207,205,
  194,195,192,193,198,199,196,197,218,219,216,217,222,223,220,221,210,210,211,211,208,208,209,209,214,214,215,215,212,212,213,213 >>

alaw_to_ulaw_table == <<
  42,43,40,41,46,47,44,45,34,35,32,33,38,39,36,37,57,58,55,56,61,62,59,60,49,50,47,48,53,54,51,52,
  10,11,8,9,14,15,12,13,2,3,0,1,6,7,4,5,26,27,24,25,30,31,28,29,18,19,16,17,22,23,20,21,
  98,99,96,97,102,103,100,101,93,93,92,92,95,95,94,94,116,118,112,114,124,126,120,122,106,107,104,105,110,111,108,109,
  72,73,70,71,76,77,74,75,64,65,63,63,68,69,66,67,86,87,84,85,90,91,88,89,79,79,78,78,82,83,80,81,
  170,171,168,169,174,175,172,173,162,163,160,161,166,167,164,165,185,186,183,184,189,190,187,188,177,178,175,176,181,182,179,180,
  138,139,136,137,142,143,140,141,130,131,128,129,134,135,132,133,154,155,152,153,158,159,156,157,146,147,144,145,150,151,148,149,
  226,227,224,225,230,231,228,229,221,221,220,220,223,223,222,222,244,246,240,242,252,254,248,250,234,235,232,233,238,239,236,237,
  200,201,198,199,204,205,202,203,192,193,191,191,196,197,194,195,214,215,212,213,218,219,216,217,207,207,206,206,210,211,208,209 >>

ulaw_to_alaw(ulaw) == ulaw_to_alaw_table[ulaw + 1]
alaw_to_ulaw(alaw) == alaw_to_ulaw_table[alaw + 1]
=============================================================================

------------------------------ MODULE MCXAudio ------------------------------
(***************************************************************************)
(* An instance of XAudio for TLC.  The sizes of the code scaled down: a    *)
(* chunk of a file decodes to what pcm_buffer holds or to more, a file has *)
(* up to two chunks and a bit, periods fit a chunk and a capture or not.   *)
(* The sound has both ends of 16 bits, the ends of segments on either side *)
(* of zero, and small samples.  Code words and samples are few enough to   *)
(* look at all of them.                                                    *)
(***************************************************************************)
EXTENDS XAudio

MCSound == [n \in 0 .. Junk |->
  <<32767, -32768, 0, -1, 123, 124, -124, -125, 32635, -32637, 8031, -3>>[(n % 12) + 1]]

\* Decoding and coding again gives a code word back, but for the negative
\* zero of u-law.
ASSUME RoundTrips ==
  \A c \in Octet :
    /\ linear_to_ulaw(ulaw_to_linear(c)) = IF c = 127 THEN 255 ELSE c
    /\ linear_to_alaw(alaw_to_linear(c)) = c

\* Transcoding to A-law and back keeps every u-law code word but for odd
\* ones in the lowest segment.
ASSUME Transcoding ==
  \A c \in Octet :
    alaw_to_ulaw(ulaw_to_alaw(c)) # c => c % 2 = 1 /\ c % 128 >= 113
=============================================================================

-------------------------------- MODULE XAudio --------------------------------
(***************************************************************************)
(* xaudiotest over the xaudio library (xaudio/main.cpp, xaudioapi.cpp):    *)
(* playback reads a file chunk by chunk, decodes each into pcm_buffer and  *)
(* writes whole periods to ALSA; capture reads CAPTURE frames, encodes     *)
(* them batch by batch and appends the result to the file.                 *)
(*                                                                         *)
(* Sound is a sequence of sample numbers, so what is lost, repeated or out *)
(* of order shows; one unit of a file is one sample, a frame is one sample *)
(* per channel.  An AAC file consists of frames of FRAME samples per       *)
(* channel, of which only whole ones can be decoded; AAC's arithmetic is   *)
(* left out.  G711 capture writes what G711 makes of the sound.            *)
(***************************************************************************)
EXTENDS XAudioOptions, G711

CONSTANTS
  MaxLen,    \* bound: samples in an input file
  Chunks,    \* how many samples main may read at once; AAC packs more into a byte
  FRAME,     \* samples per channel in an AAC frame
  Periods,   \* what ALSA may grant for period_size
  CAPTURE,   \* frames of one xaudio_capture
  BATCH,     \* frames the AAC encoder takes at once
  PCM,       \* samples pcm_buffer holds
  Sound,     \* the microphone's samples, and one for what is uninitialized
  MaxCaptured, \* bound: samples captured
  Xruns      \* the device may fail a transfer

Junk == MaxLen + MaxCaptured

ASSUME XAudioAssumption ==
  /\ {MaxLen, MaxCaptured, PCM} \subseteq Nat
  /\ {FRAME, CAPTURE, BATCH} \union Chunks \subseteq Nat \ {0}
  /\ Periods \subseteq Nat \ {0}
  /\ PCM % (2 * FRAME) = 0 /\ PCM >= CAPTURE
  /\ \A n \in Chunks : n % 2 = 0
  /\ Sound \in [0 .. Junk -> Linear]

VARIABLES
  len,         \* samples in the input file
  bufsz,       \* samples in a full chunk of it
  ready,       \* the AAC codec's setup succeeded
  dumping,     \* there is a dump file
  pos,         \* the next sample to read, from the file or the microphone
  period_size,
  pcm_buffer,  \* the samples in it; it is not cleared between calls
  num_frames,  \* how many frames the last decode is about
  batch,       \* the batch the device is at
  out,         \* what was played, or written to the captured file
  dumped,      \* what was dumped
  xrun,        \* history: a transfer failed
  last_chunk   \* readsz was below bufsz

line   == <<dump_file, words, second, asked>>
setup  == <<config, line, len, bufsz, ready, dumping>>
stream == <<pos, period_size, pcm_buffer, num_frames, batch, out, dumped, xrun,
            last_chunk>>
vars   == <<pc, setup, stream>>

\* The samples from .. to-1, and what new[] leaves in a buffer.
Samples(from, to) == [i \in 1 .. to - from |-> from + i - 1]

Uninitialized == [i \in 1 .. PCM |-> Junk]

\* buf after new has been written from index i on.
Overwrite(buf, i, new) == [j \in DOMAIN buf |->
  IF j \in i + 1 .. i + Len(new) THEN new[j - i] ELSE buf[j]]

Smaller(m, n) == IF m < n THEN m ELSE n

Init ==
  /\ OptionsInit
  /\ len = 0 /\ bufsz = 1 /\ ready = TRUE /\ dumping = FALSE
  /\ pos = 0 /\ period_size = 1
  /\ pcm_buffer = Uninitialized /\ num_frames = 0 /\ batch = 0
  /\ out = <<>> /\ dumped = <<>>
  /\ xrun = FALSE /\ last_chunk = FALSE

\* main's options, and what is in the file to play.
Options ==
  /\ OptionsNext
  /\ IF pc' = "start" /\ mode = "Playback"
       THEN len' \in 0 .. MaxLen /\ bufsz' \in Chunks
       ELSE UNCHANGED <<len, bufsz>>
  /\ UNCHANGED <<ready, dumping, stream>>

-----------------------------------------------------------------------------
\* AACCodec::open only logs a setup that fails; G711 has none.
CodecReady == IF codec = "AAC" THEN BOOLEAN ELSE {TRUE}

\* A dump file that cannot be opened is only logged, too.
MayDump == IF dump_file = None THEN {FALSE} ELSE BOOLEAN

\* xaudio_open: codec, device, dump file.  ALSA grants a period near the one
\* asked for.  A dump file is truncated: the one to be played has no samples
\* left.  Of the command line nothing is needed any more.
Open ==
  /\ pc = "start"
  /\ pc' = IF mode = "Playback" THEN "fread" ELSE "read"
  /\ ready' \in CodecReady /\ dumping' \in MayDump
  /\ len' = IF dumping' /\ dump_file = Input THEN 0 ELSE len
  /\ period_size' \in Periods
  /\ dump_file' = None /\ words' = 0 /\ second' = None /\ asked' = None
  /\ UNCHANGED <<config, bufsz, pos, pcm_buffer, num_frames, batch, out, dumped,
                 xrun, last_chunk>>

\* Any of the device's calls failing ends the process.
OpenFails ==
  /\ pc = "start" /\ pc' = "failed"
  /\ UNCHANGED <<setup, stream>>

-----------------------------------------------------------------------------
(* Playback.                                                               *)

\* The next frame boundary and the last one in a chunk.
Unit == FRAME * channels
FrameUp(n) == ((n + Unit - 1) \div Unit) * Unit
FrameDown(n) == (n \div Unit) * Unit

\* Mutant of Room: the fill level is tested before a frame is counted.
RoomForOneMore == FrameUp(PCM) + Unit

\* Frames are decoded until the buffer is full, tested after each one.
Room == FrameUp(PCM)

\* AACCodec::decode of the samples from .. to-1: a chunk that starts inside
\* a frame is an error or is skipped to the next one; what is left over at
\* its end is forgotten with the chunk; nothing is decoded without a setup.
Decoded(from, to) ==
  IF codec = "G711" THEN {Samples(from, to)}
  ELSE LET whole == Samples(FrameUp(from), Smaller(FrameDown(to), FrameUp(from) + Room))
       IN  IF ~ready THEN {<<>>}
           ELSE IF FrameUp(from) = from THEN {whole} ELSE {<<>>, whole}

\* Mutant of Fread: the end of the file is not looked for.
FreadNoEnd ==
  LET to == Smaller(pos + bufsz, len)
  IN  /\ pc = "fread" /\ pc' = "write"
      /\ codec = "G711" => to - pos <= PCM
      /\ last_chunk' = FALSE /\ pos' = to
      /\ \E d \in Decoded(pos, to) :
           pcm_buffer' = Overwrite(pcm_buffer, 0, d) /\ num_frames' = Len(d) \div channels
      /\ batch' = 0
      /\ UNCHANGED <<setup, period_size, out, dumped, xrun>>

\* fread of a chunk and its decode.  Nothing read skips xaudio_playback and
\* ends the loop.
Fread ==
  LET to == Smaller(pos + bufsz, len)
  IN  /\ pc = "fread"
      /\ last_chunk' = (to - pos < bufsz)
      /\ pos' = to
      /\ IF to = pos
           THEN pc' = "close" /\ UNCHANGED <<pcm_buffer, num_frames>>
           ELSE /\ codec = "G711" => to - pos <= PCM
                /\ pc' = "write"
                /\ \E d \in Decoded(pos, to) :
                     pcm_buffer' = Overwrite(pcm_buffer, 0, d) /\ num_frames' = Len(d) \div channels
      /\ batch' = 0
      /\ UNCHANGED <<setup, period_size, out, dumped, xrun>>

\* A G711 chunk larger than the buffer ends the process.
FreadTooMuch ==
  /\ pc = "fread" /\ codec = "G711" /\ Smaller(pos + bufsz, len) - pos > PCM
  /\ pc' = "failed"
  /\ UNCHANGED <<setup, pos, period_size, pcm_buffer, num_frames, batch, out,
                 dumped, xrun, last_chunk>>

\* Mutant of Batch: the offset counts one batch too many from the second on.
BatchOverlapping(n) ==
  LET o == IF n = 0 THEN 0 ELSE n * period_size * channels - 1
  IN  SubSeq(pcm_buffer, o + 1, o + period_size * channels)

\* The frames of batch n in pcm_buffer.
Batch(n) ==
  SubSeq(pcm_buffer, n * period_size * channels + 1, (n + 1) * period_size * channels)

\* Mutant of num_batches: one fewer.
num_batches_short == (num_frames - 1) \div period_size

\* AlsaDevice::write and read move whole periods only.
num_batches == num_frames \div period_size

\* One snd_pcm_writei of AlsaDevice::write.
Write ==
  /\ pc = "write" /\ batch < num_batches
  /\ out' = out \o Batch(batch)
  /\ batch' = batch + 1
  /\ UNCHANGED <<pc, setup, pos, period_size, pcm_buffer, num_frames, dumped,
                 xrun, last_chunk>>

\* It fails, is recovered and not tried again.
WriteFails ==
  /\ Xruns /\ pc = "write" /\ batch < num_batches
  /\ batch' = batch + 1 /\ xrun' = TRUE
  /\ UNCHANGED <<pc, setup, pos, period_size, pcm_buffer, num_frames, out,
                 dumped, last_chunk>>

\* Mutant of Dump: what the device did not take is not dumped.
DumpWritten ==
  /\ pc = "write" /\ batch = num_batches
  /\ dumped' = IF dumping THEN dumped \o SubSeq(pcm_buffer, 1, num_batches * period_size)
                          ELSE dumped
  /\ pc' = IF last_chunk THEN "close" ELSE "fread"
  /\ UNCHANGED <<setup, pos, period_size, pcm_buffer, num_frames, batch, out,
                 xrun, last_chunk>>

\* xaudio_playback dumps all it decoded; main reads on after a full chunk.
Dump ==
  /\ pc = "write" /\ batch = num_batches
  /\ dumped' = IF dumping THEN dumped \o SubSeq(pcm_buffer, 1, num_frames * channels)
                          ELSE dumped
  /\ pc' = IF last_chunk THEN "close" ELSE "fread"
  /\ UNCHANGED <<setup, pos, period_size, pcm_buffer, num_frames, batch, out,
                 xrun, last_chunk>>

-----------------------------------------------------------------------------
(* Capture, which goes on until the process is killed.                     *)

\* One snd_pcm_readi of AlsaDevice::read.
Read ==
  LET n == CAPTURE \div period_size
      new == Samples(pos, pos + period_size)
  IN  /\ pc = "read" /\ batch < n /\ pos + period_size <= MaxCaptured
      /\ pcm_buffer' = Overwrite(pcm_buffer, batch * period_size, new)
      /\ pos' = pos + period_size /\ batch' = batch + 1
      /\ UNCHANGED <<pc, setup, period_size, num_frames, out, dumped, xrun, last_chunk>>

\* It fails: the buffer keeps what an earlier capture left there.
ReadFails ==
  /\ Xruns /\ pc = "read" /\ batch < CAPTURE \div period_size
  /\ batch' = batch + 1 /\ xrun' = TRUE
  /\ UNCHANGED <<pc, setup, pos, period_size, pcm_buffer, num_frames, out,
                 dumped, last_chunk>>

\* Mutant of Encodable: frames taken for bytes.
EncodableHalf == CAPTURE \div 2

\* How much of a capture is written: the encoder takes whole batches, if it
\* works.  G711 codes every sample and divides their number by the channels
\* of -c, though the microphone has one.
Encodable ==
  CASE codec = "G711" -> CAPTURE \div channels
    [] ~ready         -> 0
    [] OTHER          -> (CAPTURE \div BATCH) * BATCH

\* A sample in the captured file.
Coded(n) == IF codec = "G711" THEN linear_to_ulaw(Sound[n]) ELSE n

\* encode, dump_file and the fwrite of main.
Encode ==
  LET e == [i \in 1 .. Encodable |-> Coded(pcm_buffer[i])]
  IN  /\ pc = "read" /\ batch = CAPTURE \div period_size
      /\ Len(out) + CAPTURE <= MaxCaptured
      /\ out' = out \o e
      /\ dumped' = IF dumping THEN dumped \o e ELSE dumped
      /\ batch' = 0
      /\ UNCHANGED <<pc, setup, pos, period_size, pcm_buffer, num_frames, xrun, last_chunk>>

-----------------------------------------------------------------------------
\* xaudio_close gives everything back.  The AAC codec frees the memory of the
\* encoder and of the decoder, of which only one was ever set: the other
\* pointer is whatever new left there.
Close ==
  /\ pc = "close"
  /\ pc' \in IF codec = "AAC" THEN {"closed", "crashed"} ELSE {"closed"}
  /\ UNCHANGED <<setup, pos, period_size, pcm_buffer, num_frames, batch, out,
                 dumped, xrun, last_chunk>>

Next ==
  \/ Options \/ Open \/ OpenFails
  \/ Fread \/ FreadTooMuch \/ Write \/ WriteFails \/ Dump
  \/ Read \/ ReadFails \/ Encode
  \/ Close

Spec == Init /\ [][Next]_vars /\ WF_vars(Next)

-----------------------------------------------------------------------------
(* Properties.                                                             *)

\* Stages, counters and buffers stay in their domains.
TypeOK ==
  /\ pc \in {"options", "start", "failed", "fread", "write", "read", "close", "closed",
            "crashed"}
  /\ mode \in {"Playback", "Capture"} /\ codec \in {"AAC", "G711"} /\ channels \in 1 .. 2
  /\ {dump_file, second} \subseteq Path \union {Input, Other, None}
  /\ asked \in Path \union {None} /\ words \in 0 .. 2
  /\ len \in 0 .. MaxLen /\ bufsz \in Chunks \union {1}
  /\ pos \in 0 .. Junk /\ period_size \in Periods \union {1}
  /\ pcm_buffer \in [1 .. PCM -> 0 .. Junk]
  /\ num_frames \in 0 .. PCM /\ batch \in 0 .. PCM
  /\ {ready, dumping, xrun, last_chunk} \subseteq BOOLEAN

\* What decode returns fits pcm_buffer, though the fill level is tested only
\* after a frame is written.
DecodedFits == num_frames * channels <= PCM

Increasing(s) == \A i \in 1 .. Len(s) - 1 : s[i] < s[i + 1]

\* No sample is played twice or out of order, whatever transfers fail
\* (the batch offsets of AlsaDevice::write, no retry after a recover).
PlayedInOrder == mode = "Playback" => Increasing(out)

\* Without failed transfers, a G711 playback loses samples at the end of a
\* chunk only, and less than a period of frames.
LostAtTailsOnly ==
  mode = "Playback" /\ codec = "G711" /\ ~xrun /\ pc \in {"fread", "close"} =>
    \A n \in 0 .. pos - 1 :
      LET end == Smaller((n \div bufsz + 1) * bufsz, len)
      IN  end - n >= period_size * channels => \E i \in DOMAIN out : out[i] = n

\* The dump file has all of a G711 file, whatever failed to be played, but
\* for an odd sample at the end of two channels.
DumpComplete ==
  mode = "Playback" /\ codec = "G711" /\ dumping /\ pc \in {"fread", "close"} =>
    dumped = Samples(0, (pos \div channels) * channels)

\* Nothing failed, and the period and the encoder's batches fit into a capture.
Undisturbed ==
  /\ ready /\ ~xrun
  /\ CAPTURE % period_size = 0
  /\ codec = "AAC" => CAPTURE % BATCH = 0

\* Then every captured sample is encoded, once and in order, unless -c said
\* there are two channels.
CapturedWhole ==
  mode = "Capture" /\ Undisturbed /\ batch = 0 /\ (codec = "AAC" \/ channels = 1) =>
    out = [i \in 1 .. pos |-> Coded(i - 1)]

\* And what is heard of a captured sample is the sample to half a step of its
\* segment, at the extremes of 16 bits too.
SoundKept ==
  mode = "Capture" /\ Undisturbed /\ codec = "G711" /\ channels = 1 =>
    \A i \in DOMAIN out :
      LET x == Sound[i - 1]
          error == ulaw_to_linear(out[i]) - x
      IN  -UlawHalfStep(x) <= error /\ error <= UlawHalfStep(x)

\* Playback ends: a chunk is played in finitely many steps, whatever fails,
\* and the file has an end, a multiple of bufsz or not.
PlaybackEnds ==
  pc = "start" /\ mode = "Playback" ~> pc \in {"closed", "crashed", "failed"}
=============================================================================

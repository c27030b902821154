----------------------------- MODULE XAudioOptions -----------------------------
(***************************************************************************)
(* The command line of xaudiotest (xaudio/main.cpp), up to xaudio_open.    *)
(* getopt_long moves the options in front of the files; afterwards argv[2] *)
(* becomes the name of the dump file, whatever it is.  Of the words only   *)
(* how many there were, up to two, and the second one are kept.  The exits *)
(* (a format or a number of channels there is none of, a path too long,    *)
(* the usage, no file or one that cannot be opened) are one action.        *)
(***************************************************************************)
EXTENDS Naturals, Sequences

CONSTANTS
  Path,   \* what -d may name
  Input,  \* the file to play or to capture into
  Other,  \* any other word
  None    \* no name

ASSUME OptionsAssumption ==
  /\ Input # Other /\ Input # None /\ Other # None
  /\ {Input, Other, None} \intersect Path = {}

VARIABLES
  pc,                     \* the stage of main
  mode, codec, channels,  \* what -P or -C, -f and -c have set
  dump_file,              \* config.dump_file
  words,                  \* words of options, 2 standing for more
  second,                 \* the second of them
  asked                   \* history: what -d named last

config == <<mode, codec, channels>>
options == <<pc, config, dump_file, words, second, asked>>

OptionsInit ==
  /\ pc = "options"
  /\ mode = "Playback" /\ codec = "AAC" /\ channels = 1
  /\ dump_file = None /\ words = 0 /\ second = None /\ asked = None

\* The words of an option are read.
Taken(ws) ==
  /\ pc = "options" /\ UNCHANGED pc
  /\ words' = IF words + Len(ws) < 2 THEN words + Len(ws) ELSE 2
  /\ second' = IF words < 2 /\ words + Len(ws) >= 2 THEN ws[2 - words] ELSE second

\* An option and its argument, in one word or in two.
AsWords(argument) == {<<Other>>, <<Other, argument>>}

SetMode ==
  /\ Taken(<<Other>>) /\ mode' \in {"Playback", "Capture"}
  /\ UNCHANGED <<codec, channels, dump_file, asked>>

SetFormat ==
  /\ \E ws \in AsWords(Other) : Taken(ws)
  /\ codec' \in {"AAC", "G711"}
  /\ UNCHANGED <<mode, channels, dump_file, asked>>

SetChannels ==
  /\ \E ws \in AsWords(Other) : Taken(ws)
  /\ channels' \in {1, 2}
  /\ UNCHANGED <<mode, codec, dump_file, asked>>

\* -r, which the device rounds anyway, and -v, which is about logging.
SetRateOrVerbose ==
  /\ \E ws \in AsWords(Other) : Taken(ws)
  /\ UNCHANGED <<config, dump_file, asked>>

SetDump ==
  \E p \in Path :
    /\ \E ws \in AsWords(p) : Taken(ws)
    /\ dump_file' = p /\ asked' = p
    /\ UNCHANGED config

Exit ==
  /\ pc = "options" /\ pc' = "failed"
  /\ UNCHANGED <<config, dump_file, words, second, asked>>

\* fopen of the file, then argv[2] if there is one: the second word of the
\* options, the file behind one word, or a second file behind none.
Fopen ==
  /\ pc = "options" /\ pc' = "start"
  /\ dump_file' \in CASE words = 0 -> {dump_file, Other}
                      [] words = 1 -> {Input}
                      [] OTHER     -> {second}
  /\ UNCHANGED <<config, words, second, asked>>

OptionsNext ==
  \/ SetMode \/ SetFormat \/ SetChannels \/ SetRateOrVerbose \/ SetDump
  \/ Exit \/ Fopen

OptionsSpec == OptionsInit /\ [][OptionsNext]_options

-----------------------------------------------------------------------------
\* The usage says "-d dump path of file to dump raw decoded pcm data to": the
\* path given last is the one xaudio_open gets, and none without -d.
DumpAsAsked == pc = "start" => dump_file = asked
=============================================================================

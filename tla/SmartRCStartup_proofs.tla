------------------------ MODULE SmartRCStartup_proofs ------------------------
(***************************************************************************)
(* The buffer that transfer_me_buf writes to is large enough, for every    *)
(* format the driver may report, any number of streams and any options.    *)
(***************************************************************************)
EXTENDS SmartRCStartup, SequenceTheorems, FiniteSetTheorems, WellFoundedInduction, TLAPS

LEMMA LinesAreRows ==
  ASSUME NEW c \in Codec, NEW h \in Nat \ {0}
  PROVE  /\ LinesWritten(c, h) = RoiUnits(c, h)
         /\ RoiUnits(c, h) \in Nat \ {0}
<1>1. CASE c = "H264"
  BY <1>1 DEF LinesWritten, RoiUnits, InUnits, RoundUp, Units, TransferRatio, Cell
<1>2. CASE c = "H265"
  BY <1>2 DEF LinesWritten, RoiUnits, InUnits, RoundUp, Units, TransferRatio, Cell
<1> QED BY <1>1, <1>2 DEF Codec

LEMMA ColumnsFit ==
  ASSUME NEW c \in Codec, NEW w \in Nat \ {0}, NEW p \in Nat,
         p % 16 = 0, p >= InUnits(w)
  PROVE  /\ ColumnsWritten(c, w) <= PitchOut(c, p)
         /\ ColumnsWritten(c, w) \in Nat /\ PitchOut(c, p) \in Nat
<1>1. CASE c = "H264"
  BY <1>1 DEF ColumnsWritten, PitchOut, InUnits, RoundUp, Units, TransferRatio
<1>2. CASE c = "H265"
  BY <1>2 DEF ColumnsWritten, PitchOut, InUnits, RoundUp, Units, TransferRatio
<1> QED BY <1>1, <1>2 DEF Codec

\* The two together: rows times pitch is enough, for the pitch it was
\* allocated for and for the zero pitch of a query that failed.
LEMMA MeBufferSuffices ==
  ASSUME NEW c \in Codec, NEW w \in Nat \ {0}, NEW h \in Nat \ {0},
         NEW p \in Nat, p % 16 = 0, p >= InUnits(w),
         NEW q \in {p, 0}
  PROVE  LastWritten(c, w, h, q) < MeBufSize(c, h, p)
<1> DEFINE L == LinesWritten(c, h)
           C == ColumnsWritten(c, w)
           P == PitchOut(c, p)
           Q == PitchOut(c, q)
<1>1. L = RoiUnits(c, h) /\ L \in Nat \ {0}
  BY LinesAreRows
<1>2. C <= P /\ C \in Nat /\ P \in Nat
  BY ColumnsFit
<1>3. Q = P \/ Q = 0
  <2>1. CASE q = p
    BY <2>1
  <2>2. CASE q = 0
    BY <2>2 DEF Codec, PitchOut, Units, TransferRatio
  <2> QED BY <2>1, <2>2
<1>4. (L - 1) * Q + C - 1 < P * L
  <2> HIDE DEF L, C, P, Q
  <2>1. (L - 1) * P + P = P * L /\ (L - 1) * P \in Nat
    BY <1>1, <1>2
  <2>2. (L - 1) * Q <= (L - 1) * P
    <3>1. CASE Q = P
      BY <3>1, <2>1
    <3>2. CASE Q = 0
      <4>1. (L - 1) * Q = 0
        BY <3>2, <1>1
      <4> QED BY <4>1, <2>1
    <3> QED BY <3>1, <3>2, <1>3
  <2>3. (L - 1) * Q \in Int
    BY <1>1, <1>2, <1>3
  <2> QED BY <2>1, <2>2, <2>3, <1>1, <1>2
<1> QED
  BY <1>1, <1>4 DEF LastWritten, MeBufSize

LEMMA MatrixSuffices ==
  ASSUME NEW c \in Codec, NEW w \in Nat \ {0}, NEW h \in Nat \ {0}
  PROVE  /\ VcaCells(c, w, h) = RoiUnits(c, w) * RoiUnits(c, h)
         /\ MatWritten(RoiUnits(c, w), RoiUnits(c, h))
              <= MatSize(RoiUnits(c, w), RoiUnits(c, h))
<1> DEFINE R(x) == RoiUnits(c, x)
<1>1. \A x \in Nat \ {0} : Units(RoundUp(x, Cell(c)), Cell(c)) = R(x)
  BY DEF Codec, RoiUnits, RoundUp, Units, Cell
<1>2. R(w) \in Nat /\ R(h) \in Nat
  BY LinesAreRows
<1>3. VcaCells(c, w, h) = R(w) * R(h)
  BY <1>1 DEF VcaCells
<1>4. R(h) * (R(w) + 1) + 1 <= (R(w) + 1) * (R(h) + 1)
  <2> HIDE DEF R
  <2>1. \A a, b \in Nat : b * (a + 1) + 1 <= (a + 1) * (b + 1)
    OBVIOUS
  <2> QED BY <2>1, <1>2
<1> QED
  BY <1>3, <1>4 DEF MatWritten, MatSize

-----------------------------------------------------------------------------
\* What is kept for a stream is what one of the formats gives.
CfgsSet ==
  \A s \in Stream : g_enc_cfg[s] # <<>> => \E f \in Formats : g_enc_cfg[s] = EncCfg(f)

LEMMA CfgsSetInit == Init => CfgsSet
BY DEF Init, CfgsSet

LEMMA CfgsSetNext == CfgsSet /\ [Next]_vars => CfgsSet'
<1> SUFFICES ASSUME CfgsSet, [Next]_vars PROVE CfgsSet'
  OBVIOUS
<1>1. CASE UNCHANGED g_enc_cfg
  BY <1>1 DEF CfgsSet
<1>2. ASSUME NEW t \in Stream, NEW f \in Formats, NEW ok \in SUBSET Setting,
             InitStream(t, f, ok)
      PROVE  CfgsSet'
  <2>1. g_enc_cfg' = [g_enc_cfg EXCEPT ![t] = EncCfg(f)]
    BY <1>2 DEF InitStream
  <2>2. ASSUME NEW s \in Stream, g_enc_cfg'[s] # <<>>
        PROVE  \E e \in Formats : g_enc_cfg'[s] = EncCfg(e)
    <3>1. CASE g_enc_cfg'[s] = g_enc_cfg[s]
      BY <3>1, <2>2 DEF CfgsSet
    <3>2. CASE g_enc_cfg'[s] = EncCfg(f)
      BY <3>2
    <3> QED BY <2>1, <3>1, <3>2
  <2> QED BY <2>2 DEF CfgsSet
<1> QED
  BY <1>1, <1>2 DEF Next, vars, SwitchStream, TakeOption, RefuseOption, Read,
     StartInit, Run, InitFails, setupVars

\* The formats, and so what is set up, satisfy what the lemmas assume.
LEMMA FormatFacts ==
  ASSUME NEW f \in Formats
  PROVE  LET e == EncCfg(f)
         IN  /\ e.codec \in Codec
             /\ e.width \in Nat \ {0} /\ e.height \in Nat \ {0}
             /\ e.pitch \in Nat /\ e.pitch % 16 = 0 /\ e.pitch >= InUnits(e.width)
             /\ e.roi_width = RoiUnits(e.codec, e.width)
             /\ e.roi_height = RoiUnits(e.codec, e.height)
             /\ e.me_size = MeBufSize(e.codec, e.height, e.pitch)
             /\ e.mat_size = MatSize(e.roi_width, e.roi_height)
BY StartupAssumption DEF EncCfg

\* transfer_me_buf never writes past the end of a stream's me_buf.
THEOREM MeBufferIsSafe == Spec => []MeBufferHolds
<1>1. CfgsSet => MeBufferHolds
  <2> SUFFICES ASSUME CfgsSet, NEW s \in Stream, g_enc_cfg[s] # <<>>,
                      NEW pitch \in {g_enc_cfg[s].pitch, 0}
               PROVE  LastWritten(g_enc_cfg[s].codec, g_enc_cfg[s].width,
                                  g_enc_cfg[s].height, pitch) < g_enc_cfg[s].me_size
    BY DEF MeBufferHolds
  <2>1. PICK f \in Formats : g_enc_cfg[s] = EncCfg(f)
    BY DEF CfgsSet
  <2> QED BY <2>1, FormatFacts, MeBufferSuffices
<1> QED
  BY <1>1, CfgsSetInit, CfgsSetNext, PTL DEF Spec

\* Nor does dump_mot_mat write past the end of its buffer, or do_vca_on_yuv
\* read past the end of the motion matrix.
THEOREM MatrixIsSafe == Spec => []MatrixWalked
<1>1. CfgsSet => MatrixWalked
  <2> SUFFICES ASSUME CfgsSet, NEW s \in Stream, g_enc_cfg[s] # <<>>
               PROVE  LET e == g_enc_cfg[s]
                      IN  /\ VcaCells(e.codec, e.width, e.height)
                               = e.roi_width * e.roi_height
                          /\ MatWritten(e.roi_width, e.roi_height) <= e.mat_size
    BY DEF MatrixWalked
  <2>1. PICK f \in Formats : g_enc_cfg[s] = EncCfg(f)
    BY DEF CfgsSet
  <2> QED BY <2>1, FormatFacts, MatrixSuffices
<1> QED
  BY <1>1, CfgsSetInit, CfgsSetNext, PTL DEF Spec
-----------------------------------------------------------------------------
\* What init_param takes from the command line.
Item == ({"switch"} \X Stream) \union (Option \X Value)

\* A set of natural numbers has a smallest one.
LEMMA MinIsSmallest ==
  ASSUME NEW S, S \subseteq Nat, S # {}
  PROVE  Min(S) \in S /\ \A k \in S : Min(S) <= k
<1> DEFINE below == {p \in Nat \X Nat : p[1] < p[2]}
<1>1. IsWellFoundedOn(below, Nat)
  BY NatLessThanWellFounded DEF OpToRel
<1>2. PICK m \in S : \A k \in S : <<k, m>> \notin below
  <2> HIDE DEF below
  <2> QED BY <1>1, WFMin
<1>3. m \in S /\ \A k \in S : m <= k
  <2>1. \A k \in S : k < m => <<k, m>> \in below
    OBVIOUS
  <2> HIDE DEF below
  <2>2. \A k \in S : ~(k < m)
    BY <2>1, <1>2
  <2> QED BY <2>2
<1> QED BY <1>3 DEF Min

\* Without a gap to infinity it has a largest one: the one nearest to n.
LEMMA MaxIsLargest ==
  ASSUME NEW n \in Nat, NEW S, S \subseteq 0 .. n, S # {}
  PROVE  Max(S) \in S /\ \A k \in S : k <= Max(S)
<1> DEFINE T == {d \in Nat : \E k \in S : d = n - k}
<1>1. \A k \in S : n - k \in T
  OBVIOUS
<1>2. T \subseteq Nat /\ T # {}
  BY <1>1
<1>3. PICK t \in T : \A u \in T : t <= u
  <2> HIDE DEF T
  <2> QED BY <1>2, MinIsSmallest
<1>4. PICK m \in S : t = n - m
  BY <1>3
<1>5. ASSUME NEW k \in S PROVE k <= m
  <2>1. n - m <= n - k
    BY <1>1, <1>3, <1>4
  <2> QED BY <2>1
<1>6. m \in S /\ \A k \in S : m >= k
  BY <1>5
<1> QED BY <1>6 DEF Max

\* And that is the one nothing is larger than.
LEMMA LargestIsMax ==
  ASSUME NEW S, S \subseteq Int, NEW m \in S, \A k \in S : k <= m
  PROVE  Max(S) = m
<1>1. \A i \in S : (\A k \in S : i >= k) => i = m
  OBVIOUS
<1> DEFINE c == CHOOSE i \in S : \A k \in S : i >= k
<1>2. c \in S /\ \A k \in S : c >= k
  OBVIOUS
<1> QED BY <1>1, <1>2 DEF Max

\* One more item leaves the others where they are.
LEMMA OneMoreItem ==
  ASSUME NEW s \in Seq(Item), NEW x \in Item
  PROVE  /\ Append(s, x) \in Seq(Item)
         /\ Len(s) \in Nat /\ Len(Append(s, x)) = Len(s) + 1
         /\ DOMAIN s = 1 .. Len(s) /\ DOMAIN Append(s, x) = 1 .. Len(s) + 1
         /\ \A j \in 1 .. Len(s) : Append(s, x)[j] = s[j]
         /\ Append(s, x)[Len(s) + 1] = x
<1>1. Append(s, x) \in Seq(Item)
  OBVIOUS
<1> QED BY <1>1, LenProperties, AppendProperties

\* The context of an option is what was read before it.
LEMMA ContextKept ==
  ASSUME argv \in Seq(Item), NEW x \in Item, argv' = Append(argv, x),
         NEW i \in 1 .. Len(argv) + 1
  PROVE  Context(i)' = Context(i)
<1> DEFINE sw == {j \in 1 .. i - 1 : argv[j][1] = "switch"}
<1>1. Len(argv) \in Nat /\ \A j \in 1 .. i - 1 : argv'[j] = argv[j]
  BY OneMoreItem
<1>2. {j \in 1 .. i - 1 : argv'[j][1] = "switch"} = sw
  BY <1>1
<1>3. ASSUME sw # {} PROVE argv'[Max(sw)] = argv[Max(sw)]
  <2>1. i - 1 \in Nat /\ sw \subseteq 0 .. i - 1
    BY <1>1
  <2>2. Max(sw) \in sw
    <3> HIDE DEF sw
    <3> QED BY <2>1, <1>3, MaxIsLargest
  <2> QED BY <1>1, <2>2
<1>4. /\ Context(i) = IF sw = {} THEN NoStream ELSE argv[Max(sw)][2]
      /\ Context(i)' = IF sw = {} THEN NoStream ELSE argv'[Max(sw)][2]
  BY <1>2, Zenon DEF Context
<1> HIDE DEF sw
<1>5. CASE sw = {}
  BY <1>4, <1>5, Zenon
<1>6. CASE sw # {}
  BY <1>3, <1>4, <1>6, Zenon
<1> QED BY <1>5, <1>6

\* A switch is the context of what comes next.
LEMMA ContextNow ==
  ASSUME argv \in Seq(Item), NEW x \in Item, argv' = Append(argv, x),
         NEW n \in Nat, n = Len(argv)
  PROVE  Context(n + 2)' = IF x[1] = "switch" THEN x[2] ELSE Context(n + 1)
<1> DEFINE sw  == {j \in 1 .. n : argv[j][1] = "switch"}
           swn == {j \in 1 .. n + 1 : argv'[j][1] = "switch"}
<1>1. /\ \A j \in 1 .. n : argv'[j] = argv[j]
      /\ argv'[n + 1] = x
  BY OneMoreItem
<1>2. /\ Context(n + 1) = IF sw = {} THEN NoStream ELSE argv[Max(sw)][2]
      /\ Context(n + 2)' = IF swn = {} THEN NoStream ELSE argv'[Max(swn)][2]
  <2>1. (n + 1) - 1 = n /\ (n + 2) - 1 = n + 1
    OBVIOUS
  <2> QED BY <2>1 DEF Context
<1>3. CASE x[1] = "switch"
  <2>1. n + 1 \in swn /\ swn \subseteq Int /\ \A k \in swn : k <= n + 1
    BY <1>1, <1>3
  <2>2. Max(swn) = n + 1
    <3> HIDE DEF swn
    <3> QED BY <2>1, LargestIsMax
  <2>3. swn # {}
    BY <2>1
  <2> HIDE DEF swn
  <2> QED BY <1>1, <1>2, <1>3, <2>2, <2>3
<1>4. CASE x[1] # "switch"
  <2>1. swn = sw
    BY <1>1, <1>4
  <2>2. ASSUME sw # {} PROVE argv'[Max(sw)] = argv[Max(sw)]
    <3>1. sw \subseteq 0 .. n
      OBVIOUS
    <3>2. Max(sw) \in sw
      <4> HIDE DEF sw
      <4> QED BY <3>1, <2>2, MaxIsLargest
    <3> QED BY <1>1, <3>2
  <2> HIDE DEF sw, swn
  <2>3. CASE sw = {}
    BY <1>2, <1>4, <2>1, <2>3, Zenon
  <2>4. CASE sw # {}
    BY <1>2, <1>4, <2>1, <2>2, <2>4, Zenon
  <2> QED BY <2>3, <2>4
<1> QED BY <1>3, <1>4

\* What was said last is what is said now, if it is about the same thing.
LEMMA LastSaidNow ==
  ASSUME argv \in Seq(Item), NEW x \in Item, argv' = Append(argv, x),
         NEW n \in Nat, n = Len(argv), NEW o, NEW s
  PROVE  LastSaid(o, s)' = IF x[1] = o /\ (o \in Global \/ Context(n + 1) = s)
                             THEN x[2] ELSE LastSaid(o, s)
<1> DEFINE about(c) == o \in Global \/ c = s
           said  == {i \in DOMAIN argv : argv[i][1] = o /\ about(Context(i))}
           saidn == {i \in DOMAIN argv' : argv'[i][1] = o /\ about(Context(i)')}
<1>1. /\ \A j \in 1 .. n : argv'[j] = argv[j]
      /\ argv'[n + 1] = x
      /\ DOMAIN argv = 1 .. n /\ DOMAIN argv' = 1 .. n + 1
  BY OneMoreItem
<1>2. \A i \in 1 .. n + 1 : Context(i)' = Context(i)
  BY ContextKept
<1>3. /\ LastSaid(o, s) = IF said = {} THEN Unset ELSE argv[Max(said)][2]
      /\ LastSaid(o, s)' = IF saidn = {} THEN Unset ELSE argv'[Max(saidn)][2]
  BY Zenon DEF LastSaid
<1>4. /\ said \subseteq 1 .. n
      /\ saidn = {i \in 1 .. n : argv[i][1] = o /\ about(Context(i))}
                 \union {i \in {n + 1} : x[1] = o /\ about(Context(n + 1))}
  BY <1>1, <1>2
<1>5. said = {i \in 1 .. n : argv[i][1] = o /\ about(Context(i))}
  BY <1>1
<1>6. CASE x[1] = o /\ about(Context(n + 1))
  <2>1. n + 1 \in saidn /\ saidn \subseteq Int /\ \A k \in saidn : k <= n + 1
    BY <1>4, <1>6
  <2>2. Max(saidn) = n + 1
    <3> HIDE DEF saidn
    <3> QED BY <2>1, LargestIsMax
  <2>3. saidn # {}
    BY <2>1
  <2> HIDE DEF saidn
  <2> QED BY <1>1, <1>3, <1>6, <2>2, <2>3
<1>7. CASE ~(x[1] = o /\ about(Context(n + 1)))
  <2>1. saidn = said
    BY <1>4, <1>5, <1>7
  <2>2. ASSUME said # {} PROVE argv'[Max(said)] = argv[Max(said)]
    <3>1. said \subseteq 0 .. n
      BY <1>4
    <3>2. Max(said) \in said
      <4> HIDE DEF said
      <4> QED BY <3>1, <2>2, MaxIsLargest
    <3>3. Max(said) \in 1 .. n
      BY <1>4, <3>2
    <3> QED BY <1>1, <3>3
  <2> HIDE DEF said, saidn
  <2>3. CASE said = {}
    BY <1>3, <1>7, <2>1, <2>3, Zenon
  <2>4. CASE said # {}
    BY <1>3, <1>7, <2>1, <2>2, <2>4, Zenon
  <2> QED BY <2>3, <2>4
<1> QED BY <1>6, <1>7
-----------------------------------------------------------------------------
\* Where a value of option o may be kept.
Place(o) == IF o \in Global THEN {All} ELSE Stream

\* What init_param knows of what it has read: the stream it is at, and the
\* last value of every option for every stream.
Said ==
  /\ argv \in Seq(Item)
  /\ stream_selection \subseteq Stream
  /\ current_stream_id \in stream_selection \union {NoStream}
  /\ \A i \in Nat : i = Len(argv) + 1 => current_stream_id = Context(i)
  /\ smartrc_params \in [Option -> [Stream \union {All} -> Value \union {Unset}]]
  /\ \A o \in Option : \A s \in Place(o) : smartrc_params[o][s] = LastSaid(o, s)
  /\ \A o \in StreamOption : \A s \in Stream \ stream_selection :
       smartrc_params[o][s] = Unset

SaidInv == pc # "ended" => Said

\* The options by kind.
LEMMA Options ==
  /\ \A o \in Global : o \in Option /\ o \notin StreamOption /\ o \notin Setting /\ o # Gap
  /\ \A o \in StreamOption : o \in Option /\ o \notin Global
  /\ \A o \in Setting : o \in StreamOption /\ o # Gap
  /\ Gap \in StreamOption
  /\ \A o \in Option : o \in StreamOption \/ o \in Global
BY OptionAssumption DEF Option, StreamOption

\* Without a new option everything is as it was said before.
LEMMA SaidKept ==
  ASSUME argv' = argv
  PROVE  /\ \A i : Context(i)' = Context(i)
         /\ \A o, s : LastSaid(o, s)' = LastSaid(o, s)
<1>1. \A i : Context(i)' = Context(i)
  BY DEF Context
<1> QED BY <1>1 DEF LastSaid

LEMMA SaidInvInit == Init => SaidInv
<1> SUFFICES ASSUME Init PROVE Said
  BY DEF SaidInv
<1>1. argv = <<>> /\ argv \in Seq(Item) /\ Len(argv) = 0 /\ DOMAIN argv = {}
  BY DEF Init
<1>2. \A i \in Nat : i = Len(argv) + 1 => Context(i) = NoStream
  BY <1>1 DEF Context
<1>3. \A o, s : LastSaid(o, s) = Unset
  BY <1>1 DEF LastSaid
<1>4. \A o \in Option : Place(o) \subseteq Stream \union {All}
  BY DEF Place
<1>5. /\ smartrc_params \in [Option -> [Stream \union {All} -> Value \union {Unset}]]
      /\ \A o \in Option : \A s \in Stream \union {All} : smartrc_params[o][s] = Unset
  BY DEF Init
<1> QED BY <1>1, <1>2, <1>3, <1>4, <1>5, Options DEF Init, Said

\* A switch changes the context and nothing that was said.
LEMMA SwitchKeepsSaid ==
  ASSUME Said, NEW s \in Switch, SwitchStream(s)
  PROVE  Said'
<1> DEFINE x == <<"switch", s>>
           n == Len(argv)
<1>1. x \in Item /\ s \in Stream
  BY StartupAssumption DEF Item, Stream
<1>2. /\ argv \in Seq(Item) /\ argv' = Append(argv, x) /\ n \in Nat
      /\ argv' \in Seq(Item) /\ Len(argv') = n + 1
  BY <1>1, OneMoreItem DEF Said, SwitchStream, Read
<1>3. x[1] = "switch" /\ x[2] = s /\ \A o \in Option : x[1] # o
  BY OptionAssumption
<1>4. PICK m \in Nat : m = n
  BY <1>2
<1> HIDE DEF x, n
<1>5. \A i \in Nat : i = Len(argv') + 1 => current_stream_id' = Context(i)'
  <2>1. Context(m + 2)' = s
    BY <1>1, <1>2, <1>3, <1>4, ContextNow DEF n
  <2>2. Len(argv') + 1 = m + 2
    BY <1>2, <1>4
  <2> QED BY <2>1, <2>2 DEF SwitchStream
<1>6. \A o \in Option : \A t : LastSaid(o, t)' = LastSaid(o, t)
  BY <1>1, <1>2, <1>3, <1>4, LastSaidNow DEF n
<1> QED
  BY <1>1, <1>2, <1>5, <1>6 DEF Said, SwitchStream

\* An option goes where it is said for.
LEMMA TakeKeepsSaid ==
  ASSUME Said, NEW p \in Option, NEW v \in Value \union {Bad}, TakeOption(p, v)
  PROVE  Said'
<1> DEFINE x == <<p, v>>
           n == Len(argv)
<1>1. v \in Value /\ x \in Item /\ x[1] = p /\ x[2] = v /\ x[1] # "switch"
  BY OptionAssumption DEF TakeOption, Accepted, Item
<1>2. /\ argv \in Seq(Item) /\ argv' = Append(argv, x) /\ n \in Nat
      /\ argv' \in Seq(Item) /\ Len(argv') = n + 1
  BY <1>1, OneMoreItem DEF Said, TakeOption, Read
<1>3. PICK m \in Nat : m = n
  BY <1>2
<1> HIDE DEF x, n
<1>4. current_stream_id = Context(m + 1)
  BY <1>3 DEF Said, n
<1>5. \A i \in Nat : i = Len(argv') + 1 => current_stream_id' = Context(i)'
  <2>1. Context(m + 2)' = Context(m + 1)
    BY <1>1, <1>2, <1>3, ContextNow DEF n
  <2>2. Len(argv') + 1 = m + 2
    BY <1>2, <1>3
  <2> QED BY <2>1, <2>2, <1>4 DEF TakeOption
<1>6. ASSUME NEW o, NEW s
      PROVE  LastSaid(o, s)' = IF p = o /\ (o \in Global \/ current_stream_id = s)
                                 THEN v ELSE LastSaid(o, s)
  BY <1>1, <1>2, <1>3, <1>4, LastSaidNow DEF n
<1>7. Slot(p) \in Place(p) /\ Slot(p) \in Stream \union {All}
  BY Options DEF TakeOption, Accepted, Slot, Place, Said
<1>8. /\ smartrc_params' \in [Option -> [Stream \union {All} -> Value \union {Unset}]]
      /\ \A o \in Option, s \in Stream \union {All} :
           smartrc_params'[o][s] = IF o = p /\ s = Slot(p) THEN v ELSE smartrc_params[o][s]
  BY <1>1, <1>7 DEF TakeOption, Said
<1>9. ASSUME NEW o \in Option, NEW s \in Place(o)
      PROVE  smartrc_params'[o][s] = LastSaid(o, s)'
  <2>1. s \in Stream \union {All} /\ (s = Slot(o) <=> o \in Global \/ current_stream_id = s)
    BY DEF Place, Slot
  <2>2. smartrc_params[o][s] = LastSaid(o, s)
    BY DEF Said
  <2> QED BY <2>1, <2>2, <1>6, <1>8
<1>10. ASSUME NEW o \in StreamOption, NEW s \in Stream \ stream_selection
       PROVE  smartrc_params'[o][s] = Unset
  <2>1. ~(o = p /\ s = Slot(p))
    BY Options DEF Slot, Said, TakeOption, Accepted
  <2> QED BY <2>1, <1>8, Options DEF Said
<1> QED
  BY <1>2, <1>5, <1>8, <1>9, <1>10 DEF Said, TakeOption

LEMMA SaidInvNext == SaidInv /\ [Next]_vars => SaidInv'
<1> SUFFICES ASSUME SaidInv, [Next]_vars, pc' # "ended" PROVE Said'
  BY DEF SaidInv
<1>1. ASSUME pc # "ended", UNCHANGED optionVars PROVE Said'
  BY <1>1, SaidKept DEF optionVars, SaidInv, Said
<1>2. ASSUME NEW s \in Switch, SwitchStream(s) PROVE Said'
  BY <1>2, SwitchKeepsSaid DEF SaidInv, SwitchStream, Read
<1>3. ASSUME NEW o \in Option, NEW v \in Value \union {Bad},
             TakeOption(o, v) \/ RefuseOption(o, v)
      PROVE  Said'
  BY <1>3, TakeKeepsSaid DEF SaidInv, TakeOption, RefuseOption, Read
<1>4. CASE UNCHANGED vars
  BY <1>1, <1>4 DEF vars, optionVars
<1>5. ASSUME NEW ok, StartInit(ok) PROVE Said'
  BY <1>1, <1>5 DEF StartInit
<1>6. ASSUME NEW s \in Stream, NEW f \in Formats, NEW ok, InitStream(s, f, ok) PROVE Said'
  BY <1>1, <1>6 DEF InitStream
<1>7. CASE Run \/ InitFails
  BY <1>1, <1>7 DEF Run, InitFails
<1> QED BY <1>2, <1>3, <1>4, <1>5, <1>6, <1>7 DEF Next
-----------------------------------------------------------------------------
\* What init_smartrc_lib has handed over: all that was said for the streams it
\* has been at and for none in particular, and nothing for the others.
HandedTypes ==
  /\ cur \in 0 .. 5 /\ failed \subseteq Option \X (Stream \union {All})
  /\ lib \in [Option -> [Stream \union {All} -> Value \union {0, Unset}]]
  /\ bitrate_gap_adj \in Value \union {0}
  /\ pc \in {"options", "init", "running"}
  /\ pc # "options" => cur \in stream_selection \union {5}
  /\ pc = "running" => cur = 5

HandedNothing ==
  pc = "options" => /\ cur = 0 /\ failed = {}
                    /\ \A o \in Option : \A s \in Stream \union {All} : lib[o][s] = Unset

HandedGlobal ==
  pc # "options" =>
    \A o \in Global :
      lib[o][All] = IF <<o, All>> \in failed THEN Unset ELSE smartrc_params[o][All]

HandedSetting ==
  \A o \in Setting : \A s \in Stream :
    /\ s < cur => lib[o][s] = IF <<o, s>> \in failed THEN Unset ELSE smartrc_params[o][s]
    /\ s >= cur => lib[o][s] = Unset /\ <<o, s>> \notin failed

Handed == HandedTypes /\ HandedNothing /\ HandedGlobal /\ HandedSetting

HandedInv == SaidInv /\ (pc # "ended" => Handed)

\* The loop skips the streams that were not selected.
LEMMA NextIsSelected ==
  ASSUME stream_selection \subseteq Stream, NEW i \in 0 .. 5
  PROVE  /\ NextSelected(i) \in stream_selection \union {5}
         /\ NextSelected(i) \in i .. 5
         /\ \A m \in Stream : i <= m /\ m < NextSelected(i) => m \notin stream_selection
<1> DEFINE S == (stream_selection \intersect i .. 4) \union {5}
<1>1. S \subseteq Nat /\ S # {}
  BY DEF Stream
<1>2. Min(S) \in S /\ \A k \in S : Min(S) <= k
  <2> HIDE DEF S
  <2> QED BY <1>1, MinIsSmallest
<1>3. NextSelected(i) = Min(S)
  BY DEF NextSelected
<1> QED BY <1>2, <1>3 DEF Stream

LEMMA HandedInit == Init => Handed
<1> SUFFICES ASSUME Init PROVE Handed
  OBVIOUS
<1>1. /\ lib \in [Option -> [Stream \union {All} -> Value \union {0, Unset}]]
      /\ \A o \in Option : \A s \in Stream \union {All} : lib[o][s] = Unset
  BY DEF Init
<1>2. cur = 0 /\ failed = {} /\ pc = "options"
  BY DEF Init
<1>3. bitrate_gap_adj = 0
  BY DEF Init
<1> QED
  BY <1>1, <1>2, <1>3, Options
     DEF Handed, HandedTypes, HandedNothing, HandedGlobal, HandedSetting, Stream

LEMMA StartHands ==
  ASSUME Said, Handed, NEW ok \in SUBSET Global, StartInit(ok)
  PROVE  Handed'
<1> DEFINE given == {o \in Global : Given(o, All)}
<1>1. /\ pc = "options" /\ pc' = "init" /\ cur = 0 /\ failed = {}
      /\ cur' = NextSelected(0) /\ failed' = (given \ ok) \X {All}
      /\ UNCHANGED <<stream_selection, smartrc_params, bitrate_gap_adj>>
  BY DEF StartInit, Handed, HandedNothing, optionVars
<1>2. /\ cur' \in stream_selection \union {5} /\ cur' \in 0 .. 5
      /\ \A m \in Stream : m < cur' => m \notin stream_selection
  BY <1>1, NextIsSelected DEF Said, Stream
<1>3. \A o \in Option : \A s \in Stream \union {All} : lib[o][s] = Unset
  BY <1>1 DEF Handed, HandedNothing
<1>4. lib' = [o \in Option |-> IF o \in given \intersect ok
                THEN [lib[o] EXCEPT ![All] = smartrc_params[o][All]] ELSE lib[o]]
  BY DEF StartInit
<1>5. /\ \A o \in given \intersect ok : lib'[o][All] = smartrc_params[o][All]
      /\ \A o \in Option, s \in Stream \union {All} :
           o \notin given \intersect ok \/ s # All => lib'[o][s] = Unset
      /\ lib' \in [Option -> [Stream \union {All} -> Value \union {0, Unset}]]
  <2>1. given \intersect ok \subseteq Option /\ All \in Stream \union {All}
    BY Options
  <2>2. \A o \in Option : smartrc_params[o][All] \in Value \union {0, Unset}
    BY DEF Said
  <2>3. lib \in [Option -> [Stream \union {All} -> Value \union {0, Unset}]]
    BY DEF Handed, HandedTypes
  <2> HIDE DEF given
  <2> QED BY <2>1, <2>2, <2>3, <1>3, <1>4
<1>6. ASSUME NEW o \in Global
      PROVE  lib'[o][All] = IF <<o, All>> \in failed' THEN Unset ELSE smartrc_params[o][All]
  <2>1. <<o, All>> \in failed' <=> o \in given \ ok
    BY <1>1
  <2>2. o \in given <=> smartrc_params[o][All] # Unset
    BY DEF Given
  <2>3. o \in Option /\ All \in Stream \union {All}
    BY Options
  <2> HIDE DEF given
  <2> QED BY <2>1, <2>2, <2>3, <1>5
<1>7. ASSUME NEW o \in Setting, NEW s \in Stream
      PROVE  /\ lib'[o][s] = Unset /\ <<o, s>> \notin failed'
             /\ s < cur' => smartrc_params[o][s] = Unset
  <2>1. s # All /\ o \in Option /\ o \in StreamOption
    BY Options DEF Stream, All, NoStream
  <2>2. <<o, s>> \notin failed'
    BY <1>1, <2>1
  <2> HIDE DEF given
  <2> QED BY <2>1, <2>2, <1>2, <1>5 DEF Said
<1>8. failed' \subseteq Option \X (Stream \union {All})
  BY <1>1, Options
<1> HIDE DEF given
<1> QED
  BY <1>1, <1>2, <1>5, <1>6, <1>7, <1>8
     DEF Handed, HandedTypes, HandedNothing, HandedGlobal, HandedSetting

LEMMA StreamHands ==
  ASSUME Said, Handed, NEW t \in Stream, NEW f \in Formats, NEW ok \in SUBSET Setting,
         InitStream(t, f, ok)
  PROVE  Handed'
<1> DEFINE gap == GapFor(t)
           refused == {o \in Setting \ ok : Given(o, t)}
<1>1. /\ pc = "init" /\ cur = t /\ cur' = NextSelected(t + 1)
      /\ failed' = failed \union (refused \X {t})
      /\ UNCHANGED <<pc, stream_selection, smartrc_params>>
  BY DEF InitStream, optionVars
<1>2. /\ cur' \in stream_selection \union {5} /\ cur' \in t + 1 .. 5
      /\ \A m \in Stream : t + 1 <= m /\ m < cur' => m \notin stream_selection
  BY <1>1, NextIsSelected DEF Said, Stream
<1>3. gap \in Value \union {0} /\ bitrate_gap_adj' = gap
  BY Options, OptionAssumption
     DEF GapFor, Given, Said, Handed, HandedTypes, InitStream
<1>4. lib' = [o \in Option |->
                IF o = Gap THEN [lib[o] EXCEPT ![t] = gap]
                ELSE IF o \in ok /\ Given(o, t)
                     THEN [lib[o] EXCEPT ![t] = smartrc_params[o][t]] ELSE lib[o]]
  BY DEF InitStream, Applied
<1> HIDE DEF gap
<1>5. /\ lib' \in [Option -> [Stream \union {All} -> Value \union {0, Unset}]]
      /\ \A o \in Option, s \in Stream \union {All} :
           lib'[o][s] = IF s # t THEN lib[o][s] ELSE IF o = Gap THEN gap
                        ELSE IF o \in ok /\ Given(o, t) THEN smartrc_params[o][t]
                        ELSE lib[o][t]
  <2>1. \A o \in Option : smartrc_params[o][t] \in Value \union {0, Unset}
    BY DEF Said
  <2>2. lib \in [Option -> [Stream \union {All} -> Value \union {0, Unset}]]
    BY DEF Handed, HandedTypes
  <2> QED BY <2>1, <2>2, <1>3, <1>4
<1>6. ASSUME NEW o \in Global
      PROVE  lib'[o][All] = IF <<o, All>> \in failed' THEN Unset ELSE smartrc_params[o][All]
  <2>1. o \in Option /\ All # t
    BY Options DEF Stream, All, NoStream
  <2>2. lib'[o][All] = lib[o][All] /\ (<<o, All>> \in failed' <=> <<o, All>> \in failed)
    BY <2>1, <1>1, <1>5
  <2> QED BY <2>2, <1>1 DEF Handed, HandedGlobal
<1>7. ASSUME NEW o \in Setting, NEW s \in Stream
      PROVE  /\ s < cur' => lib'[o][s] = IF <<o, s>> \in failed' THEN Unset
                                         ELSE smartrc_params[o][s]
             /\ s >= cur' => lib'[o][s] = Unset /\ <<o, s>> \notin failed'
  <2>1. o \in Option /\ o # Gap /\ o \in StreamOption
    BY Options
  <2>2. /\ s < t => lib[o][s] = IF <<o, s>> \in failed THEN Unset ELSE smartrc_params[o][s]
        /\ s >= t => lib[o][s] = Unset /\ <<o, s>> \notin failed
    BY <1>1 DEF Handed, HandedSetting
  <2>3. CASE s # t
    <3>1. lib'[o][s] = lib[o][s] /\ (<<o, s>> \in failed' <=> <<o, s>> \in failed)
      BY <2>1, <2>3, <1>1, <1>5
    <3>2. CASE s < t
      BY <3>1, <3>2, <2>2, <1>2 DEF Stream
    <3>3. CASE s > t
      <4>1. s < cur' => smartrc_params[o][s] = Unset
        BY <3>3, <2>1, <1>2 DEF Stream, Said
      <4> QED BY <4>1, <3>1, <3>3, <2>2 DEF Stream
    <3> QED BY <3>2, <3>3, <2>3 DEF Stream
  <2>4. CASE s = t
    <3>1. lib'[o][t] = IF o \in ok /\ Given(o, t) THEN smartrc_params[o][t] ELSE Unset
      BY <2>1, <2>2, <2>4, <1>5 DEF Stream
    <3>2. <<o, t>> \in failed' <=> o \notin ok /\ Given(o, t)
      BY <2>2, <2>4, <1>1 DEF Stream
    <3>3. t < cur'
      BY <1>2 DEF Stream
    <3>4. ~(t >= cur')
      BY <1>2 DEF Stream
    <3>5. lib'[o][t] = IF <<o, t>> \in failed' THEN Unset ELSE smartrc_params[o][t]
      BY <3>1, <3>2 DEF Given
    <3> QED BY <3>4, <3>5, <2>4
  <2> QED BY <2>3, <2>4
<1>8. failed' \subseteq Option \X (Stream \union {All})
  BY <1>1, Options DEF Handed, HandedTypes
<1> HIDE DEF refused
<1>9. cur' \in 0 .. 5
  BY <1>2 DEF Stream
<1>10. HandedTypes'
  BY <1>1, <1>2, <1>3, <1>5, <1>8, <1>9 DEF HandedTypes
<1>11. HandedNothing' /\ HandedGlobal' /\ HandedSetting'
  BY <1>1, <1>6, <1>7 DEF HandedNothing, HandedGlobal, HandedSetting
<1> QED BY <1>10, <1>11 DEF Handed

\* While options are read, nothing is handed over.
LEMMA OptionsHandNothing ==
  ASSUME Handed, pc = "options", pc' = "options", UNCHANGED setupVars
  PROVE  Handed'
<1>1. HandedTypes'
  BY DEF Handed, HandedTypes, setupVars
<1>2. HandedNothing' /\ HandedGlobal'
  BY DEF Handed, HandedNothing, HandedGlobal, setupVars
<1>3. HandedSetting'
  BY Options DEF Handed, HandedNothing, HandedSetting, setupVars, Stream
<1> QED BY <1>1, <1>2, <1>3 DEF Handed

LEMMA HandedInvNext == HandedInv /\ [Next]_vars => HandedInv'
<1> SUFFICES ASSUME HandedInv, [Next]_vars, pc' # "ended" PROVE Handed'
  BY SaidInvNext DEF HandedInv
<1>1. ASSUME NEW s \in Switch, SwitchStream(s) PROVE Handed'
  BY <1>1, OptionsHandNothing DEF HandedInv, SwitchStream, Read
<1>2. ASSUME NEW o \in Option, NEW v \in Value \union {Bad},
             TakeOption(o, v) \/ RefuseOption(o, v)
      PROVE  Handed'
  BY <1>2, OptionsHandNothing DEF HandedInv, TakeOption, RefuseOption, Read
<1>3. ASSUME NEW ok \in SUBSET Global, StartInit(ok) PROVE Handed'
  BY <1>3, StartHands DEF HandedInv, SaidInv, StartInit
<1>4. ASSUME NEW s \in Stream, NEW f \in Formats, NEW ok \in SUBSET Setting,
             InitStream(s, f, ok)
      PROVE  Handed'
  BY <1>4, StreamHands DEF HandedInv, SaidInv, InitStream
<1>5. CASE Run
  BY <1>5
     DEF HandedInv, Run, optionVars, setupVars, Handed,
         HandedTypes, HandedNothing, HandedGlobal, HandedSetting
<1>6. CASE InitFails
  BY <1>6 DEF InitFails
<1>7. CASE UNCHANGED vars
  BY <1>7 DEF HandedInv, vars, Handed, HandedTypes, HandedNothing, HandedGlobal, HandedSetting
<1> QED BY <1>1, <1>2, <1>3, <1>4, <1>5, <1>6, <1>7 DEF Next

\* For any options, in any order, with any switches between them and any
\* setters that fail: every setting reaches the stream it was said for.
THEOREM EveryOptionReaches == Spec => []OptionsReachTheirStream
<1>1. Init => HandedInv
  BY SaidInvInit, HandedInit DEF HandedInv
<1>2. HandedInv => OptionsReachTheirStream
  <2> SUFFICES ASSUME Said, Handed, pc = "running",
                      NEW w \in (Setting \X Stream) \union (Global \X {All})
               PROVE  lib[w[1]][w[2]] = IF w \in failed THEN Unset ELSE LastSaid(w[1], w[2])
    BY DEF HandedInv, SaidInv, OptionsReachTheirStream
  <2>1. CASE w \in Setting \X Stream
    <3>1. PICK o \in Setting, s \in Stream : w = <<o, s>>
      BY <2>1
    <3>2. smartrc_params[o][s] = LastSaid(o, s)
      BY Options DEF Said, Place
    <3>3. s < cur
      BY DEF Handed, HandedTypes, Stream
    <3> QED BY <3>1, <3>2, <3>3 DEF Handed, HandedSetting
  <2>2. CASE w \in Global \X {All}
    <3>1. PICK o \in Global : w = <<o, All>>
      BY <2>2
    <3>2. smartrc_params[o][All] = LastSaid(o, All)
      BY Options DEF Said, Place
    <3> QED BY <3>1, <3>2 DEF Handed, HandedGlobal
  <2> QED BY <2>1, <2>2
<1> QED BY <1>1, <1>2, HandedInvNext, PTL DEF Spec

-----------------------------------------------------------------------------
\* g is the gap said for the last selected stream up to s that one was said
\* for.
Nearest(s, g) ==
  LET said == {t \in stream_selection : t <= s /\ smartrc_params[Gap][t] # Unset}
  IN  g = IF said = {} THEN 0 ELSE smartrc_params[Gap][Max(said)]

\* Every stream set up so far has the nearest gap, and config, which all of
\* them share, has that of the last one.
GapInv ==
  /\ pc = "options" => bitrate_gap_adj = 0
  /\ \A s \in stream_selection : s < cur => Nearest(s, lib[Gap][s])
  /\ \A c \in Int : c = cur - 1 => Nearest(c, bitrate_gap_adj)

Carried == HandedInv /\ (pc # "ended" => GapInv)

\* The streams between two that are set up change nothing.
LEMMA NearestFurther ==
  ASSUME Said, NEW c \in Int, NEW d \in Int, NEW g, Nearest(c, g), c <= d,
         \A t \in stream_selection : t <= d => t <= c
  PROVE  Nearest(d, g)
<1>1. \A t \in stream_selection : t \in Int
  BY DEF Said, Stream
<1>2. {t \in stream_selection : t <= d /\ smartrc_params[Gap][t] # Unset}
        = {t \in stream_selection : t <= c /\ smartrc_params[Gap][t] # Unset}
  BY <1>1
<1> QED BY <1>2 DEF Nearest

\* A stream with a gap of its own has that one, one without has what is in
\* config.
LEMMA GapIsNearest ==
  ASSUME Said, GapInv, cur \in Stream
  PROVE  Nearest(cur, GapFor(cur))
<1> DEFINE said == {t \in stream_selection : t <= cur /\ smartrc_params[Gap][t] # Unset}
<1>1. cur \in Int /\ \A t \in stream_selection : t \in Int
  BY DEF Said, Stream
<1>2. CASE smartrc_params[Gap][cur] # Unset
  <2>1. cur \in stream_selection
    BY <1>2, Options DEF Said
  <2>2. cur \in said /\ said \subseteq Int /\ \A t \in said : t <= cur
    <3>1. cur <= cur
      BY <1>1
    <3>2. cur \in said
      BY <2>1, <3>1, <1>2
    <3> QED BY <3>2, <1>1
  <2>3. Max(said) = cur /\ said # {}
    <3> HIDE DEF said
    <3> QED BY <2>2, LargestIsMax
  <2> QED BY <2>3, <1>2 DEF Nearest, GapFor, Given
<1>3. CASE smartrc_params[Gap][cur] = Unset
  <2>1. PICK c \in Int : c = cur - 1
    BY <1>1
  <2>2. said = {t \in stream_selection : t <= c /\ smartrc_params[Gap][t] # Unset}
    BY <2>1, <1>1, <1>3
  <2>3. Nearest(c, bitrate_gap_adj)
    BY <2>1 DEF GapInv
  <2>4. GapFor(cur) = bitrate_gap_adj
    BY <1>3 DEF GapFor, Given
  <2> QED BY <2>2, <2>3, <2>4 DEF Nearest
<1> QED BY <1>2, <1>3

\* Options and selection do not change any more when streams are set up.
LEMMA NearestKept ==
  ASSUME UNCHANGED <<stream_selection, smartrc_params>>
  PROVE  \A c, g : Nearest(c, g)' <=> Nearest(c, g)
BY DEF Nearest

LEMMA StreamCarries ==
  ASSUME Said, Handed, GapInv,
         NEW t \in Stream, NEW f \in Formats, NEW ok \in SUBSET Setting,
         InitStream(t, f, ok)
  PROVE  GapInv'
<1> PICK gap : gap = GapFor(t)
  OBVIOUS
<1>1. /\ pc = "init" /\ pc' = "init" /\ cur = t /\ cur' = NextSelected(t + 1)
      /\ bitrate_gap_adj' = gap /\ t \in Int
      /\ UNCHANGED <<stream_selection, smartrc_params>>
  BY DEF InitStream, optionVars, Stream
<1>2. /\ cur' \in t + 1 .. 5
      /\ \A m \in stream_selection : m \in Int /\ (m < cur' => m <= t)
  BY <1>1, NextIsSelected DEF Said, Stream
<1>3. Nearest(t, gap)
  BY <1>1, GapIsNearest
<1>4. \A s \in stream_selection : lib'[Gap][s] = IF s = t THEN gap ELSE lib[Gap][s]
  BY Options DEF InitStream, Applied, Handed, HandedTypes, Said
<1>5. ASSUME NEW s \in stream_selection, s < cur' PROVE Nearest(s, lib'[Gap][s])
  <2>1. CASE s = t
    BY <2>1, <1>3, <1>4
  <2>2. CASE s # t
    <3>1. s < cur
      BY <2>2, <1>1, <1>2, <1>5
    <3> QED BY <2>2, <3>1, <1>4 DEF GapInv
  <2> QED BY <2>1, <2>2
<1>6. ASSUME NEW c \in Int, c = cur' - 1 PROVE Nearest(c, gap)
  <2>1. t <= c /\ \A m \in stream_selection : m <= c => m <= t
    BY <1>1, <1>2, <1>6
  <2> QED BY <2>1, <1>1, <1>3, NearestFurther
<1> QED
  BY <1>1, <1>5, <1>6, NearestKept DEF GapInv

LEMMA CarriedNext == Carried /\ [Next]_vars => Carried'
<1> SUFFICES ASSUME Carried, [Next]_vars, pc' # "ended" PROVE GapInv'
  BY HandedInvNext DEF Carried
<1>0. Said' /\ Handed'
  BY HandedInvNext DEF Carried, HandedInv, SaidInv
<1>1. ASSUME pc = "options", pc' = "options" \/ pc' = "init", bitrate_gap_adj' = 0,
             \A s \in Stream : s < cur' => s \notin stream_selection'
      PROVE  GapInv'
  <2>1. \A s \in stream_selection' : s \in Stream
    BY <1>0 DEF Said
  <2>2. cur' \in Int
    BY <1>0 DEF Handed, HandedTypes
  <2>3. ASSUME NEW c \in Int, c = cur' - 1 PROVE Nearest(c, bitrate_gap_adj)'
    <3>1. \A s \in Stream : s <= c => s < cur'
      <4>1. PICK n \in Int : n = cur'
        BY <2>2
      <4>2. \A s \in Stream : s \in Int
        BY DEF Stream
      <4>3. c = n - 1
        BY <2>3, <4>1
      <4>4. \A s \in Int : s <= c => s < n
        BY <4>3
      <4> QED BY <4>1, <4>2, <4>4
    <3>2. {t \in stream_selection' : t <= c /\ smartrc_params'[Gap][t] # Unset} = {}
      BY <2>1, <3>1, <1>1
    <3> QED BY <3>2, <1>1 DEF Nearest
  <2> QED BY <1>1, <2>1, <2>3 DEF GapInv
<1>2. ASSUME pc = "options", pc' = "options", UNCHANGED setupVars PROVE GapInv'
  <2>1. cur' = 0 /\ bitrate_gap_adj' = 0
    BY <1>2 DEF Carried, HandedInv, Handed, HandedNothing, GapInv, setupVars
  <2> QED BY <2>1, <1>1, <1>2 DEF Stream
<1>3. ASSUME NEW s \in Switch, SwitchStream(s) PROVE GapInv'
  BY <1>2, <1>3 DEF SwitchStream, Read
<1>4. ASSUME NEW o \in Option, NEW v \in Value \union {Bad},
             TakeOption(o, v) \/ RefuseOption(o, v)
      PROVE  GapInv'
  BY <1>2, <1>4 DEF TakeOption, RefuseOption, Read
<1>5. ASSUME NEW ok \in SUBSET Global, StartInit(ok) PROVE GapInv'
  <2>1. /\ pc = "options" /\ pc' = "init" /\ cur' = NextSelected(0)
        /\ UNCHANGED <<stream_selection, bitrate_gap_adj>>
    BY <1>5 DEF StartInit, optionVars
  <2>2. bitrate_gap_adj = 0 /\ stream_selection \subseteq Stream
    BY <2>1 DEF Carried, GapInv, HandedInv, SaidInv, Said
  <2>3. \A s \in Stream : s < cur' => s \notin stream_selection
    BY <2>1, <2>2, NextIsSelected DEF Stream
  <2> QED BY <2>1, <2>2, <2>3, <1>1
<1>6. ASSUME NEW s \in Stream, NEW f \in Formats, NEW ok \in SUBSET Setting,
             InitStream(s, f, ok)
      PROVE  GapInv'
  BY <1>6, StreamCarries DEF Carried, HandedInv, SaidInv, InitStream
<1>7. CASE Run
  <2>1. pc = "init" /\ pc' = "running"
        /\ UNCHANGED <<stream_selection, smartrc_params, cur, bitrate_gap_adj, lib>>
    BY <1>7 DEF Run, optionVars, setupVars
  <2> QED BY <2>1, NearestKept DEF Carried, GapInv
<1>8. CASE UNCHANGED vars
  <2>1. UNCHANGED <<pc, stream_selection, smartrc_params, cur, bitrate_gap_adj, lib>>
    BY <1>8 DEF vars
  <2> QED BY <2>1, NearestKept DEF Carried, GapInv
<1>9. CASE InitFails
  BY <1>9 DEF InitFails
<1> QED BY <1>3, <1>4, <1>5, <1>6, <1>7, <1>8, <1>9 DEF Next

\* For any options and any selection: the gap of a stream is the one said for
\* it, or else the one of the nearest selected stream before it that has one.
THEOREM GapIsCarried == Spec => []GapCarriedOver
<1>1. Init => Carried
  <2> SUFFICES ASSUME Init PROVE Carried
    OBVIOUS
  <2>1. SaidInv /\ Handed /\ cur = 0 /\ bitrate_gap_adj = 0 /\ stream_selection = {}
    BY SaidInvInit, HandedInit DEF Init
  <2>2. \A c : Nearest(c, 0)
    BY <2>1 DEF Nearest
  <2> QED BY <2>1, <2>2 DEF Carried, HandedInv, GapInv
<1>2. Carried => GapCarriedOver
  <2> SUFFICES ASSUME Said, Handed, GapInv, pc = "running", NEW s \in stream_selection
               PROVE  LET said == {t \in stream_selection : t <= s /\ LastSaid(Gap, t) # Unset}
                      IN  lib[Gap][s] = IF said = {} THEN 0 ELSE LastSaid(Gap, Max(said))
    BY DEF Carried, HandedInv, SaidInv, GapCarriedOver
  <2>1. \A t \in stream_selection : smartrc_params[Gap][t] = LastSaid(Gap, t)
    BY Options DEF Said, Place
  <2> DEFINE said == {t \in stream_selection : t <= s /\ LastSaid(Gap, t) # Unset}
  <2>2. said = {t \in stream_selection : t <= s /\ smartrc_params[Gap][t] # Unset}
    BY <2>1
  <2>3. ASSUME said # {} PROVE Max(said) \in stream_selection
    <3>1. 4 \in Nat /\ said \subseteq 0 .. 4
      BY DEF Said, Stream
    <3>2. Max(said) \in said
      <4> HIDE DEF said
      <4> QED BY <3>1, <2>3, MaxIsLargest
    <3> QED BY <3>2
  <2>4. s < cur
    BY DEF Handed, HandedTypes, Said, Stream
  <2>5. Nearest(s, lib[Gap][s])
    BY <2>4 DEF GapInv
  <2>6. lib[Gap][s] = IF said = {} THEN 0 ELSE smartrc_params[Gap][Max(said)]
    BY <2>2, <2>5 DEF Nearest
  <2> HIDE DEF said
  <2>7. lib[Gap][s] = IF said = {} THEN 0 ELSE LastSaid(Gap, Max(said))
    BY <2>1, <2>3, <2>6
  <2> QED BY <2>7 DEF said
<1> QED BY <1>1, <1>2, CarriedNext, PTL DEF Spec
-----------------------------------------------------------------------------
\* The sensor delivers at least half as many frames as update_delay_param
\* takes for normal.
HalfRate == \A p \in FramePeriod : RefPeriod \div (p \div 16) >= 8

\* The streams that are set up.
Done == {s \in stream_selection : s < cur}

\* At half the rate, or more, each of the first three streams leaves at least
\* this much of the delay.
DelayInv ==
  /\ period \in FramePeriod /\ g_delay \in Nat
  /\ Cardinality(Done) = 0 => g_delay >= 10
  /\ Cardinality(Done) = 1 => g_delay >= 5
  /\ Cardinality(Done) = 2 => g_delay >= 2
  /\ Cardinality(Done) = 3 => g_delay >= 1
  /\ pc = "options" => g_delay = 10

Delayed == HandedInv /\ (pc # "ended" => DelayInv)

\* What a ratio of one half or more leaves.
LEMMA HalfLeft ==
  ASSUME NEW d \in Nat, NEW r \in Nat, r >= 8
  PROVE  /\ (d * r) \div 16 \in Nat
         /\ d >= 10 => (d * r) \div 16 >= 5
         /\ d >= 5 => (d * r) \div 16 >= 2
         /\ d >= 2 => (d * r) \div 16 >= 1
<1>1. PICK k \in Nat : r = 8 + k
  <2>1. r - 8 \in Nat /\ r = 8 + (r - 8)
    OBVIOUS
  <2> QED BY <2>1
<1>2. d * k \in Nat
  OBVIOUS
<1>3. d * r = 8 * d + d * k
  BY <1>1
<1>4. PICK q \in Nat : q = d * r
  BY <1>2, <1>3
<1>5. q >= 8 * d
  BY <1>2, <1>3, <1>4
<1>6. /\ q \div 16 \in Nat
      /\ d >= 10 => q \div 16 >= 5
      /\ d >= 5 => q \div 16 >= 2
      /\ d >= 2 => q \div 16 >= 1
  BY <1>5
<1> QED BY <1>4, <1>6

\* The streams set up are among the five.
LEMMA DoneCounts ==
  ASSUME stream_selection \subseteq Stream
  PROVE  /\ IsFiniteSet(Done) /\ Cardinality(Done) \in Nat
         /\ IsFiniteSet(stream_selection) /\ Cardinality(stream_selection) \in Nat
<1>1. IsFiniteSet(0 .. 4)
  <2>1. 0 \in Int /\ 4 \in Int
    OBVIOUS
  <2> QED BY <2>1, FS_Interval
<1>2. Done \subseteq 0 .. 4 /\ stream_selection \subseteq 0 .. 4
  BY DEF Done, Stream
<1> QED BY <1>1, <1>2, FS_Subset, FS_CardinalityType

\* A stream that is set up scales the delay once.
LEMMA StreamScales ==
  ASSUME HalfRate, Said, Handed, DelayInv,
         NEW t \in Stream, NEW f \in Formats, NEW ok \in SUBSET Setting,
         InitStream(t, f, ok)
  PROVE  DelayInv'
<1>1. /\ pc = "init" /\ pc' = "init" /\ cur = t /\ cur' = NextSelected(t + 1)
      /\ g_delay' = Scaled(g_delay) /\ UNCHANGED <<period, stream_selection>>
  BY DEF InitStream, optionVars
<1>2. /\ cur' \in t + 1 .. 5
      /\ \A m \in Stream : t + 1 <= m /\ m < cur' => m \notin stream_selection
  BY <1>1, NextIsSelected DEF Said, Stream
<1>3. t \in stream_selection /\ t \notin Done
  BY <1>1 DEF Handed, HandedTypes, Stream, Done
<1>4. Done' = Done \union {t}
  <2>1. \A m \in stream_selection : m < cur' <=> m < cur \/ m = t
    BY <1>1, <1>2 DEF Said, Stream
  <2> QED BY <2>1, <1>1, <1>3 DEF Done
<1>5. PICK D : D = Done
  OBVIOUS
<1>6. Cardinality(D) \in Nat /\ Cardinality(D \union {t}) = Cardinality(D) + 1
  BY <1>3, <1>5, DoneCounts, FS_AddElement DEF Said
<1>7. PICK n \in Nat : n = Cardinality(D)
  BY <1>6
<1>8. PICK r : r = RefPeriod \div (period \div 16)
  OBVIOUS
<1>9. r \in Nat /\ r >= 8
  <2>1. period \in FramePeriod /\ period \in Nat /\ period >= 16 /\ RefPeriod \in Nat
    BY StartupAssumption DEF DelayInv
  <2>2. period \div 16 \in Nat /\ period \div 16 >= 1
    BY <2>1
  <2>3. RefPeriod \div (period \div 16) \in Int
    BY <2>1, <2>2
  <2>4. r >= 8
    BY <2>1, <1>8 DEF HalfRate
  <2> QED BY <2>3, <2>4, <1>8
<1>10. PICK d \in Nat : d = g_delay
  BY DEF DelayInv
<1>11. g_delay' = (d * r) \div 16
  BY <1>1, <1>8, <1>10 DEF Scaled
<1>12. PICK e : e = (d * r) \div 16
  OBVIOUS
<1>13. /\ e \in Nat
       /\ d >= 10 => e >= 5
       /\ d >= 5 => e >= 2
       /\ d >= 2 => e >= 1
  BY <1>9, <1>12, HalfLeft
<1>14. /\ n = 0 => d >= 10
       /\ n = 1 => d >= 5
       /\ n = 2 => d >= 2
  BY <1>5, <1>7, <1>10 DEF DelayInv
<1>15. Cardinality(Done') = n + 1
  BY <1>4, <1>5, <1>6, <1>7
<1>16. /\ n + 1 # 0
       /\ n + 1 = 1 => e >= 5
       /\ n + 1 = 2 => e >= 2
       /\ n + 1 = 3 => e >= 1
  BY <1>13, <1>14
<1>17. period' \in FramePeriod /\ g_delay' = e /\ pc' # "options"
  BY <1>1, <1>11, <1>12 DEF DelayInv
<1> QED BY <1>13, <1>15, <1>16, <1>17 DEF DelayInv

LEMMA DelayedNext == HalfRate /\ Delayed /\ [Next]_vars => Delayed'
<1> SUFFICES ASSUME HalfRate, Delayed, [Next]_vars, pc' # "ended" PROVE DelayInv'
  BY HandedInvNext DEF Delayed
<1>0. Said' /\ Handed'
  BY HandedInvNext DEF Delayed, HandedInv, SaidInv
<1>1. ASSUME pc = "options", UNCHANGED <<period, g_delay>>,
             \A s \in Stream : s < cur' => s \notin stream_selection'
      PROVE  DelayInv'
  <2>1. Done' = {}
    BY <1>0, <1>1 DEF Done, Said
  <2>2. Cardinality(Done') = 0
    BY <2>1, FS_EmptySet
  <2>3. period \in FramePeriod /\ g_delay = 10
    BY <1>1 DEF Delayed, DelayInv
  <2> QED BY <2>2, <2>3, <1>1 DEF DelayInv
<1>2. ASSUME pc = "options", UNCHANGED <<period, setupVars>> PROVE DelayInv'
  <2>1. cur' = 0
    BY <1>2 DEF Delayed, HandedInv, Handed, HandedNothing, setupVars
  <2> QED BY <2>1, <1>1, <1>2 DEF Stream, setupVars
<1>3. ASSUME NEW s \in Switch, SwitchStream(s) PROVE DelayInv'
  BY <1>2, <1>3 DEF SwitchStream, Read
<1>4. ASSUME NEW o \in Option, NEW v \in Value \union {Bad},
             TakeOption(o, v) \/ RefuseOption(o, v)
      PROVE  DelayInv'
  BY <1>2, <1>4 DEF TakeOption, RefuseOption, Read
<1>5. ASSUME NEW ok \in SUBSET Global, StartInit(ok) PROVE DelayInv'
  <2>1. /\ pc = "options" /\ cur' = NextSelected(0)
        /\ UNCHANGED <<stream_selection, period, g_delay>>
    BY <1>5 DEF StartInit, optionVars
  <2>2. stream_selection \subseteq Stream
    BY <2>1 DEF Delayed, HandedInv, SaidInv, Said
  <2>3. \A s \in Stream : s < cur' => s \notin stream_selection
    BY <2>1, <2>2, NextIsSelected DEF Stream
  <2> QED BY <2>1, <2>3, <1>1
<1>6. ASSUME NEW s \in Stream, NEW f \in Formats, NEW ok \in SUBSET Setting,
             InitStream(s, f, ok)
      PROVE  DelayInv'
  BY <1>6, StreamScales DEF Delayed, HandedInv, SaidInv, InitStream
<1>7. ASSUME pc # "ended", UNCHANGED <<period, g_delay, stream_selection, cur>>,
             pc' = "options" => pc = "options"
      PROVE  DelayInv'
  <2>1. Done' = Done
    BY <1>7 DEF Done
  <2> QED BY <2>1, <1>7 DEF Delayed, DelayInv
<1>8. CASE Run \/ UNCHANGED vars
  BY <1>7, <1>8 DEF Run, vars, optionVars, setupVars
<1>9. CASE InitFails
  BY <1>9 DEF InitFails
<1> QED BY <1>3, <1>4, <1>5, <1>6, <1>8, <1>9 DEF Next

\* With three streams or fewer the delays survive the scaling at every rate
\* from half the normal one on, whichever streams are selected.  (The
\* hypothesis is needed: at a ratio of 7 the third stream leaves nothing.)
THEOREM DelaysStay == ASSUME HalfRate PROVE Spec => []DelaySurvives
<1>1. Init => Delayed
  <2> SUFFICES ASSUME Init PROVE Delayed
    OBVIOUS
  <2>1. /\ SaidInv /\ Handed /\ stream_selection = {} /\ g_delay = 10
        /\ period \in FramePeriod
    BY SaidInvInit, HandedInit DEF Init
  <2>2. Done = {} /\ Cardinality(Done) = 0
    BY <2>1, FS_EmptySet DEF Done
  <2> QED BY <2>1, <2>2 DEF Delayed, HandedInv, DelayInv
<1>2. Delayed => DelaySurvives
  <2> SUFFICES ASSUME Said, Handed, DelayInv, pc = "running",
                      Cardinality(stream_selection) <= 3
               PROVE  g_delay > 0
    BY DEF Delayed, HandedInv, SaidInv, DelaySurvives
  <2>1. Done = stream_selection
    <3>1. cur = 5 /\ stream_selection \subseteq Stream
      BY DEF Handed, HandedTypes, Said
    <3>2. \A s \in stream_selection : s < cur
      BY <3>1 DEF Stream
    <3> QED BY <3>2 DEF Done
  <2>2. PICK n \in Nat : n = Cardinality(Done) /\ n <= 3
    BY <2>1, DoneCounts DEF Said
  <2>3. n = 0 \/ n = 1 \/ n = 2 \/ n = 3
    BY <2>2
  <2> QED BY <2>2, <2>3 DEF DelayInv
<1>3. Delayed /\ [Next]_vars => Delayed'
  BY DelayedNext
<1> QED BY <1>1, <1>2, <1>3, PTL DEF Spec
=============================================================================

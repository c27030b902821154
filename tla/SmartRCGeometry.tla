--------------------------- MODULE SmartRCGeometry ---------------------------
(***************************************************************************)
(* The sizes of test_smartrc_Amba.c: the ROI matrix of a stream, the part  *)
(* of the driver's ME0 buffer that is read for it, the buffer me_buf the   *)
(* motion data is scaled down into, and the buffer the motion matrix is    *)
(* dumped from.  ME0 has one byte for 8 x 8 pixels; H.264 needs one for 16 *)
(* x 16 (a macroblock), H.265 one for 32 x 32 (a coding tree block).       *)
(***************************************************************************)
EXTENDS Integers

\* ROUND_UP(x, n) / n.
Units(x, n) == (x + n - 1) \div n
RoundUp(x, n) == Units(x, n) * n

Codec == {"H264", "H265"}

\* Pixels along a side of a cell of the ROI matrix: MB_SIZE and CTB_SIZE.
Cell(codec) == IF codec = "H264" THEN 16 ELSE 32

\* roi_width, roi_height.
RoiUnits(codec, x) == Units(x, Cell(codec))

\* get_transfer_ratio(BUF_ME0_8, BUF_ME0_16 or BUF_ME0_32).
TransferRatio(codec) == IF codec = "H264" THEN 2 ELSE 4

\* Bytes of a line of me_buf; pitch is that of the ME0 buffer.
PitchOut(codec, pitch) == Units(pitch, TransferRatio(codec))

\* Mutant of MeBufSize: for the lines of ME0 that are read, not for the ROI.
MeBufSizeWhole(codec, height, pitch) ==
  PitchOut(codec, pitch) * (height \div Cell(codec))

\* get_roi_size and the malloc in init_smartrc_lib.
MeBufSize(codec, height, pitch) ==
  PitchOut(codec, pitch) * RoiUnits(codec, height)

\* width_in and height_in of get_roi_addr.
InUnits(x) == Units(RoundUp(x, 16), 8)

\* transfer_me_buf visits the lines 0, r, 2r ... below height_in and, in each,
\* groups of 16 bytes from the columns 0, 16 ... below width_in; r is the
\* ratio, and a group leaves 16 / r bytes in line j / r, column i / r.
LinesWritten(codec, height) == Units(InUnits(height), TransferRatio(codec))

ColumnsWritten(codec, width) ==
  Units(InUnits(width), 16) * (16 \div TransferRatio(codec))

\* The highest index of buf_out it writes, for the pitch of this frame.
LastWritten(codec, width, height, pitch) ==
  (LinesWritten(codec, height) - 1) * PitchOut(codec, pitch)
    + ColumnsWritten(codec, width) - 1

\* Mutant of MatSize: no room for the newlines.
MatSizeBare(w, h) == w * h + 1

\* g_mt_mat[].size: one more row and column for the newlines.
MatSize(w, h) == (w + 1) * (h + 1)

\* What dump_mot_mat puts there: each row with its newline, and one more.
MatWritten(w, h) == h * (w + 1) + 1

\* How many cells do_vca_on_yuv takes from the motion matrix.
VcaCells(codec, width, height) ==
  Units(RoundUp(width, Cell(codec)), Cell(codec))
    * Units(RoundUp(height, Cell(codec)), Cell(codec))
=============================================================================

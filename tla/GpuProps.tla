------------------------------ MODULE GpuProps ------------------------------
(***************************************************************************)
(* What the GPU promises.  An observer keeps the words written to GP0      *)
(* since the last command ran, the last image ended or the last reset      *)
(* (since), and the arguments of the settings made last (last).            *)
(***************************************************************************)
EXTENDS Gpu

VARIABLES since, last
obsVars == <<vars, since, last>>

Commands == [drawMode |-> \he1, mask |-> \he6]
Settings == [enable |-> \h03, direction |-> \h04, mode |-> \h08]
PowerOnLast == [drawMode |-> 0, mask |-> 0, enable |-> 1, direction |-> 0, mode |-> 0]

Ran == running' /\ ran' # NoCommand
ImageEnds == mGp0Mode = "ImageLoad" /\ mGp0Mode' = "Command"

ObserveGp0(w) ==
    /\ since' = IF Ran \/ ImageEnds THEN <<>> ELSE Append(since, w)
    /\ last' = [name \in DOMAIN last |->
                  IF name \in DOMAIN Commands /\ Commands[name] = ran'.op
                  THEN ran'.words[1].arg ELSE last[name]]
ObserveGp1(w) ==
    /\ since' = IF w.op \in {\h00, \h01} THEN <<>> ELSE since
    /\ last' = IF w.op = \h00 THEN PowerOnLast
               ELSE [name \in DOMAIN last |->
                       IF name \in DOMAIN Settings /\ Settings[name] = w.op
                       THEN w.arg ELSE last[name]]

ObservedNext == \/ \E w \in Inputs : Gp0Step(w) /\ ObserveGp0(w)
                \/ \E w \in Gp1Words : Gp1Step(w) /\ ObserveGp1(w)
                \/ Panic /\ UNCHANGED <<since, last>>

ObservedInit == Init /\ since = <<>> /\ last = PowerOnLast
ObservedSpec == ObservedInit /\ [][ObservedNext]_obsVars
-----------------------------------------------------------------------------
(* The command buffer never overflows its twelve words, and between two    *)
(* words of a command it holds exactly those received so far, the first of *)
(* them the one that chose the method (gp0, CommandBuffer).                *)
CommandFits ==
    /\ Len(mGp0Command) <= 12
    /\ mGp0Mode = "Command" /\ mGp0WordsRemaining > 0 =>
          /\ Len(mGp0Command) + mGp0WordsRemaining = Length(mGp0CommandMethod)
          /\ Len(mGp0Command) > 0
          /\ mGp0Command[1].op = mGp0CommandMethod

(* A command runs on all the words written to GP0 since the one before it *)
(* ended, and on no others: none from before a reset or from an image, even *)
(* when a parameter looks like an opcode.                                  *)
RunsOnItsWords ==
    [][Ran => /\ Len(ran'.words) = Length(ran'.op)
              /\ Len(ran'.words) = Len(since) + 1
              /\ SubSeq(ran'.words, 1, Len(since)) = since
              /\ ran'.words[1].op = ran'.op]_obsVars

(* An image of n pixels swallows the words that hold n pixels, not one     *)
(* more or less, unless a reset cuts it short (gp0ImageLoad).  An image of *)
(* no pixels is another matter: see ImageModeHasImage.                     *)
ImageIsExact ==
    [][LET size == mGp0Command[3]
           pixels == (size.arg % 2^16) * (size.op * 2^8 + (size.arg \div 2^16))
       IN ImageEnds /\ mGp0Command' # <<>> /\ pixels > 0
          => 2 * (Len(since) + 1) \in {pixels, pixels + 1}]_obsVars

(* Bits 0-12, 15-18, 23 and 29-30 of STATUS show the settings made last,   *)
(* those of a soft reset when there are none since: the draw mode, the     *)
(* mask bits, the horizontal resolution, the display enable and the DMA    *)
(* direction.  A word of an image or a parameter that looks like a setting *)
(* makes none.                                                             *)
(*                                                                         *)
(* The other bits are left out.  Bit 19, the vertical resolution, is never *)
(* shown, and the bits 20-22, video mode, colour depth and interlacing,    *)
(* are not what was set: gpu.cpp:589-595 decodes all four from bit 0 of    *)
(* the display mode.  13, 14, 24, 26-28 and 31 are constant, and 25 only   *)
(* says whether there is a DMA direction.                                  *)
StatusIsCurrent ==
    LET Shows(lo, width, n) ==
          \A b \in 0 .. width - 1 : (lo + b) \in Status <=> (n \div 2^b) % 2 = 1
    IN /\ Shows(0, 11, last.drawMode)
       /\ Shows(15, 1, last.drawMode \div 2^11)
       /\ Shows(11, 2, last.mask)
       /\ Shows(23, 1, last.enable)
       /\ Shows(29, 2, last.direction)
       /\ Shows(16, 3, ((last.mode \div 2^6) % 2) + 2 * (last.mode % 4))

(* A soft reset leaves nothing behind: the registers are those of a new    *)
(* Gpu, but for the interlaced mode, and the next word begins a command    *)
(* (gp1Reset against the constructor).                                     *)
SoftResetForgets ==
    [][\A w \in Gp1Words : Reset(w) =>
         /\ \A f \in Field : reg'[f] = IF f = "mInterlaced" THEN 1 ELSE PowerOnReg[f]
         /\ mGp0WordsRemaining' = 0 /\ mGp0Mode' = "Command"]_obsVars

(* The triangles a drawing command stands for. *)
Shape(cmd) ==
    LET V(k, colour) == [pos |-> cmd[k], color |-> colour]
        Flat(k) == V(k, cmd[1].arg)
        Shaded(k) == V(2 * k, cmd[2 * k - 1].arg)
        Textured(k) == V(2 * k, Red)
        Quad(a, b, c, d) == <<a, b, c, b, c, d>>
    IN CASE cmd[1].op = \h28 -> Quad(Flat(2), Flat(3), Flat(4), Flat(5))
         [] cmd[1].op = \h2c -> Quad(Textured(1), Textured(2), Textured(3), Textured(4))
         [] cmd[1].op = \h30 -> <<Shaded(1), Shaded(2), Shaded(3)>>
         [] cmd[1].op = \h38 -> Quad(Shaded(1), Shaded(2), Shaded(3), Shaded(4))
         [] OTHER -> <<>>

Join(seqs) == LET joined[n \in 0 .. Len(seqs)] ==
                    IF n = 0 THEN <<>> ELSE joined[n - 1] \o seqs[n]
              IN joined[Len(seqs)]
Joined == Join(draws)

(* No vertex is lost, repeated or moved when a full buffer forces a draw   *)
(* in the middle of a command: what is drawn and what stays in the buffer  *)
(* is what was there, then the shape of the command.                       *)
VerticesKept ==
    [][running' => Joined' \o mVertexBuf'
                     = mVertexBuf \o (IF Ran THEN Shape(ran'.words) ELSE <<>>)]_obsVars

(* The buffer never overflows and only whole triangles are drawn. *)
WholeTriangles ==
    /\ Len(mVertexBuf) <= VERTEX_BUFFER_LEN
    /\ Len(mVertexBuf) % 3 = 0
    /\ \A k \in 1 .. Len(draws) : Len(draws[k]) % 3 = 0
-----------------------------------------------------------------------------
(* A statement of comments that the code does not meet.  gpu.hpp:          *)
(* ImageLoad is the mode of "loading an image into VRAM", gpu.cpp: "load   *)
(* done, switch back to command mode" when no words remain.                *)
ImageModeHasImage == mGp0Mode = "ImageLoad" => mGp0WordsRemaining > 0
=============================================================================

-------------------------------- MODULE Gpu --------------------------------
(***************************************************************************)
(* The GPU: its two command ports and its registers (gpu.cpp, gpu.hpp) and *)
(* the vertex buffer of the renderer behind it (renderer.cpp).             *)
(*                                                                         *)
(* A word written to a port is [op, arg]: its top byte and its low 24      *)
(* bits.  The CPU and the DMA write words to both ports in any order: to   *)
(* GP0 a word of Gp0Words when it begins a command, and one of Gp0Params   *)
(* when it is a parameter or a pixel.  The registers are one function from *)
(* the names of the fields to numbers; two-valued ones hold 0 or 1.        *)
(***************************************************************************)
EXTENDS Integers, Sequences

CONSTANTS
    Gp0Words, Gp0Params, Gp1Words,
    VERTEX_BUFFER_LEN        \* 16384

Word == [op : 0 .. 255, arg : 0 .. 2^24 - 1]
Vertex == [pos : Word, color : 0 .. 2^24 - 1]

ASSUME GpuAssumption ==
    /\ Gp0Words \subseteq Word /\ Gp0Params \subseteq Word
    /\ Gp1Words \subseteq Word
    /\ VERTEX_BUFFER_LEN \in Nat /\ VERTEX_BUFFER_LEN >= 4

Field == {
    "mPageBaseX", "mPageBaseY", "mSemiTransparency", "mTextureDepth",
    "mDithering", "mDrawToDisplay", "mTextureDisable",
    "mRectangleTextureXFlip", "mRectangleTextureYFlip",
    "mTextureWindowXMask", "mTextureWindowYMask",
    "mTextureWindowXOffset", "mTextureWindowYOffset",
    "mDrawingAreaLeft", "mDrawingAreaTop", "mDrawingAreaRight",
    "mDrawingAreaBottom", "mDrawingXOffset", "mDrawingYOffset",
    "mForceSetMaskBit", "mPreserveMaskedPixels",
    "mDisplayDisabled", "mDmaDirection",
    "mDisplayVramXStart", "mDisplayVramYStart",
    "mDisplayHorizStart", "mDisplayHorizEnd",
    "mDisplayLineStart", "mDisplayLineEnd",
    "mHres", "mVres", "mVmode", "mDisplayDepth", "mInterlaced" }

Offsets == {"mDrawingXOffset", "mDrawingYOffset"}
FieldValue == -1024 .. 4095
OffsetValue == -1024 .. 1023
Registers == {r \in [Field -> FieldValue] : \A f \in Offsets : r[f] \in OffsetValue}

VARIABLES
    reg,                 \* the fields above
    mGp0WordsRemaining,  \* words the current command or image still expects
    mGp0CommandMethod,   \* the command they belong to, named by its opcode
    mGp0Command,         \* the words of it received so far
    mGp0Mode,            \* "Command" or "ImageLoad"
    mVertexBuf,          \* vertices not drawn yet
    ran,                 \* observed: the command the last step has run
    draws,               \* observed: the buffers it has drawn
    running              \* FALSE once panic has called exit

port == <<mGp0WordsRemaining, mGp0CommandMethod, mGp0Command, mGp0Mode>>
vars == <<reg, port, mVertexBuf, ran, draws, running>>

MethodOps == {\h00, \h01, \h28, \h2c, \h30, \h38, \ha0, \hc0}
                \cup \he1 .. \he6
NoCommand == [op |-> 0, words |-> <<>>]

TypeOK ==
    /\ reg \in Registers
    /\ mGp0WordsRemaining \in Nat
    /\ mGp0CommandMethod \in MethodOps
    /\ mGp0Command \in Seq(Word)
    /\ mGp0Mode \in {"Command", "ImageLoad"}
    /\ mVertexBuf \in Seq(Vertex)
    /\ ran \in [op : MethodOps, words : Seq(Word)]
    /\ draws \in Seq(Seq(Vertex))
    /\ running \in BOOLEAN

PowerOnReg ==
    [f \in Field |-> CASE f = "mDisplayHorizStart" -> \h200
                       [] f = "mDisplayHorizEnd"   -> \hc00
                       [] f = "mDisplayLineStart"  -> \h10
                       [] f = "mDisplayLineEnd"    -> \h100
                       [] f = "mDisplayDisabled"   -> 1
                       [] OTHER -> 0]

Init ==
    /\ reg = PowerOnReg
    /\ mGp0WordsRemaining = 0 /\ mGp0CommandMethod = \h00
    /\ mGp0Command = <<>> /\ mGp0Mode = "Command"
    /\ mVertexBuf = <<>>
    /\ ran = NoCommand /\ draws = <<>>
    /\ running = TRUE
-----------------------------------------------------------------------------
(* The renderer.  A buffer b has the vertices to draw and the draws of the *)
(* step so far.                                                            *)
Buffer == [vertices |-> mVertexBuf, draws |-> <<>>]

DrawVariant(b) == [vertices |-> <<>>, draws |-> Append(b.draws, <<>>)]
Draw(b) == [vertices |-> <<>>, draws |-> Append(b.draws, b.vertices)]

MakeRoom(b, n) == IF Len(b.vertices) + n > VERTEX_BUFFER_LEN THEN Draw(b) ELSE b

PushVertex(b, v) ==
    LET room == MakeRoom(b, 1)
    IN [vertices |-> Append(room.vertices, v), draws |-> room.draws]

PushTriangleVariant(b, v1, v2, v3) ==
    PushVertex(PushVertex(PushVertex(b, v1), v2), v3)
PushTriangle(b, v1, v2, v3) ==
    PushVertex(PushVertex(PushVertex(MakeRoom(b, 3), v1), v2), v3)

(* Makes room for four vertices and pushes six. *)
PushQuad(b, v1, v2, v3, v4) ==
    PushTriangle(PushTriangle(MakeRoom(b, 4), v1, v2, v3), v2, v3, v4)

(* A solid red stands for the texture. *)
Red == \h0000ff

Corner(cmd, pos, color) == [pos |-> cmd[pos], color |-> color]

Push(cmd) ==
    CASE cmd[1].op = \h28 ->
           LET c == cmd[1].arg
           IN PushQuad(Buffer, Corner(cmd, 2, c), Corner(cmd, 3, c),
                               Corner(cmd, 4, c), Corner(cmd, 5, c))
      [] cmd[1].op = \h2c ->
           PushQuad(Buffer, Corner(cmd, 2, Red), Corner(cmd, 4, Red),
                            Corner(cmd, 6, Red), Corner(cmd, 8, Red))
      [] cmd[1].op = \h30 ->
           PushTriangle(Buffer, Corner(cmd, 2, cmd[1].arg),
                                Corner(cmd, 4, cmd[3].arg),
                                Corner(cmd, 6, cmd[5].arg))
      [] OTHER ->   \* 0x38
           PushQuad(Buffer, Corner(cmd, 2, cmd[1].arg), Corner(cmd, 4, cmd[3].arg),
                            Corner(cmd, 6, cmd[5].arg), Corner(cmd, 8, cmd[7].arg))

Render(b) == mVertexBuf' = b.vertices /\ draws' = b.draws
NoRendering == UNCHANGED mVertexBuf /\ draws' = <<>>
-----------------------------------------------------------------------------
(* Registers: where a command has the bits of a field, <<lowest, width>>.  *)
SliceVariant(v, lo, width) == v % 2^width
Slice(v, lo, width) == (v \div 2^lo) % 2^width

Fields(op) ==
    CASE op = \he1 ->
           [mPageBaseX |-> <<0, 4>>, mPageBaseY |-> <<4, 1>>,
            mSemiTransparency |-> <<5, 2>>, mTextureDepth |-> <<7, 2>>,
            mDithering |-> <<9, 1>>, mDrawToDisplay |-> <<10, 1>>,
            mTextureDisable |-> <<11, 1>>,
            mRectangleTextureXFlip |-> <<12, 1>>,
            mRectangleTextureYFlip |-> <<13, 1>>]
      [] op = \he2 ->
           [mTextureWindowXMask |-> <<0, 5>>, mTextureWindowYMask |-> <<5, 5>>,
            mTextureWindowXOffset |-> <<10, 5>>,
            mTextureWindowYOffset |-> <<15, 5>>]
      [] op = \he3 ->
           [mDrawingAreaTop |-> <<10, 10>>, mDrawingAreaLeft |-> <<0, 10>>]
      [] op = \he4 ->
           [mDrawingAreaBottom |-> <<10, 10>>, mDrawingAreaRight |-> <<0, 10>>]
      [] OTHER ->   \* 0xe6
           [mForceSetMaskBit |-> <<0, 1>>, mPreserveMaskedPixels |-> <<1, 1>>]

DisplayFields(op) ==
    CASE op = \h03 -> [mDisplayDisabled |-> <<0, 1>>]
      [] op = \h04 -> [mDmaDirection |-> <<0, 2>>]
      [] op = \h06 -> [mDisplayHorizStart |-> <<0, 12>>, mDisplayHorizEnd |-> <<12, 12>>]
      [] OTHER     -> [mDisplayLineStart |-> <<0, 10>>, mDisplayLineEnd |-> <<10, 10>>]

(* The registers with the fields of a record replaced. *)
Assign(values) == [f \in Field |-> IF f \in DOMAIN values THEN values[f] ELSE reg[f]]
Decode(fields, v) ==
    Assign([f \in DOMAIN fields |-> Slice(v, fields[f][1], fields[f][2])])

SignExtendVariant(n) == n
(* (int16_t)(n << 5) >> 5 of an 11 bit number. *)
SignExtend(n) == IF n < 1024 THEN n ELSE n - 2048

(* Gpu::status, as the set of the bits that are 1. *)
Bits(n) == {b \in 0 .. 11 : (n \div 2^b) % 2 = 1}
At(lo, field) == {lo + b : b \in Bits(reg[field])}
Status ==
    UNION { At(0, "mPageBaseX"), At(4, "mPageBaseY"), At(5, "mSemiTransparency"),
            At(7, "mTextureDepth"), At(9, "mDithering"), At(10, "mDrawToDisplay"),
            At(11, "mForceSetMaskBit"), At(12, "mPreserveMaskedPixels"),
            {13}, At(15, "mTextureDisable"), At(16, "mHres"), At(20, "mVmode"),
            At(21, "mDisplayDepth"), At(22, "mInterlaced"),
            At(23, "mDisplayDisabled"), {26, 27, 28}, At(29, "mDmaDirection"),
            IF reg.mDmaDirection = 0 THEN {} ELSE {25} }
-----------------------------------------------------------------------------
(* The words of a command, counting the one with its opcode. *)
Length(op) == CASE op = \h28 -> 5
                [] op = \h2c -> 9
                [] op = \h30 -> 6
                [] op = \h38 -> 8
                [] op \in {\ha0, \hc0} -> 3
                [] OTHER -> 1

(* How the word w finds the port: as a new command when nothing is due.    *)
Fresh == mGp0WordsRemaining = 0
Inputs == IF Fresh THEN Gp0Words ELSE Gp0Params
Method(w) == IF Fresh THEN w.op ELSE mGp0CommandMethod
LeftVariant(w) == IF Fresh THEN Length(w.op) ELSE mGp0WordsRemaining - 1
Left(w) == (IF Fresh THEN Length(w.op) ELSE mGp0WordsRemaining) - 1
ReceivedVariant == mGp0Command
Received == IF Fresh THEN <<>> ELSE mGp0Command
Known(w) == Fresh => w.op \in MethodOps

TextureDepthPanics(w) == Method(w) = \he1 /\ Slice(w.arg, 7, 2) = 3

(* An unknown command or texture depth. *)
Gp0Panics(w) == \/ ~Known(w)
                \/ mGp0Mode = "Command" /\ Left(w) = 0 /\ TextureDepthPanics(w)

Gp0(w) == running /\ Known(w) /\ running' = running

Collect(w) ==
    /\ Gp0(w)
    /\ mGp0Mode = "Command" /\ Left(w) > 0
    /\ mGp0WordsRemaining' = Left(w) /\ mGp0CommandMethod' = Method(w)
    /\ mGp0Command' = Append(Received, w)
    /\ ran' = NoCommand
    /\ NoRendering
    /\ UNCHANGED <<reg, mGp0Mode>>

(* The last word of a command, which then runs. *)
LastWord(w) ==
    /\ Gp0(w)
    /\ mGp0Mode = "Command" /\ Left(w) = 0
    /\ mGp0CommandMethod' = Method(w)
    /\ mGp0Command' = Append(Received, w)
    /\ ran' = [op |-> Method(w), words |-> mGp0Command']

CommandDone == mGp0WordsRemaining' = 0 /\ UNCHANGED mGp0Mode

(* Commands that change nothing (image store is not implemented). *)
RunNothing(w) ==
    /\ LastWord(w)
    /\ Method(w) \in {\h00, \h01, \hc0}
    /\ CommandDone /\ NoRendering
    /\ UNCHANGED reg

RunSetting(w) ==
    /\ LastWord(w)
    /\ Method(w) \in {\he1, \he2, \he3, \he4, \he6} /\ ~TextureDepthPanics(w)
    /\ reg' = Decode(Fields(Method(w)), w.arg)
    /\ CommandDone /\ NoRendering

(* Changing the offset also displays what has been drawn. *)
RunDrawingOffset(w) ==
    /\ LastWord(w)
    /\ Method(w) = \he5
    /\ reg' = Assign([mDrawingXOffset |-> SignExtend(Slice(w.arg, 0, 11)),
                       mDrawingYOffset |-> SignExtend(Slice(w.arg, 11, 11))])
    /\ Render(Draw(Buffer))
    /\ CommandDone

RunDraw(w) ==
    /\ LastWord(w)
    /\ Method(w) \in {\h28, \h2c, \h30, \h38}
    /\ Render(Push(mGp0Command'))
    /\ CommandDone
    /\ UNCHANGED reg

ImageWordsVariant(size) == ((size.arg % 2^16) * (size.op * 2^8 + (size.arg \div 2^16))) \div 2
(* Two pixels to a word, rounded up. *)
ImageWords(size) ==
    ((size.arg % 2^16) * (size.op * 2^8 + (size.arg \div 2^16)) + 1) \div 2

RunImageLoad(w) ==
    /\ LastWord(w)
    /\ Method(w) = \ha0
    /\ mGp0WordsRemaining' = ImageWords(w)
    /\ mGp0Mode' = "ImageLoad"
    /\ NoRendering
    /\ UNCHANGED reg

(* A word swallowed in ImageLoad mode; if nothing was due it has been      *)
(* taken for a command all the same.                                       *)
ImageWord(w) ==
    /\ Gp0(w)
    /\ mGp0Mode = "ImageLoad"
    /\ mGp0WordsRemaining' = Left(w) /\ mGp0CommandMethod' = Method(w)
    /\ mGp0Command' = Received
    /\ mGp0Mode' = IF Left(w) = 0 THEN "Command" ELSE "ImageLoad"
    /\ ran' = NoCommand
    /\ NoRendering
    /\ UNCHANGED reg
-----------------------------------------------------------------------------
Gp1(w, ops) ==
    /\ running /\ w \in Gp1Words /\ w.op \in ops
    /\ ran' = NoCommand
    /\ NoRendering
    /\ running' = running

ResetCommandBuffer ==
    /\ mGp0Command' = <<>>
    /\ mGp0WordsRemaining' = 0
    /\ mGp0Mode' = "Command"
    /\ UNCHANGED mGp0CommandMethod

(* The fields gp1Reset assigns zero to. *)
ClearedFields == {
    "mPageBaseX", "mPageBaseY", "mSemiTransparency", "mTextureDepth",
    "mTextureWindowXMask", "mTextureWindowYMask", "mTextureWindowXOffset",
    "mTextureWindowYOffset", "mDithering", "mDrawToDisplay", "mTextureDisable",
    "mRectangleTextureXFlip", "mRectangleTextureYFlip", "mDrawingAreaLeft",
    "mDrawingAreaTop", "mDrawingAreaRight", "mDrawingAreaBottom",
    "mDrawingXOffset", "mDrawingYOffset", "mForceSetMaskBit",
    "mPreserveMaskedPixels", "mDmaDirection", "mDisplayVramXStart",
    "mDisplayVramYStart", "mHres", "mVres", "mVmode", "mDisplayDepth" }

SoftResetVariant ==
    [f \in Field |-> CASE f \in ClearedFields -> 0
                       [] f \in {"mDisplayDisabled", "mInterlaced"} -> 1
                       [] OTHER -> reg[f]]
(* A field gp1Reset does not assign to keeps its value. *)
SoftReset ==
    [f \in Field |-> CASE f \in ClearedFields -> 0
                       [] f \in {"mDisplayDisabled", "mInterlaced"} -> 1
                       [] f = "mDisplayHorizStart" -> \h200
                       [] f = "mDisplayHorizEnd"   -> \hc00
                       [] f = "mDisplayLineStart"  -> \h10
                       [] f = "mDisplayLineEnd"    -> \h100
                       [] OTHER -> reg[f]]

Reset(w) == Gp1(w, {\h00}) /\ ResetCommandBuffer /\ reg' = SoftReset

ResetBuffer(w) == Gp1(w, {\h01}) /\ ResetCommandBuffer /\ UNCHANGED reg

(* No interrupt is ever raised, so there is none to acknowledge. *)
AcknowledgeIrq(w) == Gp1(w, {\h02}) /\ UNCHANGED <<reg, port>>

DisplaySetting(w) ==
    /\ Gp1(w, {\h03, \h04, \h06, \h07})
    /\ reg' = Decode(DisplayFields(w.op), w.arg)
    /\ UNCHANGED port

DisplayVramStart(w) ==
    /\ Gp1(w, {\h05})
    /\ reg' = Assign([mDisplayVramXStart |-> 2 * Slice(w.arg, 1, 9),
                       mDisplayVramYStart |-> Slice(w.arg, 10, 9)])
    /\ UNCHANGED port

(* `val & 0x4 != 0' is `val & (0x4 != 0)': four fields decode bit 0.       *)
DisplayMode(w) ==
    /\ Gp1(w, {\h08})
    /\ Slice(w.arg, 7, 1) = 0
    /\ LET bit == w.arg % 2
       IN reg' = Assign([mHres |-> Slice(w.arg, 6, 1) + 2 * Slice(w.arg, 0, 2),
                         mVres |-> bit, mVmode |-> bit,
                         mDisplayDepth |-> 1 - bit, mInterlaced |-> bit])
    /\ UNCHANGED port

(* An unknown command or display mode. *)
Gp1Panics(w) == w.op \notin 0 .. 8 \/ (w.op = \h08 /\ Slice(w.arg, 7, 1) = 1)

Panic ==
    /\ running
    /\ \/ \E w \in Inputs : Gp0Panics(w)
       \/ \E w \in Gp1Words : Gp1Panics(w)
    /\ running' = FALSE
    /\ UNCHANGED <<reg, port, mVertexBuf, ran, draws>>
-----------------------------------------------------------------------------
Gp0Step(w) == \/ Collect(w) \/ RunNothing(w) \/ RunSetting(w)
              \/ RunDrawingOffset(w) \/ RunDraw(w) \/ RunImageLoad(w)
              \/ ImageWord(w)
Gp1Step(w) == \/ Reset(w) \/ ResetBuffer(w) \/ AcknowledgeIrq(w)
              \/ DisplaySetting(w) \/ DisplayVramStart(w) \/ DisplayMode(w)

Next == \/ \E w \in Inputs : Gp0Step(w)
        \/ \E w \in Gp1Words : Gp1Step(w)
        \/ Panic

Spec == Init /\ [][Next]_vars
=============================================================================

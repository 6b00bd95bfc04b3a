------------------------------ MODULE GpuProofs ------------------------------
(***************************************************************************)
(* What is proved of the GPU, for every set of words written to its ports  *)
(* and every length of the vertex buffer.                                  *)
(***************************************************************************)
EXTENDS GpuProps, Induction

LEMMA LengthType ==
    ASSUME NEW op
    PROVE  Length(op) \in 1 .. 9
BY DEF Length

LEMMA InputType == ASSUME NEW w \in Inputs PROVE w \in Word
BY GpuAssumption DEF Inputs

LEMMA WordFields ==
    ASSUME NEW w \in Word PROVE w.op \in 0 .. 255 /\ w.arg \in Nat
<1>1. w.arg \in 0 .. 2^24 - 1 /\ w.op \in 0 .. 255
  BY DEF Word
<1> QED
  BY <1>1

(* Every action of GP0 belongs to one of three kinds. *)
RunAny(w) == \/ RunNothing(w) \/ RunSetting(w) \/ RunDrawingOffset(w)
             \/ RunDraw(w) \/ RunImageLoad(w)

LEMMA RunEffect ==
    ASSUME NEW w, RunAny(w)
    PROVE  /\ LastWord(w)
           /\ \/ CommandDone
              \/ mGp0WordsRemaining' = ImageWords(w) /\ mGp0Mode' = "ImageLoad"
BY DEF RunAny, RunNothing, RunSetting, RunDrawingOffset, RunDraw, RunImageLoad

Pixels(size) == (size.arg % 2^16) * (size.op * 2^8 + (size.arg \div 2^16))

LEMMA PixelsType == ASSUME NEW w \in Word PROVE Pixels(w) \in Nat
<1>1. 2^16 \in Nat \ {0} /\ 2^8 \in Nat
  OBVIOUS
<1>2. (w.arg % 2^16) \in Nat /\ (w.op * 2^8 + (w.arg \div 2^16)) \in Nat
  BY <1>1, WordFields
<1> QED
  BY <1>2 DEF Pixels

LEMMA ImageWordsType ==
    ASSUME NEW w \in Word
    PROVE  ImageWords(w) \in Nat /\ ImageWords(w) = (Pixels(w) + 1) \div 2
<1>1. ImageWords(w) = (Pixels(w) + 1) \div 2
  BY DEF ImageWords, Pixels
<1> QED
  BY <1>1, PixelsType
-----------------------------------------------------------------------------
(* The port is well typed, and between two words of a command the words    *)
(* received and the words due make up the command.                         *)
PortType ==
    /\ mGp0WordsRemaining \in Nat
    /\ mGp0CommandMethod \in MethodOps
    /\ mGp0Command \in Seq(Word)
    /\ mGp0Mode \in {"Command", "ImageLoad"}
PortInv == PortType /\ CommandFits

LEMMA PortInit == Init => PortInv
BY DEF Init, PortInv, PortType, CommandFits, MethodOps, Word

LEMMA MethodType ==
    ASSUME PortType, NEW w, Known(w) PROVE Method(w) \in MethodOps
BY DEF PortType, Known, Method, Fresh

LEMMA LeftType ==
    ASSUME PortType, NEW w PROVE Left(w) \in Nat
BY LengthType DEF PortType, Left, Fresh

(* The words received, with the next one. *)
LEMMA ReceivedFits ==
    ASSUME PortInv, NEW w \in Inputs, mGp0Mode = "Command"
    PROVE  LET cmd == Append(Received, w)
           IN /\ cmd \in Seq(Word)
              /\ Len(cmd) = Len(Received) + 1
              /\ Len(cmd) + Left(w) = Length(Method(w))
              /\ cmd[1].op = Method(w)
<1>1. Received \in Seq(Word) /\ w \in Word
  BY InputType DEF PortInv, PortType, Received
<1>2. CASE Fresh
  BY <1>1, <1>2, LengthType DEF Received, Left, Method
<1>3. CASE ~Fresh
  <2>1. Len(mGp0Command) > 0 /\ mGp0Command[1].op = mGp0CommandMethod
        /\ Len(mGp0Command) + mGp0WordsRemaining = Length(mGp0CommandMethod)
    BY <1>3 DEF PortInv, PortType, CommandFits, Fresh
  <2> QED
    BY <1>1, <1>3, <2>1, LengthType DEF Received, Left, Method, PortInv, PortType
<1> QED
  BY <1>2, <1>3

LEMMA PortGp0 ==
    ASSUME PortInv, NEW w \in Inputs, Gp0Step(w) PROVE PortInv'
<1> USE DEF PortInv
<1>1. CASE Collect(w)
  <2>1. Left(w) \in Nat /\ Left(w) > 0
    BY <1>1, LeftType DEF Collect
  <2>2. Method(w) \in MethodOps
    BY <1>1, MethodType DEF Collect, Gp0
  <2>3. PortType'
    BY <1>1, <2>1, <2>2, ReceivedFits DEF Collect, PortType
  <2>4. CommandFits'
    BY <1>1, <2>1, ReceivedFits, LengthType DEF Collect, CommandFits
  <2> QED
    BY <2>3, <2>4
<1>2. CASE RunAny(w)
  <2>1. mGp0Mode = "Command" /\ Left(w) = 0 /\ mGp0CommandMethod' = Method(w)
        /\ mGp0Command' = Append(Received, w) /\ Known(w)
    BY <1>2, RunEffect DEF LastWord, Gp0
  <2>2. \/ mGp0WordsRemaining' = 0 /\ mGp0Mode' = "Command"
        \/ mGp0WordsRemaining' \in Nat /\ mGp0Mode' = "ImageLoad"
    BY <1>2, <2>1, RunEffect, ImageWordsType, InputType DEF CommandDone
  <2>3. PortType'
    BY <2>1, <2>2, MethodType, ReceivedFits DEF PortType
  <2>4. CommandFits'
    BY <2>1, <2>2, ReceivedFits, LengthType DEF CommandFits
  <2> QED
    BY <2>3, <2>4
<1>3. CASE ImageWord(w)
  <2>1. PortType'
    BY <1>3, LeftType, MethodType DEF ImageWord, Gp0, PortType, Received
  <2>2. Received = <<>> \/ Received = mGp0Command
    BY DEF Received
  <2>3. CommandFits'
    BY <1>3, <2>1, <2>2 DEF ImageWord, CommandFits, PortType
  <2> QED
    BY <2>1, <2>3
<1> QED
  BY <1>1, <1>2, <1>3 DEF Gp0Step, RunAny

LEMMA PortGp1 ==
    ASSUME PortInv, NEW w \in Gp1Words, Gp1Step(w) PROVE PortInv'
<1>1. CASE ResetCommandBuffer
  BY <1>1 DEF ResetCommandBuffer, PortInv, PortType, CommandFits
<1>2. CASE UNCHANGED port
  BY <1>2 DEF port, PortInv, PortType, CommandFits
<1> QED
  BY <1>1, <1>2 DEF Gp1Step, Reset, ResetBuffer, AcknowledgeIrq, DisplaySetting,
                    DisplayVramStart, DisplayMode

LEMMA PortStep == PortInv /\ [Next]_vars => PortInv'
<1> SUFFICES ASSUME PortInv, [Next]_vars PROVE PortInv'
  OBVIOUS
<1>1. ASSUME NEW w \in Inputs, Gp0Step(w) PROVE PortInv'
  BY <1>1, PortGp0
<1>2. ASSUME NEW w \in Gp1Words, Gp1Step(w) PROVE PortInv'
  BY <1>2, PortGp1
<1>3. CASE Panic \/ UNCHANGED vars
  BY <1>3 DEF Panic, vars, port, PortInv, PortType, CommandFits
<1> QED
  BY <1>1, <1>2, <1>3 DEF Next

(* The command buffer holds the words received of the command that is due, *)
(* at most twelve (gp0, CommandBuffer), for any words on both ports.       *)
THEOREM CommandFitsCorrect == Spec => []CommandFits
<1>1. PortInv => CommandFits
  BY DEF PortInv
<1> QED
  BY <1>1, PortInit, PortStep, PTL DEF Spec
-----------------------------------------------------------------------------
(* The observer: in Command mode it has seen the words of the command that *)
(* is due; in an image, the words that are no longer remaining.            *)
SinceInv ==
    /\ PortInv
    /\ since \in Seq(Word)
    /\ mGp0Mode = "Command" =>
          since = IF mGp0WordsRemaining = 0 THEN <<>> ELSE mGp0Command
    /\ mGp0Mode = "ImageLoad" /\ mGp0Command # <<>> =>
          /\ Len(mGp0Command) = 3
          /\ Len(since) + mGp0WordsRemaining = ImageWords(mGp0Command[3])

LEMMA SinceInit == ObservedInit => SinceInv
BY PortInit DEF ObservedInit, SinceInv, Init

LEMMA SinceCollect ==
    ASSUME SinceInv, NEW w \in Inputs, Collect(w), ObserveGp0(w), PortInv'
    PROVE  SinceInv'
<1>1. mGp0Mode = "Command" /\ mGp0Mode' = "Command" /\ mGp0WordsRemaining' # 0
  BY LeftType DEF Collect, SinceInv, PortInv
<1>2. ran' = NoCommand /\ mGp0Command' = Append(Received, w)
  BY DEF Collect
<1>3. since' = Append(since, w)
  BY <1>1, <1>2 DEF ObserveGp0, Ran, ImageEnds
<1>4. since = Received
  BY <1>1 DEF SinceInv, Received, Fresh
<1>5. since' \in Seq(Word)
  BY <1>3, InputType DEF SinceInv
<1> QED
  BY <1>1, <1>2, <1>3, <1>4, <1>5 DEF SinceInv

(* The words of a command that runs are those since the one before. *)
LEMMA RunWords ==
    ASSUME SinceInv, NEW w \in Inputs, RunAny(w)
    PROVE  /\ ran' = [op |-> Method(w), words |-> Append(since, w)]
           /\ mGp0Command' = Append(since, w)
           /\ running' /\ ran' # NoCommand
           /\ Len(Append(since, w)) = Length(Method(w))
           /\ Append(since, w)[1].op = Method(w)
<1>1. /\ mGp0Mode = "Command" /\ Left(w) = 0 /\ running'
      /\ mGp0Command' = Append(Received, w)
      /\ ran' = [op |-> Method(w), words |-> Append(Received, w)]
  BY RunEffect DEF LastWord, Gp0
<1>2. since = Received
  BY <1>1 DEF SinceInv, Received, Fresh
<1>3. /\ Len(Append(Received, w)) + Left(w) = Length(Method(w))
      /\ Append(Received, w)[1].op = Method(w)
      /\ Append(Received, w) \in Seq(Word)
  BY <1>1, ReceivedFits DEF SinceInv
<1>4. Len(Append(Received, w)) = Length(Method(w))
  BY <1>1, <1>3
<1>5. Append(Received, w) # <<>>
  BY <1>3, <1>4, LengthType
<1>6. ran' # NoCommand
  BY <1>1, <1>5 DEF NoCommand
<1> QED
  BY <1>1, <1>2, <1>3, <1>4, <1>6

LEMMA SinceRun ==
    ASSUME SinceInv, NEW w \in Inputs, RunAny(w), ObserveGp0(w), PortInv'
    PROVE  SinceInv'
<1>1. since' = <<>>
  BY RunWords DEF ObserveGp0, Ran
<1>2. CASE mGp0WordsRemaining' = 0 /\ mGp0Mode' = "Command"
  BY <1>1, <1>2 DEF SinceInv
<1>3. CASE RunImageLoad(w)
  <2>1. Method(w) = \ha0 /\ mGp0WordsRemaining' = ImageWords(w)
        /\ mGp0Mode' = "ImageLoad"
    BY <1>3 DEF RunImageLoad
  <2>2. Len(Append(since, w)) = 3
    BY <2>1, RunWords DEF Length
  <2>3. Append(since, w)[3] = w
    BY <2>2, InputType DEF SinceInv
  <2>4. ImageWords(w) \in Nat
    BY ImageWordsType, InputType
  <2>5. mGp0Command' = Append(since, w)
    BY RunWords
  <2>6. Len(mGp0Command') = 3 /\ mGp0Command'[3] = w
    BY <2>2, <2>3, <2>5
  <2>7. Len(since') + mGp0WordsRemaining' = ImageWords(mGp0Command'[3])
    BY <1>1, <2>1, <2>4, <2>6
  <2> QED
    BY <1>1, <2>1, <2>6, <2>7 DEF SinceInv
<1> QED
  BY <1>2, <1>3, RunEffect DEF RunAny, CommandDone, RunNothing, RunSetting,
       RunDrawingOffset, RunDraw, RunImageLoad, LastWord

LEMMA SinceImage ==
    ASSUME SinceInv, NEW w \in Inputs, ImageWord(w), ObserveGp0(w), PortInv'
    PROVE  SinceInv'
<1>1. /\ mGp0Mode = "ImageLoad" /\ mGp0WordsRemaining' = Left(w)
      /\ mGp0Command' = Received /\ ran' = NoCommand
      /\ mGp0Mode' = IF Left(w) = 0 THEN "Command" ELSE "ImageLoad"
  BY DEF ImageWord
<1>2. since' = IF ImageEnds THEN <<>> ELSE Append(since, w)
  BY <1>1 DEF ObserveGp0, Ran
<1>3. CASE Left(w) = 0
  BY <1>1, <1>2, <1>3 DEF ImageEnds, SinceInv
<1>4. CASE Left(w) # 0
  <2>1. since' = Append(since, w) /\ mGp0Mode' = "ImageLoad"
    BY <1>1, <1>2, <1>4 DEF ImageEnds
  <2>2. since' \in Seq(Word) /\ Len(since') = Len(since) + 1
    BY <2>1, InputType DEF SinceInv
  <2>3. mGp0Command' # <<>> => ~Fresh /\ mGp0Command' = mGp0Command
    BY <1>1 DEF Received
  <2>4. ~Fresh => mGp0WordsRemaining' = mGp0WordsRemaining - 1
                  /\ mGp0WordsRemaining \in Nat
    BY <1>1 DEF Left, SinceInv, PortInv, PortType
  <2>5. mGp0Command' # <<>> =>
            /\ Len(mGp0Command') = 3
            /\ Len(since') + mGp0WordsRemaining' = ImageWords(mGp0Command'[3])
    BY <1>1, <2>2, <2>3, <2>4 DEF SinceInv
  <2> QED
    BY <2>1, <2>2, <2>5 DEF SinceInv
<1> QED
  BY <1>3, <1>4

LEMMA SinceGp1 ==
    ASSUME SinceInv, NEW w \in Gp1Words, Gp1Step(w), ObserveGp1(w), PortInv'
    PROVE  SinceInv'
<1>1. CASE Reset(w) \/ ResetBuffer(w)
  <2>1. w.op \in {\h00, \h01} /\ ResetCommandBuffer
    BY <1>1 DEF Reset, ResetBuffer, Gp1
  <2>2. since' = <<>> /\ mGp0WordsRemaining' = 0 /\ mGp0Mode' = "Command"
    BY <2>1 DEF ObserveGp1, ResetCommandBuffer
  <2> QED
    BY <2>2 DEF SinceInv
<1>2. CASE AcknowledgeIrq(w) \/ DisplaySetting(w) \/ DisplayVramStart(w)
           \/ DisplayMode(w)
  <2>1. w.op \notin {\h00, \h01} /\ UNCHANGED port
    BY <1>2 DEF AcknowledgeIrq, DisplaySetting, DisplayVramStart, DisplayMode, Gp1
  <2>2. since' = since
    BY <2>1 DEF ObserveGp1
  <2> QED
    BY <2>1, <2>2 DEF SinceInv, port
<1> QED
  BY <1>1, <1>2 DEF Gp1Step

LEMMA ObservedIsNext == [ObservedNext]_obsVars => [Next]_vars
BY DEF ObservedNext, Next, obsVars

LEMMA SinceStep == SinceInv /\ [ObservedNext]_obsVars => SinceInv'
<1> SUFFICES ASSUME SinceInv, [ObservedNext]_obsVars PROVE SinceInv'
  OBVIOUS
<1>1. PortInv'
  BY PortStep, ObservedIsNext DEF SinceInv
<1>2. ASSUME NEW w \in Inputs, Gp0Step(w), ObserveGp0(w) PROVE SinceInv'
  BY <1>1, <1>2, SinceCollect, SinceRun, SinceImage DEF Gp0Step, RunAny
<1>3. ASSUME NEW w \in Gp1Words, Gp1Step(w), ObserveGp1(w) PROVE SinceInv'
  BY <1>1, <1>3, SinceGp1
<1>4. CASE (Panic /\ UNCHANGED <<since, last>>) \/ UNCHANGED obsVars
  BY <1>1, <1>4 DEF Panic, obsVars, vars, port, SinceInv
<1> QED
  BY <1>2, <1>3, <1>4 DEF ObservedNext

LEMMA SinceInvariant == ObservedSpec => []SinceInv
BY SinceInit, SinceStep, PTL DEF ObservedSpec
-----------------------------------------------------------------------------
(* A command runs on the words written since the one before it ended, all  *)
(* of them and no others (gp0), for any words on both ports.               *)
THEOREM RunsOnItsWordsCorrect == ObservedSpec => RunsOnItsWords
<1> DEFINE Whole == Ran => /\ Len(ran'.words) = Length(ran'.op)
                           /\ Len(ran'.words) = Len(since) + 1
                           /\ SubSeq(ran'.words, 1, Len(since)) = since
                           /\ ran'.words[1].op = ran'.op
<1>1. SinceInv /\ [ObservedNext]_obsVars => [Whole]_obsVars
  <2> SUFFICES ASSUME SinceInv, ObservedNext, Ran PROVE Whole
    BY DEF ObservedNext
  <2>1. PICK w \in Inputs : RunAny(w)
    BY DEF ObservedNext, Ran, Panic, Gp0Step, RunAny, Collect, ImageWord,
           Gp1Step, Reset, ResetBuffer, AcknowledgeIrq, DisplaySetting,
           DisplayVramStart, DisplayMode, Gp1
  <2>2. w \in Word /\ since \in Seq(Word)
    BY InputType DEF SinceInv
  <2>3. SubSeq(Append(since, w), 1, Len(since)) = since
        /\ Len(Append(since, w)) = Len(since) + 1
    BY <2>2
  <2> QED
    BY <2>1, <2>3, RunWords
<1>2. ObservedSpec => [][Whole]_obsVars
  BY <1>1, SinceInvariant, PTL DEF ObservedSpec
<1> QED
  BY <1>2 DEF RunsOnItsWords

(* An image swallows the words that hold its pixels (gp0ImageLoad), for    *)
(* images of any size.                                                     *)
THEOREM ImageIsExactCorrect == ObservedSpec => ImageIsExact
<1> DEFINE Exact == LET size == mGp0Command[3]
                    IN ImageEnds /\ mGp0Command' # <<>> /\ Pixels(size) > 0
                       => 2 * (Len(since) + 1) \in {Pixels(size), Pixels(size) + 1}
<1>1. SinceInv /\ [ObservedNext]_obsVars => [Exact]_obsVars
  <2> SUFFICES ASSUME SinceInv, ObservedNext, ImageEnds, mGp0Command' # <<>>,
                      Pixels(mGp0Command[3]) > 0
               PROVE  2 * (Len(since) + 1) \in {Pixels(mGp0Command[3]),
                                                Pixels(mGp0Command[3]) + 1}
    BY DEF Pixels
  <2>1. PICK w \in Inputs : ImageWord(w)
    BY DEF ObservedNext, ImageEnds, Panic, port, Gp0Step, Collect, RunNothing,
           RunSetting, RunDrawingOffset, RunDraw, RunImageLoad, LastWord,
           Gp1Step, Reset, ResetBuffer, ResetCommandBuffer, AcknowledgeIrq,
           DisplaySetting, DisplayVramStart, DisplayMode
  <2>2. Left(w) = 0 /\ ~Fresh /\ mGp0Command # <<>>
    BY <2>1 DEF ImageWord, ImageEnds, Received
  <2>3. mGp0WordsRemaining = 1
    BY <2>2 DEF Left, SinceInv, PortInv, PortType
  <2>4. Len(mGp0Command) = 3 /\ Len(since) + 1 = ImageWords(mGp0Command[3])
    BY <2>2, <2>3 DEF SinceInv, ImageEnds
  <2>5. mGp0Command[3] \in Word
    <3>1. mGp0Command \in Seq(Word)
      BY DEF SinceInv, PortInv, PortType
    <3>2. \A k \in 1 .. Len(mGp0Command) : mGp0Command[k] \in Word
      BY <3>1
    <3> HIDE DEF Exact
    <3> QED
      BY <2>4, <3>2
  <2>6. Pixels(mGp0Command[3]) \in Nat
    BY <2>5, PixelsType
  <2>7. ImageWords(mGp0Command[3]) = (Pixels(mGp0Command[3]) + 1) \div 2
    BY <2>5, ImageWordsType
  <2> QED
    BY <2>4, <2>6, <2>7
<1>2. ObservedSpec => [][Exact]_obsVars
  BY <1>1, SinceInvariant, PTL DEF ObservedSpec
<1> QED
  BY <1>2 DEF ImageIsExact, Pixels

(* After a soft reset the registers are those of a new Gpu, but for the    *)
(* interlaced mode (gp1Reset), whatever they held before.                  *)
THEOREM SoftResetCorrect == ObservedSpec => SoftResetForgets
<1> DEFINE After(f) == IF f = "mInterlaced" THEN 1 ELSE PowerOnReg[f]
<1>1. ASSUME NEW f \in ClearedFields PROVE f \in Field /\ SoftReset[f] = After(f)
  BY DEF ClearedFields, Field, SoftReset, PowerOnReg
<1>2. ASSUME NEW f \in Field \ ClearedFields PROVE SoftReset[f] = After(f)
  <2>1. f \in {"mDisplayDisabled", "mInterlaced", "mDisplayHorizStart",
               "mDisplayHorizEnd", "mDisplayLineStart", "mDisplayLineEnd"}
    BY DEF Field, ClearedFields
  <2> QED
    BY <2>1 DEF SoftReset, PowerOnReg
<1>3. \A f \in Field : SoftReset[f] = After(f)
  BY <1>1, <1>2
<1>4. [ObservedNext]_obsVars =>
        [\A w \in Gp1Words : Reset(w) =>
           /\ \A f \in Field : reg'[f] = After(f)
           /\ mGp0WordsRemaining' = 0 /\ mGp0Mode' = "Command"]_obsVars
  BY <1>3 DEF Reset, ResetCommandBuffer
<1> QED
  BY <1>4, PTL DEF ObservedSpec, SoftResetForgets
-----------------------------------------------------------------------------
(* The vertex buffer.  Every push makes room first, so that a buffer of    *)
(* whole triangles stays one, whatever its length.                         *)
Buffers == [vertices : Seq(Vertex), draws : Seq(Seq(Vertex))]
Whole(b) == /\ b \in Buffers
            /\ Len(b.vertices) <= VERTEX_BUFFER_LEN
            /\ Len(b.vertices) % 3 = 0
            /\ \A k \in 1 .. Len(b.draws) : Len(b.draws[k]) % 3 = 0

LEMMA DrawWhole ==
    ASSUME NEW b, Whole(b)
    PROVE  Whole(Draw(b)) /\ Len(Draw(b).vertices) = 0
<1>1. b.vertices \in Seq(Vertex) /\ b.draws \in Seq(Seq(Vertex))
  BY DEF Whole, Buffers
<1> DEFINE d == Append(b.draws, b.vertices)
<1>2. /\ d \in Seq(Seq(Vertex)) /\ Len(d) = Len(b.draws) + 1
      /\ \A k \in 1 .. Len(b.draws) : d[k] = b.draws[k]
      /\ d[Len(d)] = b.vertices
  BY <1>1
<1>3. /\ \A k \in 1 .. Len(b.draws) : Len(b.draws[k]) % 3 = 0
      /\ Len(b.vertices) % 3 = 0
  BY DEF Whole
<1>4. \A k \in 1 .. Len(d) : k \in 1 .. Len(b.draws) \/ k = Len(d)
  BY <1>1, <1>2
<1>5. \A k \in 1 .. Len(d) : Len(d[k]) % 3 = 0
  BY <1>2, <1>3, <1>4
<1>6. Draw(b).vertices = <<>> /\ Draw(b).draws = d
      /\ Draw(b) = [vertices |-> <<>>, draws |-> d]
  BY DEF Draw
<1>7. Draw(b) \in Buffers
  BY <1>2, <1>6 DEF Buffers
<1>8. Len(Draw(b).vertices) = 0 /\ 0 % 3 = 0 /\ 0 <= VERTEX_BUFFER_LEN
  BY <1>6, GpuAssumption
<1> HIDE DEF d
<1>9. \A k \in 1 .. Len(Draw(b).draws) : Len(Draw(b).draws[k]) % 3 = 0
  BY <1>5, <1>6
<1> QED
  BY <1>7, <1>8, <1>9 DEF Whole

LEMMA MakeRoomWhole ==
    ASSUME NEW b, Whole(b), NEW n \in 1 .. 4
    PROVE  /\ Whole(MakeRoom(b, n))
           /\ Len(MakeRoom(b, n).vertices) + n <= VERTEX_BUFFER_LEN
<1>1. b.vertices \in Seq(Vertex)
  BY DEF Whole, Buffers
<1> QED
  BY <1>1, DrawWhole, GpuAssumption DEF MakeRoom

LEMMA PushVertexEffect ==
    ASSUME NEW b \in Buffers, NEW v \in Vertex,
           Len(b.vertices) + 1 <= VERTEX_BUFFER_LEN
    PROVE  /\ PushVertex(b, v) = [vertices |-> Append(b.vertices, v), draws |-> b.draws]
           /\ PushVertex(b, v) \in Buffers
           /\ PushVertex(b, v).draws = b.draws
           /\ Len(PushVertex(b, v).vertices) = Len(b.vertices) + 1
<1>1. b.vertices \in Seq(Vertex) /\ b.draws \in Seq(Seq(Vertex))
  BY DEF Buffers
<1>2. MakeRoom(b, 1) = b
  BY <1>1, GpuAssumption DEF MakeRoom
<1>3. PushVertex(b, v) = [vertices |-> Append(b.vertices, v), draws |-> b.draws]
  BY <1>2 DEF PushVertex
<1> QED
  BY <1>1, <1>3 DEF Buffers

LEMMA ThreeMore == ASSUME NEW n \in Nat, n % 3 = 0 PROVE (n + 3) % 3 = 0
OBVIOUS

LEMMA PushTriangleWhole ==
    ASSUME NEW b, Whole(b), NEW v1 \in Vertex, NEW v2 \in Vertex, NEW v3 \in Vertex
    PROVE  Whole(PushTriangle(b, v1, v2, v3))
<1> DEFINE b0 == MakeRoom(b, 3)
           b1 == PushVertex(b0, v1)
           b2 == PushVertex(b1, v2)
           b3 == PushVertex(b2, v3)
<1>1. Whole(b0) /\ Len(b0.vertices) + 3 <= VERTEX_BUFFER_LEN
  BY MakeRoomWhole
<1>2. b0 \in Buffers /\ Len(b0.vertices) \in Nat
  BY <1>1 DEF Whole, Buffers
<1> HIDE DEF b0
<1>3. b1 \in Buffers /\ b1.draws = b0.draws /\ Len(b1.vertices) = Len(b0.vertices) + 1
  BY <1>1, <1>2, PushVertexEffect, GpuAssumption
<1> HIDE DEF b1
<1>4. b2 \in Buffers /\ b2.draws = b0.draws /\ Len(b2.vertices) = Len(b0.vertices) + 2
  BY <1>1, <1>2, <1>3, PushVertexEffect, GpuAssumption
<1> HIDE DEF b2
<1>5. b3 \in Buffers /\ b3.draws = b0.draws /\ Len(b3.vertices) = Len(b0.vertices) + 3
  BY <1>1, <1>2, <1>4, PushVertexEffect, GpuAssumption
<1>6. PushTriangle(b, v1, v2, v3) = b3
  BY DEF PushTriangle, b0, b1, b2
<1> HIDE DEF b3
<1>7. Len(b0.vertices) % 3 = 0
        /\ \A k \in 1 .. Len(b0.draws) : Len(b0.draws[k]) % 3 = 0
  BY <1>1 DEF Whole
<1>8. (Len(b0.vertices) + 3) % 3 = 0
  BY <1>2, <1>7, ThreeMore
<1> QED
  BY <1>1, <1>5, <1>6, <1>7, <1>8 DEF Whole

LEMMA PushQuadWhole ==
    ASSUME NEW b, Whole(b), NEW v1 \in Vertex, NEW v2 \in Vertex,
           NEW v3 \in Vertex, NEW v4 \in Vertex
    PROVE  Whole(PushQuad(b, v1, v2, v3, v4))
<1>1. Whole(MakeRoom(b, 4))
  BY MakeRoomWhole
<1>2. Whole(PushTriangle(MakeRoom(b, 4), v1, v2, v3))
  BY <1>1, PushTriangleWhole
<1> QED
  BY <1>2, PushTriangleWhole DEF PushQuad

LEMMA CornerType ==
    ASSUME NEW cmd \in Seq(Word), NEW pos \in 1 .. Len(cmd),
           NEW color \in 0 .. 2^24 - 1
    PROVE  Corner(cmd, pos, color) \in Vertex
<1>1. cmd[pos] \in Word
  OBVIOUS
<1> QED
  BY <1>1 DEF Corner, Vertex

LEMMA PushWhole ==
    ASSUME NEW cmd \in Seq(Word), Len(cmd) = Length(cmd[1].op),
           cmd[1].op \in {\h28, \h2c, \h30, \h38}, Whole(Buffer)
    PROVE  Whole(Push(cmd))
<1>1. \A k \in 1 .. Len(cmd) : cmd[k].arg \in 0 .. 2^24 - 1
  <2>1. \A k \in 1 .. Len(cmd) : cmd[k] \in Word
    OBVIOUS
  <2> QED
    BY <2>1 DEF Word
<1>2. Red \in 0 .. 2^24 - 1
  <2>1. 2^24 = 16777216
    OBVIOUS
  <2> QED
    BY <2>1 DEF Red
<1> DEFINE c == cmd[1].arg
<1>3. CASE cmd[1].op = \h28
  <2>1. Len(cmd) = 5
    BY <1>3 DEF Length
  <2>2. c \in 0 .. 2^24 - 1
    BY <1>1, <2>1
  <2> HIDE DEF c
  <2>3. \A k \in 1 .. 5 : Corner(cmd, k, c) \in Vertex
    BY <2>1, <2>2, CornerType
  <2>4. Push(cmd) = PushQuad(Buffer, Corner(cmd, 2, c), Corner(cmd, 3, c),
                             Corner(cmd, 4, c), Corner(cmd, 5, c))
    BY <1>3 DEF Push, c
  <2> QED
    BY <2>3, <2>4, PushQuadWhole
<1>4. CASE cmd[1].op = \h2c
  <2>1. Len(cmd) = 9
    BY <1>4 DEF Length
  <2>2. \A k \in 1 .. 9 : Corner(cmd, k, Red) \in Vertex
    BY <1>2, <2>1, CornerType
  <2> QED
    BY <1>4, <2>2, PushQuadWhole DEF Push
<1>5. CASE cmd[1].op = \h30
  <2>1. Len(cmd) = 6
    BY <1>5 DEF Length
  <2>2. \A k, j \in 1 .. 6 : Corner(cmd, k, cmd[j].arg) \in Vertex
    BY <1>1, <2>1, CornerType
  <2> QED
    BY <1>5, <2>2, PushTriangleWhole DEF Push
<1>6. CASE cmd[1].op = \h38
  <2>1. Len(cmd) = 8
    BY <1>6 DEF Length
  <2>2. \A k, j \in 1 .. 8 : Corner(cmd, k, cmd[j].arg) \in Vertex
    BY <1>1, <2>1, CornerType
  <2>3. Push(cmd) = PushQuad(Buffer, Corner(cmd, 2, cmd[1].arg),
                             Corner(cmd, 4, cmd[3].arg),
                             Corner(cmd, 6, cmd[5].arg),
                             Corner(cmd, 8, cmd[7].arg))
    BY <1>6 DEF Push
  <2>4. /\ Corner(cmd, 2, cmd[1].arg) \in Vertex /\ Corner(cmd, 4, cmd[3].arg) \in Vertex
        /\ Corner(cmd, 6, cmd[5].arg) \in Vertex /\ Corner(cmd, 8, cmd[7].arg) \in Vertex
    BY <2>2
  <2> QED
    BY <2>3, <2>4, PushQuadWhole
<1> QED
  BY <1>3, <1>4, <1>5, <1>6
-----------------------------------------------------------------------------
(* What is buffered and what a step has drawn are whole triangles. *)
BufferInv == PortInv /\ Whole(Buffer) /\ draws \in Seq(Seq(Vertex)) /\ WholeTriangles

LEMMA BufferInit == Init => BufferInv
<1> SUFFICES ASSUME Init PROVE BufferInv
  OBVIOUS
<1>1. mVertexBuf = <<>> /\ draws = <<>>
  BY DEF Init
<1>2. <<>> \in Seq(Vertex) /\ <<>> \in Seq(Seq(Vertex)) /\ Len(<<>>) = 0 /\ 0 % 3 = 0
  OBVIOUS
<1> QED
  BY <1>1, <1>2, PortInit, GpuAssumption DEF BufferInv, Whole, Buffers, Buffer, WholeTriangles

(* A step that renders leaves what the renderer was given. *)
LEMMA RenderWhole ==
    ASSUME NEW b, Whole(b), Render(b)
    PROVE  Whole(Buffer)' /\ draws' \in Seq(Seq(Vertex)) /\ WholeTriangles'
<1>1. mVertexBuf' = b.vertices /\ draws' = b.draws
  BY DEF Render
<1>2. b.vertices \in Seq(Vertex) /\ b.draws \in Seq(Seq(Vertex))
  BY DEF Whole, Buffers
<1>3. WholeTriangles'
  BY <1>1 DEF Whole, WholeTriangles
<1>4. Whole(Buffer)'
  BY <1>1, <1>2, <1>3 DEF Whole, Buffers, Buffer, WholeTriangles
<1> QED
  BY <1>1, <1>2, <1>3, <1>4

LEMMA NoRenderingWhole ==
    ASSUME BufferInv, NoRendering
    PROVE  Whole(Buffer)' /\ draws' \in Seq(Seq(Vertex)) /\ WholeTriangles'
<1>1. Render(Buffer)
  BY DEF NoRendering, Render, Buffer
<1> QED
  BY <1>1, RenderWhole DEF BufferInv

LEMMA BufferStep == BufferInv /\ [Next]_vars => BufferInv'
<1> SUFFICES ASSUME BufferInv, [Next]_vars PROVE BufferInv'
  OBVIOUS
<1>1. PortInv'
  BY PortStep DEF BufferInv
<1>2. CASE NoRendering
  BY <1>1, <1>2, NoRenderingWhole DEF BufferInv
<1>3. CASE \E w \in Inputs : RunDrawingOffset(w)
  <2>1. Render(Draw(Buffer))
    BY <1>3 DEF RunDrawingOffset
  <2>2. Whole(Draw(Buffer))
    BY DrawWhole DEF BufferInv
  <2> QED
    BY <1>1, <2>1, <2>2, RenderWhole DEF BufferInv
<1>4. CASE \E w \in Inputs : RunDraw(w)
  <2>1. PICK w \in Inputs : RunDraw(w)
    BY <1>4
  <2> DEFINE cmd == Append(Received, w)
  <2>2. /\ mGp0Mode = "Command" /\ Left(w) = 0 /\ mGp0Command' = cmd
        /\ Method(w) \in {\h28, \h2c, \h30, \h38} /\ Render(Push(cmd))
    BY <2>1 DEF RunDraw, LastWord
  <2>3. cmd \in Seq(Word) /\ Len(cmd) + Left(w) = Length(Method(w))
        /\ cmd[1].op = Method(w)
    BY <2>2, ReceivedFits DEF BufferInv
  <2> HIDE DEF cmd
  <2>4. Len(cmd) = Length(cmd[1].op)
    BY <2>2, <2>3
  <2>5. Whole(Push(cmd))
    BY <2>2, <2>3, <2>4, PushWhole DEF BufferInv
  <2> QED
    BY <1>1, <2>2, <2>5, RenderWhole DEF BufferInv
<1>5. CASE Panic \/ UNCHANGED vars
  BY <1>1, <1>5 DEF Panic, vars, BufferInv, Whole, Buffer, WholeTriangles
<1> QED
  BY <1>2, <1>3, <1>4, <1>5 DEF Next, Gp0Step, Gp1Step, Collect, RunNothing,
     RunSetting, RunImageLoad, ImageWord, Reset, ResetBuffer, AcknowledgeIrq,
     DisplaySetting, DisplayVramStart, DisplayMode, Gp1

(* The vertex buffer never overflows and only whole triangles are drawn    *)
(* (renderer.cpp), for a vertex buffer of any length from four vertices.   *)
THEOREM WholeTrianglesCorrect == Spec => []WholeTriangles
<1>1. BufferInv => WholeTriangles
  BY DEF BufferInv
<1> QED
  BY <1>1, BufferInit, BufferStep, PTL DEF Spec
-----------------------------------------------------------------------------
(* The registers. *)
RegType == reg \in Registers

LEMMA RegistersBound ==
    ASSUME NEW r, r = [f \in Field |-> r[f]],
           \A f \in Field : r[f] \in FieldValue,
           \A f \in Offsets : r[f] \in OffsetValue
    PROVE  r \in Registers
<1>1. r \in [Field -> FieldValue]
  BY Zenon
<1> QED
  BY <1>1, Zenon DEF Registers

LEMMA OffsetFits == ASSUME NEW x \in OffsetValue PROVE x \in FieldValue
BY DEF OffsetValue, FieldValue

LEMMA DefaultsFit ==
    /\ 0 \in FieldValue /\ 1 \in FieldValue /\ \h10 \in FieldValue
    /\ \h100 \in FieldValue /\ \h200 \in FieldValue /\ \hc00 \in FieldValue
    /\ 0 \in OffsetValue
BY DEF FieldValue, OffsetValue

LEMMA OffsetsCleared ==
    ASSUME NEW f \in Offsets
    PROVE  f \in Field /\ f \in ClearedFields
           /\ f \notin {"mDisplayHorizStart", "mDisplayHorizEnd", "mDisplayLineStart",
                        "mDisplayLineEnd", "mDisplayDisabled", "mInterlaced"}
BY DEF Offsets, Field, ClearedFields

LEMMA RegistersHold ==
    ASSUME NEW r \in Registers
    PROVE  /\ \A f \in Field : r[f] \in FieldValue
           /\ \A f \in Offsets : r[f] \in OffsetValue
BY DEF Registers

(* The powers of two that bit fields need, one by one. *)
Power(n) == 2^n

LEMMA PowerType ==
    ASSUME NEW n \in 0 .. 15
    PROVE  Power(n) \in Nat \ {0} /\ (n <= 12 => Power(n) <= 4096)
<1>0. CASE n = 0
  BY <1>0 DEF Power
<1>1. CASE n = 1
  BY <1>1 DEF Power
<1>2. CASE n = 2
  BY <1>2 DEF Power
<1>3. CASE n = 3
  BY <1>3 DEF Power
<1>4. CASE n = 4
  BY <1>4 DEF Power
<1>5. CASE n = 5
  BY <1>5 DEF Power
<1>6. CASE n = 6
  BY <1>6 DEF Power
<1>7. CASE n = 7
  BY <1>7 DEF Power
<1>8. CASE n = 8
  BY <1>8 DEF Power
<1>9. CASE n = 9
  BY <1>9 DEF Power
<1>10. CASE n = 10
  BY <1>10 DEF Power
<1>11. CASE n = 11
  BY <1>11 DEF Power
<1>12. CASE n = 12
  BY <1>12 DEF Power
<1>13. CASE n = 13
  BY <1>13 DEF Power
<1>14. CASE n = 14
  BY <1>14 DEF Power
<1>15. CASE n = 15
  BY <1>15 DEF Power
<1> QED
  BY <1>0, <1>1, <1>2, <1>3, <1>4, <1>5, <1>6, <1>7,
     <1>8, <1>9, <1>10, <1>11, <1>12, <1>13, <1>14, <1>15

LEMMA DivModBelow ==
    ASSUME NEW v \in Nat, NEW p \in Nat \ {0}, NEW q \in Nat \ {0}
    PROVE  ((v \div p) % q) \in Nat /\ ((v \div p) % q) < q
OBVIOUS

(* A table of bit fields: none of them holds an offset. *)
Table(fields) == \A f \in DOMAIN fields \cap Field :
                    f \notin Offsets /\ fields[f][1] \in 0 .. 15 /\ fields[f][2] \in 1 .. 12

LEMMA FieldsTable == ASSUME NEW op PROVE Table(Fields(op))
<1>1. CASE op = \he1
  BY <1>1 DEF Fields, Table, Offsets
<1>2. CASE op = \he2
  BY <1>2 DEF Fields, Table, Offsets
<1>3. CASE op = \he3
  BY <1>3 DEF Fields, Table, Offsets
<1>4. CASE op = \he4
  BY <1>4 DEF Fields, Table, Offsets
<1>5. CASE op \notin {\he1, \he2, \he3, \he4}
  BY <1>5 DEF Fields, Table, Offsets
<1> QED
  BY <1>1, <1>2, <1>3, <1>4, <1>5

LEMMA DisplayTable == ASSUME NEW op PROVE Table(DisplayFields(op))
<1>1. CASE op = \h03
  BY <1>1 DEF DisplayFields, Table, Offsets
<1>2. CASE op = \h04
  BY <1>2 DEF DisplayFields, Table, Offsets
<1>3. CASE op = \h06
  BY <1>3 DEF DisplayFields, Table, Offsets
<1>4. CASE op \notin {\h03, \h04, \h06}
  BY <1>4 DEF DisplayFields, Table, Offsets
<1> QED
  BY <1>1, <1>2, <1>3, <1>4

LEMMA AssignType ==
    ASSUME RegType, NEW values, reg' = Assign(values),
           \A f \in DOMAIN values \cap Field :
              values[f] \in FieldValue /\ (f \in Offsets => values[f] \in OffsetValue)
    PROVE  RegType'
<1>1. ASSUME NEW f \in Field
      PROVE  /\ Assign(values)[f] \in FieldValue
             /\ f \in Offsets => Assign(values)[f] \in OffsetValue
  <2>1. CASE f \in DOMAIN values
    BY <2>1 DEF Assign
  <2>2. CASE f \notin DOMAIN values
    BY <2>2, RegistersHold DEF Assign, RegType
  <2> QED
    BY <2>1, <2>2
<1>2. Assign(values) = [f \in Field |-> Assign(values)[f]]
  BY DEF Assign
<1>3. Offsets \subseteq Field
  BY DEF Offsets, Field
<1>4. Assign(values) \in Registers
  BY <1>1, <1>2, <1>3, RegistersBound, Zenon
<1> QED
  BY <1>4 DEF RegType

LEMMA DecodeType ==
    ASSUME RegType, NEW fields, Table(fields), NEW v \in Nat, reg' = Decode(fields, v)
    PROVE  RegType'
<1> DEFINE values == [f \in DOMAIN fields |-> Slice(v, fields[f][1], fields[f][2])]
<1>1. ASSUME NEW f \in DOMAIN fields \cap Field
      PROVE  values[f] \in FieldValue /\ f \notin Offsets
  <2>1. f \notin Offsets
    BY DEF Table
  <2>2. PICK lo \in 0 .. 15 : lo = fields[f][1]
    BY DEF Table
  <2>3. PICK width \in 1 .. 12 : width = fields[f][2]
    BY DEF Table
  <2>4. Power(lo) \in Nat \ {0}
    BY PowerType
  <2>5. Power(width) \in Nat \ {0} /\ Power(width) <= 4096
    BY PowerType
  <2>6. values[f] = (v \div Power(lo)) % Power(width)
    BY <2>2, <2>3 DEF Slice, Power
  <2> DEFINE p == Power(lo)  q == Power(width)  value == values[f]
  <2>7. p \in Nat \ {0} /\ q \in Nat \ {0} /\ q <= 4096 /\ value = (v \div p) % q
    BY <2>4, <2>5, <2>6
  <2> HIDE DEF p, q, value, values
  <2>8. value \in 0 .. 4095
    BY <2>7, DivModBelow
  <2> QED
    BY <2>1, <2>8 DEF value, FieldValue
<1>2. reg' = Assign(values) /\ DOMAIN values = DOMAIN fields
  BY DEF Decode
<1> HIDE DEF values
<1>3. \A f \in DOMAIN values \cap Field :
         values[f] \in FieldValue /\ (f \in Offsets => values[f] \in OffsetValue)
  BY <1>1, <1>2
<1> QED
  BY <1>2, <1>3, AssignType

LEMMA RegStep ==
    ASSUME RegType, PortType, [Next]_vars PROVE RegType'
<1>1. CASE UNCHANGED reg
  BY <1>1 DEF RegType
<1>2. ASSUME NEW w \in Inputs, RunSetting(w) PROVE RegType'
  <2>1. reg' = Decode(Fields(Method(w)), w.arg) /\ w.arg \in Nat
    BY <1>2, InputType, WordFields DEF RunSetting
  <2> QED
    BY <2>1, FieldsTable, DecodeType
<1>3. ASSUME NEW w \in Inputs, RunDrawingOffset(w) PROVE RegType'
  <2>1. PICK v \in Nat : v = w.arg
    BY <1>3, InputType, WordFields
  <2> DEFINE x == SignExtend(Slice(v, 0, 11))
             y == SignExtend(Slice(v, 11, 11))
             values == [mDrawingXOffset |-> x, mDrawingYOffset |-> y]
  <2>2. x \in OffsetValue /\ y \in OffsetValue
    BY DEF Slice, SignExtend, OffsetValue
  <2>3. reg' = Assign(values)
    BY <1>3, <2>1 DEF RunDrawingOffset
  <2> HIDE DEF x, y
  <2>4. /\ DOMAIN values = {"mDrawingXOffset", "mDrawingYOffset"}
        /\ values["mDrawingXOffset"] = x /\ values["mDrawingYOffset"] = y
    OBVIOUS
  <2> HIDE DEF values
  <2>5. \A f \in DOMAIN values \cap Field :
           values[f] \in FieldValue /\ (f \in Offsets => values[f] \in OffsetValue)
    BY <2>2, <2>4, OffsetFits
  <2> QED
    BY <2>3, <2>5, AssignType
<1>4. ASSUME NEW w \in Gp1Words, DisplaySetting(w) PROVE RegType'
  <2>1. reg' = Decode(DisplayFields(w.op), w.arg) /\ w.arg \in Nat
    BY <1>4, GpuAssumption, WordFields DEF DisplaySetting
  <2> QED
    BY <2>1, DisplayTable, DecodeType
<1>5. ASSUME NEW w \in Gp1Words, DisplayVramStart(w) PROVE RegType'
  <2>1. PICK v \in Nat : v = w.arg
    BY <1>5, GpuAssumption, WordFields
  <2> DEFINE x == 2 * Slice(v, 1, 9)
             y == Slice(v, 10, 9)
             values == [mDisplayVramXStart |-> x, mDisplayVramYStart |-> y]
  <2>2. x \in 0 .. 4095 /\ y \in 0 .. 4095
    BY DEF Slice
  <2>3. reg' = Assign(values)
    BY <1>5, <2>1 DEF DisplayVramStart
  <2> HIDE DEF x, y
  <2>4. x \in FieldValue /\ y \in FieldValue
    BY <2>2 DEF FieldValue
  <2>5. /\ DOMAIN values = {"mDisplayVramXStart", "mDisplayVramYStart"}
        /\ values["mDisplayVramXStart"] = x /\ values["mDisplayVramYStart"] = y
    OBVIOUS
  <2> HIDE DEF values
  <2>6. \A f \in DOMAIN values \cap Field :
           values[f] \in FieldValue /\ (f \in Offsets => values[f] \in OffsetValue)
    BY <2>4, <2>5 DEF Offsets
  <2> QED
    BY <2>3, <2>6, AssignType
<1>6. ASSUME NEW w \in Gp1Words, DisplayMode(w) PROVE RegType'
  <2>1. PICK v \in Nat : v = w.arg
    BY <1>6, GpuAssumption, WordFields
  <2> DEFINE hres == Slice(v, 6, 1) + 2 * Slice(v, 0, 2)
             bit == v % 2
             depth == 1 - bit
             values == [mHres |-> hres, mVres |-> bit, mVmode |-> bit,
                        mDisplayDepth |-> depth, mInterlaced |-> bit]
  <2>2. hres \in 0 .. 4095 /\ bit \in 0 .. 4095 /\ depth \in 0 .. 4095
    BY DEF Slice
  <2>3. reg' = Assign(values)
    BY <1>6, <2>1 DEF DisplayMode
  <2> HIDE DEF hres, bit, depth
  <2>4. hres \in FieldValue /\ bit \in FieldValue /\ depth \in FieldValue
    BY <2>2 DEF FieldValue
  <2>5. /\ DOMAIN values = {"mHres", "mVres", "mVmode", "mDisplayDepth", "mInterlaced"}
        /\ values["mHres"] = hres /\ values["mDisplayDepth"] = depth
        /\ \A f \in {"mVres", "mVmode", "mInterlaced"} : values[f] = bit
    OBVIOUS
  <2> HIDE DEF values
  <2>6. \A f \in DOMAIN values \cap Field :
           values[f] \in FieldValue /\ (f \in Offsets => values[f] \in OffsetValue)
    BY <2>4, <2>5 DEF Offsets
  <2> QED
    BY <2>3, <2>6, AssignType
<1>7. ASSUME NEW w \in Gp1Words, Reset(w) PROVE RegType'
  <2>1. ASSUME NEW f \in Field PROVE SoftReset[f] \in FieldValue
    <3>1. reg[f] \in FieldValue
      BY RegistersHold DEF RegType
    <3> QED
      BY <3>1, DefaultsFit DEF SoftReset
  <2>2. \A f \in Offsets : SoftReset[f] \in OffsetValue
    BY OffsetsCleared, DefaultsFit DEF SoftReset
  <2>3. SoftReset = [f \in Field |-> SoftReset[f]]
    BY DEF SoftReset
  <2>4. SoftReset \in Registers
    BY <2>1, <2>2, <2>3, RegistersBound
  <2> QED
    BY <1>7, <2>4 DEF Reset, RegType
<1> QED
  BY <1>1, <1>2, <1>3, <1>4, <1>5, <1>6, <1>7 DEF Next, Gp0Step, Gp1Step, Collect,
     RunNothing, RunDraw, RunImageLoad, ImageWord, ResetBuffer, AcknowledgeIrq,
     Panic, vars

LEMMA RanStep ==
    ASSUME PortInv, ran \in [op : MethodOps, words : Seq(Word)],
           running \in BOOLEAN, [Next]_vars
    PROVE  ran' \in [op : MethodOps, words : Seq(Word)] /\ running' \in BOOLEAN
<1>1. CASE ran' = NoCommand /\ UNCHANGED running
  BY <1>1 DEF NoCommand, MethodOps
<1>2. ASSUME NEW w \in Inputs, RunAny(w)
      PROVE  ran' \in [op : MethodOps, words : Seq(Word)] /\ UNCHANGED running
  <2>1. /\ ran' = [op |-> Method(w), words |-> Append(Received, w)]
        /\ mGp0Mode = "Command" /\ Known(w) /\ UNCHANGED running
    BY <1>2, RunEffect DEF LastWord, Gp0
  <2> QED
    BY <2>1, MethodType, ReceivedFits DEF PortInv
<1> QED
  BY <1>1, <1>2 DEF Next, Gp0Step, Gp1Step, RunAny, Collect, ImageWord, Gp0, Reset,
     ResetBuffer, AcknowledgeIrq, DisplaySetting, DisplayVramStart, DisplayMode,
     Gp1, Panic, vars

TypeInv == TypeOK /\ BufferInv

(* TypeOK in the parts its proof goes by. *)
LEMMA TypeParts ==
    TypeOK <=> /\ RegType /\ PortType
               /\ mVertexBuf \in Seq(Vertex) /\ draws \in Seq(Seq(Vertex))
               /\ ran \in [op : MethodOps, words : Seq(Word)]
               /\ running \in BOOLEAN
BY DEF TypeOK, RegType, PortType

(* The GPU keeps its state well typed, for every set of words on its ports: *)
(* no register leaves its range, no buffer holds anything but words.        *)
THEOREM TypeCorrect == Spec => []TypeOK
<1>1. Init => TypeInv
  <2> SUFFICES ASSUME Init PROVE TypeOK
    BY BufferInit DEF TypeInv
  <2>1. PowerOnReg = [f \in Field |-> PowerOnReg[f]]
    BY DEF PowerOnReg
  <2>2. \A f \in Field : PowerOnReg[f] \in FieldValue
    BY DefaultsFit DEF PowerOnReg
  <2>3. \A f \in Offsets : PowerOnReg[f] \in OffsetValue
    BY OffsetsCleared, DefaultsFit DEF PowerOnReg
  <2>4. RegType
    BY <2>1, <2>2, <2>3, RegistersBound DEF RegType, Init
  <2>5. PortType
    BY BufferInit DEF BufferInv, PortInv
  <2>6. ran \in [op : MethodOps, words : Seq(Word)] /\ running \in BOOLEAN
    BY DEF Init, NoCommand, MethodOps
  <2>7. mVertexBuf \in Seq(Vertex) /\ draws \in Seq(Seq(Vertex))
    BY DEF Init
  <2> QED
    BY <2>4, <2>5, <2>6, <2>7, TypeParts
<1>2. TypeInv /\ [Next]_vars => TypeInv'
  <2> SUFFICES ASSUME TypeInv, [Next]_vars PROVE TypeInv'
    OBVIOUS
  <2>1. BufferInv'
    BY BufferStep DEF TypeInv
  <2>2. PortType /\ PortType' /\ PortInv
    BY <2>1 DEF TypeInv, BufferInv, PortInv
  <2>3. RegType
    BY TypeParts DEF TypeInv
  <2>4. RegType'
    BY <2>2, <2>3, RegStep
  <2>5. ran' \in [op : MethodOps, words : Seq(Word)] /\ running' \in BOOLEAN
    BY <2>2, TypeParts, RanStep DEF TypeInv
  <2>6. mVertexBuf' \in Seq(Vertex) /\ draws' \in Seq(Seq(Vertex))
    BY <2>1 DEF BufferInv, Whole, Buffers, Buffer
  <2>7. TypeOK' <=> /\ RegType' /\ PortType'
                    /\ mVertexBuf' \in Seq(Vertex) /\ draws' \in Seq(Seq(Vertex))
                    /\ ran' \in [op : MethodOps, words : Seq(Word)]
                    /\ running' \in BOOLEAN
    BY DEF TypeOK, RegType, PortType
  <2> QED
    BY <2>1, <2>2, <2>4, <2>5, <2>6, <2>7 DEF TypeInv
<1>3. TypeInv => TypeOK
  BY DEF TypeInv
<1> QED
  BY <1>1, <1>2, <1>3, PTL DEF Spec
-----------------------------------------------------------------------------
(* STATUS: every field it shows holds the bits of the setting made last.   *)
Holds(r, fields, v) == \A f \in DOMAIN fields : r[f] = Slice(v, fields[f][1], fields[f][2])
Switches == {"mVmode", "mDisplayDepth", "mInterlaced"}
Resolution(v) == Slice(v, 6, 1) + 2 * Slice(v, 0, 2)
LastType == [drawMode : Nat, mask : Nat, enable : Nat, direction : Nat, mode : Nat]
Shown(r, s) ==
    /\ s \in LastType
    /\ Holds(r, Fields(\he1), s.drawMode) /\ Holds(r, Fields(\he6), s.mask)
    /\ Holds(r, DisplayFields(\h03), s.enable)
    /\ Holds(r, DisplayFields(\h04), s.direction)
    /\ r["mHres"] = Resolution(s.mode)
    /\ \A f \in Switches : r[f] \in 0 .. 1
Current == Shown(reg, last)

Bit(n, b) == (n \div 2^b) % 2 = 1

LEMMA PowerValues ==
    /\ Power(0) = 1 /\ Power(1) = 2 /\ Power(2) = 4 /\ Power(3) = 8
    /\ Power(4) = 16 /\ Power(5) = 32 /\ Power(6) = 64 /\ Power(7) = 128
    /\ Power(8) = 256 /\ Power(9) = 512 /\ Power(10) = 1024 /\ Power(11) = 2048
BY DEF Power

LEMMA PowerGrows ==
    ASSUME NEW width \in 1 .. 4, NEW b \in width .. 11
    PROVE  Power(b) \in Nat /\ Power(width) \in Nat /\ Power(width) <= Power(b)
<1>1. b \in {1, 2, 3, 4, 5, 6, 7, 8, 9, 10, 11} /\ width \in {1, 2, 3, 4} /\ width <= b
  OBVIOUS
<1> QED
  BY <1>1, PowerValues

(* A field of width bits shows in as many bits of STATUS, from lo. *)
LEMMA AtRange ==
    ASSUME NEW lo \in Nat, NEW width \in 1 .. 4, NEW f,
           reg[f] \in Nat, reg[f] < Power(width)
    PROVE  /\ At(lo, f) \subseteq lo .. lo + width - 1
           /\ \A b \in 0 .. width - 1 : lo + b \in At(lo, f) <=> Bit(reg[f], b)
<1> DEFINE n == reg[f]
<1>1. ASSUME NEW b \in 0 .. 11, Bit(n, b) PROVE b < width
  <2> SUFFICES ASSUME b >= width PROVE FALSE
    OBVIOUS
  <2> DEFINE p == Power(b)
  <2>1. p \in Nat /\ n < p /\ n \in Nat
    BY PowerGrows
  <2>2. (n \div p) % 2 = 1
    BY <1>1 DEF Bit, Power
  <2> HIDE DEF p, n
  <2>3. n \div p = 0
    BY <2>1
  <2> QED
    BY <2>2, <2>3
<1>2. At(lo, f) = {lo + b : b \in {c \in 0 .. 11 : Bit(n, c)}}
  BY DEF At, Bits, Bit
<1> HIDE DEF n
<1>3. At(lo, f) \subseteq lo .. lo + width - 1
  BY <1>1, <1>2
<1>4. ASSUME NEW b \in 0 .. width - 1 PROVE lo + b \in At(lo, f) <=> Bit(n, b)
  <2>1. b \in 0 .. 11
    OBVIOUS
  <2>2. \A c \in 0 .. 11 : lo + c = lo + b => c = b
    OBVIOUS
  <2> QED
    BY <1>2, <2>1, <2>2
<1> QED
  BY <1>3, <1>4 DEF n

(* The bits of a slice are bits of the word it is taken from. *)
LEMMA SliceBits ==
    ASSUME NEW v \in Nat
    PROVE  /\ Bit(Slice(v, 0, 4), 0) <=> Bit(v, 0)
           /\ Bit(Slice(v, 0, 4), 1) <=> Bit(v, 1)
           /\ Bit(Slice(v, 0, 4), 2) <=> Bit(v, 2)
           /\ Bit(Slice(v, 0, 4), 3) <=> Bit(v, 3)
           /\ Bit(Slice(v, 4, 1), 0) <=> Bit(v, 4)
           /\ Bit(Slice(v, 5, 2), 0) <=> Bit(v, 5)
           /\ Bit(Slice(v, 5, 2), 1) <=> Bit(v, 6)
           /\ Bit(Slice(v, 7, 2), 0) <=> Bit(v, 7)
           /\ Bit(Slice(v, 7, 2), 1) <=> Bit(v, 8)
           /\ Bit(Slice(v, 9, 1), 0) <=> Bit(v, 9)
           /\ Bit(Slice(v, 10, 1), 0) <=> Bit(v, 10)
           /\ Bit(Slice(v, 11, 1), 0) <=> Bit(v, 11)
           /\ Bit(Slice(v, 0, 1), 0) <=> Bit(v, 0)
           /\ Bit(Slice(v, 1, 1), 0) <=> Bit(v, 1)
           /\ Bit(Slice(v, 0, 2), 0) <=> Bit(v, 0)
           /\ Bit(Slice(v, 0, 2), 1) <=> Bit(v, 1)
<1>1. /\ Slice(v, 0, 4) = v % 16 /\ Slice(v, 4, 1) = (v \div 16) % 2
      /\ Slice(v, 5, 2) = (v \div 32) % 4 /\ Slice(v, 7, 2) = (v \div 128) % 4
      /\ Slice(v, 9, 1) = (v \div 512) % 2 /\ Slice(v, 10, 1) = (v \div 1024) % 2
      /\ Slice(v, 11, 1) = (v \div 2048) % 2 /\ Slice(v, 0, 1) = v % 2
      /\ Slice(v, 1, 1) = (v \div 2) % 2 /\ Slice(v, 0, 2) = v % 4
  BY DEF Slice
<1>2. \A n \in Nat :
         /\ (Bit(n, 0) <=> n % 2 = 1) /\ (Bit(n, 1) <=> (n \div 2) % 2 = 1)
         /\ (Bit(n, 2) <=> (n \div 4) % 2 = 1) /\ (Bit(n, 3) <=> (n \div 8) % 2 = 1)
         /\ (Bit(n, 4) <=> (n \div 16) % 2 = 1) /\ (Bit(n, 5) <=> (n \div 32) % 2 = 1)
         /\ (Bit(n, 6) <=> (n \div 64) % 2 = 1) /\ (Bit(n, 7) <=> (n \div 128) % 2 = 1)
         /\ (Bit(n, 8) <=> (n \div 256) % 2 = 1) /\ (Bit(n, 9) <=> (n \div 512) % 2 = 1)
         /\ (Bit(n, 10) <=> (n \div 1024) % 2 = 1) /\ (Bit(n, 11) <=> (n \div 2048) % 2 = 1)
  BY DEF Bit
<1>3. /\ v % 16 \in Nat /\ (v \div 16) % 2 \in Nat /\ (v \div 32) % 4 \in Nat
      /\ (v \div 128) % 4 \in Nat /\ (v \div 512) % 2 \in Nat
      /\ (v \div 1024) % 2 \in Nat /\ (v \div 2048) % 2 \in Nat
      /\ v % 2 \in Nat /\ (v \div 2) % 2 \in Nat /\ v % 4 \in Nat
  OBVIOUS
<1>4. /\ (v % 16) % 2 = v % 2 /\ ((v % 16) \div 2) % 2 = (v \div 2) % 2
      /\ ((v % 16) \div 4) % 2 = (v \div 4) % 2 /\ ((v % 16) \div 8) % 2 = (v \div 8) % 2
      /\ (v % 4) % 2 = v % 2 /\ ((v % 4) \div 2) % 2 = (v \div 2) % 2
      /\ (v % 2) % 2 = v % 2 /\ ((v \div 2) % 2) % 2 = (v \div 2) % 2
      /\ ((v \div 16) % 2) % 2 = (v \div 16) % 2
  OBVIOUS
<1>5. /\ ((v \div 32) % 4) % 2 = (v \div 32) % 2
      /\ (((v \div 32) % 4) \div 2) % 2 = (v \div 64) % 2
      /\ ((v \div 128) % 4) % 2 = (v \div 128) % 2
      /\ (((v \div 128) % 4) \div 2) % 2 = (v \div 256) % 2
  OBVIOUS
<1>6. /\ ((v \div 512) % 2) % 2 = (v \div 512) % 2
      /\ ((v \div 1024) % 2) % 2 = (v \div 1024) % 2
      /\ ((v \div 2048) % 2) % 2 = (v \div 2048) % 2
  OBVIOUS
<1> QED
  BY <1>1, <1>2, <1>3, <1>4, <1>5, <1>6

LEMMA SliceBelow ==
    ASSUME NEW v \in Nat, NEW lo \in 0 .. 15
    PROVE  /\ Slice(v, lo, 1) \in Nat /\ Slice(v, lo, 1) < 2
           /\ Slice(v, lo, 2) \in Nat /\ Slice(v, lo, 2) < 4
           /\ Slice(v, lo, 4) \in Nat /\ Slice(v, lo, 4) < 16
<1> DEFINE p == Power(lo)
<1>1. p \in Nat \ {0}
  BY PowerType
<1>2. /\ Slice(v, lo, 1) = (v \div p) % 2 /\ Slice(v, lo, 2) = (v \div p) % 4
      /\ Slice(v, lo, 4) = (v \div p) % 16
  BY DEF Slice, Power
<1> HIDE DEF p
<1>3. /\ (v \div p) % 2 \in Nat /\ (v \div p) % 2 < 2
      /\ (v \div p) % 4 \in Nat /\ (v \div p) % 4 < 4
      /\ (v \div p) % 16 \in Nat /\ (v \div p) % 16 < 16
  BY <1>1
<1> QED
  BY <1>2, <1>3

LEMMA StatusMember ==
    ASSUME NEW k
    PROVE  k \in Status <=>
              \/ k \in At(0, "mPageBaseX") \/ k \in At(4, "mPageBaseY")
              \/ k \in At(5, "mSemiTransparency") \/ k \in At(7, "mTextureDepth")
              \/ k \in At(9, "mDithering") \/ k \in At(10, "mDrawToDisplay")
              \/ k \in At(11, "mForceSetMaskBit") \/ k \in At(12, "mPreserveMaskedPixels")
              \/ k = 13
              \/ k \in At(15, "mTextureDisable") \/ k \in At(16, "mHres")
              \/ k \in At(20, "mVmode") \/ k \in At(21, "mDisplayDepth")
              \/ k \in At(22, "mInterlaced") \/ k \in At(23, "mDisplayDisabled")
              \/ k \in {26, 27, 28} \/ k \in At(29, "mDmaDirection")
              \/ k = 25 /\ reg["mDmaDirection"] # 0
BY DEF Status

(* A field that holds one, two or four bits of a setting. *)
LEMMA AtOne ==
    ASSUME NEW v \in Nat, NEW at \in Nat, NEW lo \in 0 .. 15, NEW f,
           reg[f] = Slice(v, lo, 1)
    PROVE  At(at, f) \subseteq at .. at /\ (at \in At(at, f) <=> Bit(Slice(v, lo, 1), 0))
<1>1. reg[f] \in Nat /\ reg[f] < Power(1)
  <2>1. Slice(v, lo, 1) \in Nat /\ Slice(v, lo, 1) < 2
    BY SliceBelow
  <2> QED
    BY <2>1, PowerValues
<1>2. at + 1 - 1 = at /\ 0 \in 0 .. 1 - 1 /\ at + 0 = at
  OBVIOUS
<1> QED
  BY <1>1, <1>2, AtRange

TwoBits(at, f, v, lo) ==
    /\ At(at, f) \subseteq at .. at + 1
    /\ at \in At(at, f) <=> Bit(Slice(v, lo, 2), 0)
    /\ at + 1 \in At(at, f) <=> Bit(Slice(v, lo, 2), 1)
LEMMA AtTwo ==
    ASSUME NEW v \in Nat, NEW at \in Nat, NEW lo \in 0 .. 15, NEW f,
           reg[f] = Slice(v, lo, 2)
    PROVE  TwoBits(at, f, v, lo)
<1>1. reg[f] \in Nat /\ reg[f] < Power(2)
  <2>1. Slice(v, lo, 2) \in Nat /\ Slice(v, lo, 2) < 4
    BY SliceBelow
  <2> QED
    BY <2>1, PowerValues
<1>2. at + 2 - 1 = at + 1 /\ 0 \in 0 .. 2 - 1 /\ 1 \in 0 .. 2 - 1 /\ at + 0 = at
  OBVIOUS
<1> QED
  BY <1>1, <1>2, AtRange DEF TwoBits

LEMMA AtFour ==
    ASSUME NEW v \in Nat, NEW f, reg[f] = Slice(v, 0, 4)
    PROVE  /\ At(0, f) \subseteq 0 .. 3
           /\ 0 \in At(0, f) <=> Bit(Slice(v, 0, 4), 0)
           /\ 1 \in At(0, f) <=> Bit(Slice(v, 0, 4), 1)
           /\ 2 \in At(0, f) <=> Bit(Slice(v, 0, 4), 2)
           /\ 3 \in At(0, f) <=> Bit(Slice(v, 0, 4), 3)
<1>1. reg[f] \in Nat /\ reg[f] < Power(4)
  <2>1. Slice(v, 0, 4) \in Nat /\ Slice(v, 0, 4) < 16
    BY SliceBelow
  <2> QED
    BY <2>1, PowerValues
<1>2. \A b \in 0 .. 3 : 0 + b = b /\ b \in 0 .. 4 - 1
  OBVIOUS
<1>3. At(0, f) \subseteq 0 .. 3 /\ \A b \in 0 .. 3 : b \in At(0, f) <=> Bit(reg[f], b)
  BY <1>1, <1>2, AtRange
<1> QED
  BY <1>3

LEMMA Tables ==
    ASSUME NEW op
    PROVE  /\ op = \he1 => Fields(op) =
                [mPageBaseX |-> <<0, 4>>, mPageBaseY |-> <<4, 1>>,
                 mSemiTransparency |-> <<5, 2>>, mTextureDepth |-> <<7, 2>>,
                 mDithering |-> <<9, 1>>, mDrawToDisplay |-> <<10, 1>>,
                 mTextureDisable |-> <<11, 1>>,
                 mRectangleTextureXFlip |-> <<12, 1>>,
                 mRectangleTextureYFlip |-> <<13, 1>>]
           /\ op = \he6 => Fields(op) =
                [mForceSetMaskBit |-> <<0, 1>>, mPreserveMaskedPixels |-> <<1, 1>>]
           /\ op = \h03 => DisplayFields(op) = [mDisplayDisabled |-> <<0, 1>>]
           /\ op = \h04 => DisplayFields(op) = [mDmaDirection |-> <<0, 2>>]
<1>1. CASE op = \he1
  BY <1>1 DEF Fields
<1>2. CASE op = \he6
  BY <1>2 DEF Fields
<1>3. CASE op = \h03
  BY <1>3 DEF DisplayFields
<1>4. CASE op = \h04
  BY <1>4 DEF DisplayFields
<1> QED
  BY <1>1, <1>2, <1>3, <1>4

LEMMA StatusShows == ASSUME Current PROVE StatusIsCurrent
<1> DEFINE d == last.drawMode  m == last.mask  e == last.enable
           x == last.direction  h == Resolution(last.mode)
<1>1. /\ d \in Nat /\ m \in Nat /\ e \in Nat /\ x \in Nat /\ last.mode \in Nat
  BY DEF Current, Shown, LastType
<1>2. /\ reg["mPageBaseX"] = Slice(d, 0, 4)
      /\ reg["mPageBaseY"] = Slice(d, 4, 1)
      /\ reg["mSemiTransparency"] = Slice(d, 5, 2)
      /\ reg["mTextureDepth"] = Slice(d, 7, 2)
      /\ reg["mDithering"] = Slice(d, 9, 1)
      /\ reg["mDrawToDisplay"] = Slice(d, 10, 1)
      /\ reg["mForceSetMaskBit"] = Slice(m, 0, 1)
      /\ reg["mPreserveMaskedPixels"] = Slice(m, 1, 1)
      /\ reg["mTextureDisable"] = Slice(d, 11, 1)
      /\ reg["mDisplayDisabled"] = Slice(e, 0, 1)
      /\ reg["mDmaDirection"] = Slice(x, 0, 2)
  <2>1. /\ Holds(reg, Fields(\he1), d) /\ Holds(reg, Fields(\he6), m)
        /\ Holds(reg, DisplayFields(\h03), e) /\ Holds(reg, DisplayFields(\h04), x)
    BY DEF Current, Shown
  <2> HIDE DEF d, m, e, x
  <2> QED
    BY <2>1, Tables DEF Holds
<1>3. reg["mHres"] = h /\ \A f \in Switches : reg[f] \in 0 .. 1
  BY DEF Current, Shown
<1>4. h \in Nat /\ h < 8
  <2> DEFINE v == last.mode  p == Slice(v, 6, 1)  q == Slice(v, 0, 2)
  <2>1. p \in Nat /\ p < 2 /\ q \in Nat /\ q < 4
    <3>1. v \in Nat
      BY <1>1
    <3> HIDE DEF v
    <3>2. p \in Nat /\ p < 2
      BY <3>1, SliceBelow
    <3>3. q \in Nat /\ q < 4
      BY <3>1, SliceBelow
    <3> QED
      BY <3>2, <3>3
  <2> HIDE DEF p, q
  <2>2. p + 2 * q \in Nat /\ p + 2 * q < 8
    BY <2>1
  <2> QED
    BY <2>2 DEF Resolution, p, q
<1> HIDE DEF d, m, e, x, h
<1>5. /\ At(0, "mPageBaseX") \subseteq 0 .. 3
      /\ (0 \in At(0, "mPageBaseX") <=> Bit(d, 0))
      /\ (1 \in At(0, "mPageBaseX") <=> Bit(d, 1))
      /\ (2 \in At(0, "mPageBaseX") <=> Bit(d, 2))
      /\ (3 \in At(0, "mPageBaseX") <=> Bit(d, 3))
  BY <1>1, <1>2, AtFour, SliceBits
<1>6. /\ At(4, "mPageBaseY") \subseteq 4 .. 4
      /\ (4 \in At(4, "mPageBaseY") <=> Bit(d, 4))
  <2>1. At(4, "mPageBaseY") \subseteq 4 .. 4 /\ (4 \in At(4, "mPageBaseY") <=> Bit(Slice(d, 4, 1), 0))
    BY <1>1, <1>2, AtOne
  <2> QED
    BY <1>1, <2>1, SliceBits
<1>7. /\ At(5, "mSemiTransparency") \subseteq 5 .. 6
      /\ (5 \in At(5, "mSemiTransparency") <=> Bit(d, 5))
      /\ (6 \in At(5, "mSemiTransparency") <=> Bit(d, 6))
  <2>1. TwoBits(5, "mSemiTransparency", d, 5)
    BY <1>1, <1>2, AtTwo
  <2> QED
    BY <1>1, <2>1, SliceBits DEF TwoBits
<1>8. /\ At(7, "mTextureDepth") \subseteq 7 .. 8
      /\ (7 \in At(7, "mTextureDepth") <=> Bit(d, 7))
      /\ (8 \in At(7, "mTextureDepth") <=> Bit(d, 8))
  <2>1. TwoBits(7, "mTextureDepth", d, 7)
    BY <1>1, <1>2, AtTwo
  <2> QED
    BY <1>1, <2>1, SliceBits DEF TwoBits
<1>9. /\ At(9, "mDithering") \subseteq 9 .. 9
      /\ (9 \in At(9, "mDithering") <=> Bit(d, 9))
  <2>1. At(9, "mDithering") \subseteq 9 .. 9 /\ (9 \in At(9, "mDithering") <=> Bit(Slice(d, 9, 1), 0))
    BY <1>1, <1>2, AtOne
  <2> QED
    BY <1>1, <2>1, SliceBits
<1>10. /\ At(10, "mDrawToDisplay") \subseteq 10 .. 10
      /\ (10 \in At(10, "mDrawToDisplay") <=> Bit(d, 10))
  <2>1. At(10, "mDrawToDisplay") \subseteq 10 .. 10 /\ (10 \in At(10, "mDrawToDisplay") <=> Bit(Slice(d, 10, 1), 0))
    BY <1>1, <1>2, AtOne
  <2> QED
    BY <1>1, <2>1, SliceBits
<1>11. /\ At(11, "mForceSetMaskBit") \subseteq 11 .. 11
      /\ (11 \in At(11, "mForceSetMaskBit") <=> Bit(m, 0))
  <2>1. At(11, "mForceSetMaskBit") \subseteq 11 .. 11 /\ (11 \in At(11, "mForceSetMaskBit") <=> Bit(Slice(m, 0, 1), 0))
    BY <1>1, <1>2, AtOne
  <2> QED
    BY <1>1, <2>1, SliceBits
<1>12. /\ At(12, "mPreserveMaskedPixels") \subseteq 12 .. 12
      /\ (12 \in At(12, "mPreserveMaskedPixels") <=> Bit(m, 1))
  <2>1. At(12, "mPreserveMaskedPixels") \subseteq 12 .. 12 /\ (12 \in At(12, "mPreserveMaskedPixels") <=> Bit(Slice(m, 1, 1), 0))
    BY <1>1, <1>2, AtOne
  <2> QED
    BY <1>1, <2>1, SliceBits
<1>13. /\ At(15, "mTextureDisable") \subseteq 15 .. 15
      /\ (15 \in At(15, "mTextureDisable") <=> Bit(d, 11))
  <2>1. At(15, "mTextureDisable") \subseteq 15 .. 15 /\ (15 \in At(15, "mTextureDisable") <=> Bit(Slice(d, 11, 1), 0))
    BY <1>1, <1>2, AtOne
  <2> QED
    BY <1>1, <2>1, SliceBits
<1>14. /\ At(23, "mDisplayDisabled") \subseteq 23 .. 23
      /\ (23 \in At(23, "mDisplayDisabled") <=> Bit(e, 0))
  <2>1. At(23, "mDisplayDisabled") \subseteq 23 .. 23 /\ (23 \in At(23, "mDisplayDisabled") <=> Bit(Slice(e, 0, 1), 0))
    BY <1>1, <1>2, AtOne
  <2> QED
    BY <1>1, <2>1, SliceBits
<1>15. /\ At(29, "mDmaDirection") \subseteq 29 .. 30
      /\ (29 \in At(29, "mDmaDirection") <=> Bit(x, 0))
      /\ (30 \in At(29, "mDmaDirection") <=> Bit(x, 1))
  <2>1. TwoBits(29, "mDmaDirection", x, 0)
    BY <1>1, <1>2, AtTwo
  <2> QED
    BY <1>1, <2>1, SliceBits DEF TwoBits
<1>16. /\ At(16, "mHres") \subseteq 16 .. 18
       /\ \A b \in 0 .. 2 : 16 + b \in At(16, "mHres") <=> Bit(h, b)
  <2>1. reg["mHres"] \in Nat /\ reg["mHres"] < Power(3)
    BY <1>3, <1>4, PowerValues
  <2>2. 16 + 3 - 1 = 18 /\ 3 - 1 = 2
    OBVIOUS
  <2> QED
    BY <1>3, <2>1, <2>2, AtRange
<1>17. /\ At(20, "mVmode") \subseteq 20 .. 20 /\ At(21, "mDisplayDepth") \subseteq 21 .. 21
       /\ At(22, "mInterlaced") \subseteq 22 .. 22
  <2>1. ASSUME NEW f \in Switches, NEW at \in Nat PROVE At(at, f) \subseteq at .. at
    <3>1. reg[f] \in Nat /\ reg[f] < Power(1)
      BY <1>3, PowerValues
    <3>2. at + 1 - 1 = at
      OBVIOUS
    <3> QED
      BY <3>1, <3>2, AtRange
  <2> QED
    BY <2>1 DEF Switches
<1>18. /\ 0 \in Status <=> Bit(d, 0)
       /\ 1 \in Status <=> Bit(d, 1)
       /\ 2 \in Status <=> Bit(d, 2)
       /\ 3 \in Status <=> Bit(d, 3)
       /\ 4 \in Status <=> Bit(d, 4)
       /\ 5 \in Status <=> Bit(d, 5)
       /\ 6 \in Status <=> Bit(d, 6)
       /\ 7 \in Status <=> Bit(d, 7)
       /\ 8 \in Status <=> Bit(d, 8)
       /\ 9 \in Status <=> Bit(d, 9)
       /\ 10 \in Status <=> Bit(d, 10)
  BY <1>5, <1>6, <1>7, <1>8, <1>9, <1>10, <1>11, <1>12, <1>13, <1>14, <1>15, <1>16, <1>17, StatusMember
<1>19. /\ 11 \in Status <=> Bit(m, 0)
       /\ 12 \in Status <=> Bit(m, 1)
       /\ 15 \in Status <=> Bit(d, 11)
       /\ 23 \in Status <=> Bit(e, 0)
       /\ 29 \in Status <=> Bit(x, 0)
       /\ 30 \in Status <=> Bit(x, 1)
  BY <1>5, <1>6, <1>7, <1>8, <1>9, <1>10, <1>11, <1>12, <1>13, <1>14, <1>15, <1>16, <1>17, StatusMember
<1>20. \A b \in 0 .. 2 : 16 + b \in Status <=> Bit(h, b)
  BY <1>5, <1>6, <1>7, <1>8, <1>9, <1>10, <1>11, <1>12, <1>13, <1>14, <1>15, <1>16, <1>17, StatusMember
<1>21. \A b \in 0 .. 10 : b \in Status <=> Bit(d, b)
  BY <1>18
<1>22. Bit(d \div 2^11, 0) <=> Bit(d, 11)
  <2>1. d \div 2048 \in Nat
    BY <1>1
  <2>2. d \div 2^11 = d \div 2048 /\ (d \div 2048) \div 1 = d \div 2048
    BY <1>1, <2>1
  <2> QED
    BY <2>2 DEF Bit
<1>23. ((last.mode \div 2^6) % 2) + 2 * (last.mode % 4) = h
  BY <1>1 DEF h, Resolution, Slice
<1> QED
  BY <1>21, <1>19, <1>20, <1>22, <1>23 DEF StatusIsCurrent, Bit, d, m, e, x

(* A write to a register: its fields change and no other.                  *)
LEMMA DecodeEffect ==
    ASSUME NEW fields, NEW v, NEW f \in Field
    PROVE  Decode(fields, v)[f] = IF f \in DOMAIN fields
                                  THEN Slice(v, fields[f][1], fields[f][2]) ELSE reg[f]
BY DEF Decode, Assign

LEMMA SettingFields ==
    /\ DOMAIN Fields(\he1) = {"mPageBaseX", "mPageBaseY", "mSemiTransparency", "mTextureDepth",
          "mDithering", "mDrawToDisplay", "mTextureDisable",
          "mRectangleTextureXFlip", "mRectangleTextureYFlip"}
    /\ DOMAIN Fields(\he6) = {"mForceSetMaskBit", "mPreserveMaskedPixels"}
    /\ DOMAIN DisplayFields(\h03) = {"mDisplayDisabled"}
    /\ DOMAIN DisplayFields(\h04) = {"mDmaDirection"}
BY Tables

LEMMA OtherFields ==
    ASSUME NEW op
    PROVE  /\ op = \he2 => DOMAIN Fields(op) = {"mTextureWindowXMask", "mTextureWindowYMask",
                               "mTextureWindowXOffset", "mTextureWindowYOffset"}
           /\ op = \he3 => DOMAIN Fields(op) = {"mDrawingAreaTop", "mDrawingAreaLeft"}
           /\ op = \he4 => DOMAIN Fields(op) = {"mDrawingAreaBottom", "mDrawingAreaRight"}
           /\ op = \h06 => DOMAIN DisplayFields(op) = {"mDisplayHorizStart", "mDisplayHorizEnd"}
           /\ op = \h07 => DOMAIN DisplayFields(op) = {"mDisplayLineStart", "mDisplayLineEnd"}
<1>1. CASE op = \he2
  BY <1>1 DEF Fields
<1>2. CASE op = \he3
  BY <1>2 DEF Fields
<1>3. CASE op = \he4
  BY <1>3 DEF Fields
<1>4. CASE op = \h06
  BY <1>4 DEF DisplayFields
<1>5. CASE op = \h07
  BY <1>5 DEF DisplayFields
<1> QED
  BY <1>1, <1>2, <1>3, <1>4, <1>5

ShownFields ==
    DOMAIN Fields(\he1) \cup DOMAIN Fields(\he6) \cup DOMAIN DisplayFields(\h03)
       \cup DOMAIN DisplayFields(\h04) \cup {"mHres"} \cup Switches

(* A step that leaves the fields alone, and the settings. *)
LEMMA ShownKept ==
    ASSUME Current, UNCHANGED last, \A f \in ShownFields : reg'[f] = reg[f]
    PROVE  Current'
<1>1. Shown(reg', last)
  <2>1. \A f \in DOMAIN Fields(\he1) \cup DOMAIN Fields(\he6) \cup DOMAIN DisplayFields(\h03)
             \cup DOMAIN DisplayFields(\h04) \cup Switches : reg'[f] = reg[f]
    BY DEF ShownFields
  <2>2. reg'["mHres"] = reg["mHres"]
    BY DEF ShownFields
  <2> QED
    BY <2>1, <2>2 DEF Current, Shown, Holds
<1> QED
  BY <1>1 DEF Current

(* The registers of a new Gpu, and those of gp1Reset, show its settings.   *)
LEMMA PowerOnShown ==
    ASSUME NEW r, r["mDisplayDisabled"] = 1,
           \A f \in ShownFields \ {"mDisplayDisabled", "mInterlaced"} : r[f] = 0,
           r["mInterlaced"] \in 0 .. 1
    PROVE  Shown(r, PowerOnLast)
<1>1. \A lo \in {0, 1, 4, 5, 6, 7, 9, 10, 11, 12, 13}, width \in {1, 2, 4} : Slice(0, lo, width) = 0
  <2> SUFFICES ASSUME NEW lo \in 0 .. 15, NEW width \in 0 .. 15 PROVE Slice(0, lo, width) = 0
    OBVIOUS
  <2>1. ASSUME NEW a \in Nat \ {0}, NEW b \in Nat \ {0} PROVE (0 \div a) % b = 0
    OBVIOUS
  <2>2. Power(lo) \in Nat \ {0} /\ Power(width) \in Nat \ {0}
    BY PowerType
  <2>3. Slice(0, lo, width) = (0 \div Power(lo)) % Power(width)
    BY DEF Slice, Power
  <2> QED
    BY <2>1, <2>2, <2>3
<1>2. Slice(1, 0, 1) = 1
  BY DEF Slice
<1>3. PowerOnLast \in LastType
  BY DEF PowerOnLast, LastType
<1>4. Holds(r, Fields(\he1), 0)
  <2>1. \A f \in DOMAIN Fields(\he1) : r[f] = 0
    BY SettingFields DEF ShownFields
  <2>2. \A f \in DOMAIN Fields(\he1) :
           Fields(\he1)[f][1] \in {0, 4, 5, 7, 9, 10, 11, 12, 13} /\ Fields(\he1)[f][2] \in {1, 2, 4}
    BY Tables
  <2> QED
    BY <1>1, <2>1, <2>2 DEF Holds
<1>5. Holds(r, Fields(\he6), 0)
  <2>1. \A f \in DOMAIN Fields(\he6) : r[f] = 0
    BY SettingFields DEF ShownFields
  <2>2. \A f \in DOMAIN Fields(\he6) :
           Fields(\he6)[f][1] \in {0, 1} /\ Fields(\he6)[f][2] \in {1, 2, 4}
    BY Tables
  <2> QED
    BY <1>1, <2>1, <2>2 DEF Holds
<1>6. Holds(r, DisplayFields(\h03), 1)
  BY <1>2, Tables DEF Holds
<1>7. Holds(r, DisplayFields(\h04), 0)
  <2>1. r["mDmaDirection"] = 0
    BY SettingFields DEF ShownFields
  <2> QED
    BY <1>1, <2>1, Tables DEF Holds
<1>8. r["mHres"] = Resolution(0)
  <2>1. r["mHres"] = 0
    BY SettingFields DEF ShownFields
  <2> QED
    BY <1>1, <2>1 DEF Resolution
<1>9. \A f \in Switches : r[f] \in 0 .. 1
  BY SettingFields DEF Switches, ShownFields
<1> QED
  BY <1>3, <1>4, <1>5, <1>6, <1>7, <1>8, <1>9 DEF Shown, PowerOnLast

(* What the observer notes of a word to GP0 and of one to GP1. *)
LEMMA NoteGp0 ==
    ASSUME last \in LastType, NEW w, ObserveGp0(w)
    PROVE  /\ ran'.op = \he1 => last' = [last EXCEPT !.drawMode = ran'.words[1].arg]
           /\ ran'.op = \he6 => last' = [last EXCEPT !.mask = ran'.words[1].arg]
           /\ ran'.op \notin {\he1, \he6} => last' = last
<1>1. DOMAIN last = {"drawMode", "mask", "enable", "direction", "mode"}
      /\ last = [name \in DOMAIN last |-> last[name]]
  BY DEF LastType
<1>2. DOMAIN Commands = {"drawMode", "mask"} /\ Commands["drawMode"] = \he1
      /\ Commands["mask"] = \he6
  BY DEF Commands
<1>3. last' = [name \in DOMAIN last |->
                  IF name \in DOMAIN Commands /\ Commands[name] = ran'.op
                  THEN ran'.words[1].arg ELSE last[name]]
  BY DEF ObserveGp0
<1>4. CASE ran'.op = \he1
  BY <1>1, <1>2, <1>3, <1>4
<1>5. CASE ran'.op = \he6
  BY <1>1, <1>2, <1>3, <1>5
<1>6. CASE ran'.op \notin {\he1, \he6}
  BY <1>1, <1>2, <1>3, <1>6
<1> QED
  BY <1>4, <1>5, <1>6

LEMMA NoteGp1 ==
    ASSUME last \in LastType, NEW w, ObserveGp1(w)
    PROVE  /\ w.op = \h00 => last' = PowerOnLast
           /\ w.op = \h03 => last' = [last EXCEPT !.enable = w.arg]
           /\ w.op = \h04 => last' = [last EXCEPT !.direction = w.arg]
           /\ w.op = \h08 => last' = [last EXCEPT !.mode = w.arg]
           /\ w.op \notin {\h00, \h03, \h04, \h08} => last' = last
<1>1. DOMAIN last = {"drawMode", "mask", "enable", "direction", "mode"}
      /\ last = [name \in DOMAIN last |-> last[name]]
  BY DEF LastType
<1>2. DOMAIN Settings = {"enable", "direction", "mode"} /\ Settings["enable"] = \h03
      /\ Settings["direction"] = \h04 /\ Settings["mode"] = \h08
  BY DEF Settings
<1>3. last' = IF w.op = \h00 THEN PowerOnLast
              ELSE [name \in DOMAIN last |->
                       IF name \in DOMAIN Settings /\ Settings[name] = w.op
                       THEN w.arg ELSE last[name]]
  BY DEF ObserveGp1
<1>4. CASE w.op = \h00
  BY <1>3, <1>4
<1>5. CASE w.op = \h03
  BY <1>1, <1>2, <1>3, <1>5
<1>6. CASE w.op = \h04
  BY <1>1, <1>2, <1>3, <1>6
<1>7. CASE w.op = \h08
  BY <1>1, <1>2, <1>3, <1>7
<1>8. CASE w.op \notin {\h00, \h03, \h04, \h08}
  BY <1>1, <1>2, <1>3, <1>8
<1> QED
  BY <1>4, <1>5, <1>6, <1>7, <1>8

(* Settings made through GP0 are commands of one word. *)
LEMMA ShownSetting ==
    ASSUME PortInv, Current, NEW w \in Inputs, RunSetting(w), ObserveGp0(w)
    PROVE  Current'
<1> DEFINE v == w.arg  op == Method(w)
<1>1. /\ mGp0Mode = "Command" /\ Left(w) = 0
      /\ op \in {\he1, \he2, \he3, \he4, \he6}
      /\ reg' = Decode(Fields(op), v)
      /\ ran' = [op |-> op, words |-> Append(Received, w)]
  BY DEF RunSetting, LastWord
<1>2. v \in Nat
  BY InputType, WordFields
<1>3. ran'.op = op /\ ran'.words[1].arg = v
  <2>1. /\ Append(Received, w) \in Seq(Word) /\ Len(Append(Received, w)) = Len(Received) + 1
        /\ Len(Append(Received, w)) = 1
    <3>1. Length(op) = 1
      BY <1>1 DEF Length
    <3> QED
      BY <1>1, <3>1, ReceivedFits
  <2>2. Received \in Seq(Word) /\ Received = <<>>
    <3>1. Received \in Seq(Word)
      BY DEF PortInv, PortType, Received
    <3> QED
      BY <2>1, <3>1
  <2>3. Append(Received, w)[1] = w
    BY <2>2
  <2> QED
    BY <1>1, <2>3
<1>4. last \in LastType
  BY DEF Current, Shown
<1> HIDE DEF v, op
<1>5. ASSUME NEW f \in Field
      PROVE  reg'[f] = IF f \in DOMAIN Fields(op)
                       THEN Slice(v, Fields(op)[f][1], Fields(op)[f][2]) ELSE reg[f]
  BY <1>1, DecodeEffect
<1>6. ShownFields \subseteq Field /\ DOMAIN Fields(\he1) \subseteq Field
  BY SettingFields DEF ShownFields, Field, Switches
<1>7. CASE op = \he1
  <2>1. last' = [last EXCEPT !.drawMode = v]
    BY <1>3, <1>4, <1>7, NoteGp0
  <2>2. last' \in LastType /\ last'.drawMode = v /\ last'.mask = last.mask
        /\ last'.enable = last.enable /\ last'.direction = last.direction
        /\ last'.mode = last.mode
    BY <1>2, <1>4, <2>1 DEF LastType
  <2>3. Holds(reg', Fields(\he1), v)
    BY <1>5, <1>6, <1>7 DEF Holds
  <2>4. \A f \in ShownFields \ DOMAIN Fields(\he1) : reg'[f] = reg[f]
    BY <1>5, <1>6, <1>7
  <2>5. /\ Holds(reg', Fields(\he6), last.mask) /\ Holds(reg', DisplayFields(\h03), last.enable)
        /\ Holds(reg', DisplayFields(\h04), last.direction)
    BY <2>4, SettingFields DEF Current, Shown, Holds, ShownFields
  <2>6. reg'["mHres"] = Resolution(last.mode) /\ \A f \in Switches : reg'[f] \in 0 .. 1
    BY <2>4, SettingFields DEF Current, Shown, ShownFields, Switches
  <2> QED
    BY <2>2, <2>3, <2>5, <2>6 DEF Current, Shown
<1>8. CASE op = \he6
  <2>1. last' = [last EXCEPT !.mask = v]
    BY <1>3, <1>4, <1>8, NoteGp0
  <2>2. last' \in LastType /\ last'.drawMode = last.drawMode /\ last'.mask = v
        /\ last'.enable = last.enable /\ last'.direction = last.direction
        /\ last'.mode = last.mode
    BY <1>2, <1>4, <2>1 DEF LastType
  <2>3. Holds(reg', Fields(\he6), v)
    BY <1>5, <1>8, SettingFields DEF Holds, Field
  <2>4. \A f \in ShownFields \ DOMAIN Fields(\he6) : reg'[f] = reg[f]
    BY <1>5, <1>6, <1>8
  <2>5. /\ Holds(reg', Fields(\he1), last.drawMode) /\ Holds(reg', DisplayFields(\h03), last.enable)
        /\ Holds(reg', DisplayFields(\h04), last.direction)
    BY <2>4, SettingFields DEF Current, Shown, Holds, ShownFields
  <2>6. reg'["mHres"] = Resolution(last.mode) /\ \A f \in Switches : reg'[f] \in 0 .. 1
    BY <2>4, SettingFields DEF Current, Shown, ShownFields, Switches
  <2> QED
    BY <2>2, <2>3, <2>5, <2>6 DEF Current, Shown
<1>9. CASE op \in {\he2, \he3, \he4}
  <2>1. last' = last
    BY <1>3, <1>4, <1>9, NoteGp0
  <2>2. DOMAIN Fields(op) \cap ShownFields = {}
    BY <1>9, SettingFields, OtherFields DEF ShownFields, Switches
  <2>3. \A f \in ShownFields : reg'[f] = reg[f]
    BY <1>5, <1>6, <2>2
  <2> QED
    BY <2>1, <2>3, ShownKept
<1> QED
  BY <1>1, <1>7, <1>8, <1>9

(* The other words of GP0 are not settings STATUS shows. *)
LEMMA ShownGp0 ==
    ASSUME PortInv, Current, NEW w \in Inputs, Gp0Step(w), ObserveGp0(w)
    PROVE  Current'
<1>1. last \in LastType
  BY DEF Current, Shown
<1>2. CASE RunSetting(w)
  BY <1>2, ShownSetting
<1>3. CASE Collect(w) \/ ImageWord(w)
  <2>1. ran' = NoCommand /\ reg' = reg
    BY <1>3 DEF Collect, ImageWord
  <2>2. ran'.op \notin {\he1, \he6}
    BY <2>1 DEF NoCommand
  <2> QED
    BY <1>1, <2>1, <2>2, NoteGp0, ShownKept
<1>4. CASE RunNothing(w) \/ RunDraw(w) \/ RunImageLoad(w)
  <2>1. /\ ran' = [op |-> Method(w), words |-> mGp0Command'] /\ reg' = reg
        /\ Method(w) \in {\h00, \h01, \hc0, \h28, \h2c, \h30, \h38, \ha0}
    BY <1>4 DEF RunNothing, RunDraw, RunImageLoad, LastWord
  <2>2. ran'.op \notin {\he1, \he6}
    BY <2>1
  <2> QED
    BY <1>1, <2>1, <2>2, NoteGp0, ShownKept
<1>5. CASE RunDrawingOffset(w)
  <2> DEFINE values == [mDrawingXOffset |-> SignExtend(Slice(w.arg, 0, 11)),
                        mDrawingYOffset |-> SignExtend(Slice(w.arg, 11, 11))]
  <2>1. /\ ran' = [op |-> Method(w), words |-> mGp0Command'] /\ Method(w) = \he5
        /\ reg' = Assign(values)
    BY <1>5 DEF RunDrawingOffset, LastWord
  <2>2. ran'.op \notin {\he1, \he6}
    BY <2>1
  <2>3. DOMAIN values = {"mDrawingXOffset", "mDrawingYOffset"}
    OBVIOUS
  <2> HIDE DEF values
  <2>4. \A f \in ShownFields : f \in Field /\ f \notin DOMAIN values
    BY <2>3, SettingFields DEF ShownFields, Field, Switches
  <2>5. \A f \in ShownFields : reg'[f] = reg[f]
    BY <2>1, <2>4 DEF Assign
  <2> QED
    BY <1>1, <2>2, <2>5, NoteGp0, ShownKept
<1> QED
  BY <1>2, <1>3, <1>4, <1>5 DEF Gp0Step

LEMMA ShownDisplay ==
    ASSUME Current, NEW w \in Gp1Words, DisplaySetting(w), ObserveGp1(w)
    PROVE  Current'
<1> DEFINE v == w.arg  op == w.op
<1>1. /\ op \in {\h03, \h04, \h06, \h07}
      /\ reg' = Decode(DisplayFields(op), v)
  BY DEF DisplaySetting, Gp1
<1>2. v \in Nat
  BY GpuAssumption, WordFields
<1>3. last \in LastType
  BY DEF Current, Shown
<1>4. /\ op = \h03 => last' = [last EXCEPT !.enable = v]
      /\ op = \h04 => last' = [last EXCEPT !.direction = v]
      /\ op \notin {\h00, \h03, \h04, \h08} => last' = last
  BY <1>3, NoteGp1
<1> HIDE DEF v, op
<1>5. ASSUME NEW f \in Field
      PROVE  reg'[f] = IF f \in DOMAIN DisplayFields(op)
                       THEN Slice(v, DisplayFields(op)[f][1], DisplayFields(op)[f][2])
                       ELSE reg[f]
  BY <1>1, DecodeEffect
<1>6. ShownFields \subseteq Field
  BY SettingFields DEF ShownFields, Field, Switches
<1>7. CASE op = \h03
  <2>1. last' \in LastType /\ last'.drawMode = last.drawMode /\ last'.mask = last.mask
        /\ last'.enable = v /\ last'.direction = last.direction
        /\ last'.mode = last.mode
    BY <1>2, <1>3, <1>4, <1>7 DEF LastType
  <2>2. Holds(reg', DisplayFields(\h03), v)
    BY <1>5, <1>7, SettingFields DEF Holds, Field
  <2>3. \A f \in ShownFields \ DOMAIN DisplayFields(\h03) : reg'[f] = reg[f]
    BY <1>5, <1>6, <1>7
  <2>4. /\ Holds(reg', Fields(\he1), last.drawMode) /\ Holds(reg', Fields(\he6), last.mask)
        /\ Holds(reg', DisplayFields(\h04), last.direction)
    BY <2>3, SettingFields DEF Current, Shown, Holds, ShownFields
  <2>5. reg'["mHres"] = Resolution(last.mode) /\ \A f \in Switches : reg'[f] \in 0 .. 1
    BY <2>3, SettingFields DEF Current, Shown, ShownFields, Switches
  <2> QED
    BY <2>1, <2>2, <2>4, <2>5 DEF Current, Shown
<1>8. CASE op = \h04
  <2>1. last' \in LastType /\ last'.drawMode = last.drawMode /\ last'.mask = last.mask
        /\ last'.enable = last.enable /\ last'.direction = v
        /\ last'.mode = last.mode
    BY <1>2, <1>3, <1>4, <1>8 DEF LastType
  <2>2. Holds(reg', DisplayFields(\h04), v)
    BY <1>5, <1>8, SettingFields DEF Holds, Field
  <2>3. \A f \in ShownFields \ DOMAIN DisplayFields(\h04) : reg'[f] = reg[f]
    BY <1>5, <1>6, <1>8
  <2>4. /\ Holds(reg', Fields(\he1), last.drawMode) /\ Holds(reg', Fields(\he6), last.mask)
        /\ Holds(reg', DisplayFields(\h03), last.enable)
    BY <2>3, SettingFields DEF Current, Shown, Holds, ShownFields
  <2>5. reg'["mHres"] = Resolution(last.mode) /\ \A f \in Switches : reg'[f] \in 0 .. 1
    BY <2>3, SettingFields DEF Current, Shown, ShownFields, Switches
  <2> QED
    BY <2>1, <2>2, <2>4, <2>5 DEF Current, Shown
<1>9. CASE op \in {\h06, \h07}
  <2>1. last' = last
    BY <1>4, <1>9
  <2>2. DOMAIN DisplayFields(op) \cap ShownFields = {}
    BY <1>9, SettingFields, OtherFields DEF ShownFields, Switches
  <2>3. \A f \in ShownFields : reg'[f] = reg[f]
    BY <1>5, <1>6, <2>2
  <2> QED
    BY <2>1, <2>3, ShownKept
<1> QED
  BY <1>1, <1>7, <1>8, <1>9

LEMMA ShownMode ==
    ASSUME Current, NEW w \in Gp1Words, DisplayMode(w), ObserveGp1(w)
    PROVE  Current'
<1>1. PICK v \in Nat : v = w.arg
  BY GpuAssumption, WordFields
<1>2. w.op = \h08 /\ last \in LastType
  BY DEF DisplayMode, Gp1, Current, Shown
<1>3. last' = [last EXCEPT !.mode = v]
  BY <1>1, <1>2, NoteGp1
<1>4. last' \in LastType /\ last'.drawMode = last.drawMode /\ last'.mask = last.mask
      /\ last'.enable = last.enable /\ last'.direction = last.direction
      /\ last'.mode = v
  BY <1>2, <1>3 DEF LastType
<1> DEFINE hres == Resolution(v)
           bit == v % 2
           depth == 1 - bit
           values == [mHres |-> hres, mVres |-> bit, mVmode |-> bit,
                      mDisplayDepth |-> depth, mInterlaced |-> bit]
<1>5. bit \in 0 .. 1 /\ depth \in 0 .. 1
  OBVIOUS
<1>6. reg' = Assign(values)
  BY <1>1 DEF DisplayMode, Resolution
<1> HIDE DEF hres, bit, depth
<1>7. /\ DOMAIN values = {"mHres", "mVres", "mVmode", "mDisplayDepth", "mInterlaced"}
      /\ values["mHres"] = hres /\ values["mDisplayDepth"] = depth
      /\ values["mVmode"] = bit /\ values["mInterlaced"] = bit
  OBVIOUS
<1> HIDE DEF values
<1>8. ShownFields \subseteq Field
  BY SettingFields DEF ShownFields, Field, Switches
<1>9. \A f \in ShownFields :
         reg'[f] = IF f \in DOMAIN values THEN values[f] ELSE reg[f]
  BY <1>6, <1>8 DEF Assign
<1>10. reg'["mHres"] = hres /\ \A f \in Switches : reg'[f] \in 0 .. 1
  BY <1>5, <1>7, <1>9 DEF ShownFields, Switches
<1>11. \A f \in ShownFields \ ({"mHres"} \cup Switches) : reg'[f] = reg[f]
  BY <1>7, <1>9, SettingFields DEF ShownFields, Switches
<1>12. /\ Holds(reg', Fields(\he1), last.drawMode) /\ Holds(reg', Fields(\he6), last.mask)
       /\ Holds(reg', DisplayFields(\h03), last.enable)
       /\ Holds(reg', DisplayFields(\h04), last.direction)
  BY <1>11, SettingFields DEF Current, Shown, Holds, ShownFields, Switches
<1> QED
  BY <1>4, <1>10, <1>12 DEF Current, Shown, hres

LEMMA ShownGp1 ==
    ASSUME Current, NEW w \in Gp1Words, Gp1Step(w), ObserveGp1(w)
    PROVE  Current'
<1>1. last \in LastType
  BY DEF Current, Shown
<1>2. CASE Reset(w)
  <2>1. w.op = \h00 /\ reg' = SoftReset
    BY <1>2 DEF Reset, Gp1
  <2>2. last' = PowerOnLast
    BY <1>1, <2>1, NoteGp1
  <2>3. ShownFields \subseteq Field
    BY SettingFields DEF ShownFields, Field, Switches
  <2>4. ShownFields \ {"mDisplayDisabled", "mInterlaced"} \subseteq ClearedFields
    BY SettingFields DEF ShownFields, Switches, ClearedFields
  <2>5. /\ \A f \in ShownFields \ {"mDisplayDisabled", "mInterlaced"} : SoftReset[f] = 0
        /\ SoftReset["mDisplayDisabled"] = 1 /\ SoftReset["mInterlaced"] = 1
    BY <2>3, <2>4 DEF SoftReset, Field, ClearedFields
  <2> QED
    BY <2>1, <2>2, <2>5, PowerOnShown DEF Current
<1>3. CASE ResetBuffer(w) \/ AcknowledgeIrq(w)
  <2>1. w.op \in {\h01, \h02} /\ reg' = reg
    BY <1>3 DEF ResetBuffer, AcknowledgeIrq, Gp1
  <2> QED
    BY <1>1, <2>1, NoteGp1, ShownKept
<1>4. CASE DisplaySetting(w)
  BY <1>4, ShownDisplay
<1>5. CASE DisplayVramStart(w)
  <2> DEFINE values == [mDisplayVramXStart |-> 2 * Slice(w.arg, 1, 9),
                        mDisplayVramYStart |-> Slice(w.arg, 10, 9)]
  <2>1. w.op = \h05 /\ reg' = Assign(values)
    BY <1>5 DEF DisplayVramStart, Gp1
  <2>2. DOMAIN values = {"mDisplayVramXStart", "mDisplayVramYStart"}
    OBVIOUS
  <2> HIDE DEF values
  <2>3. \A f \in ShownFields : f \in Field /\ f \notin DOMAIN values
    BY <2>2, SettingFields DEF ShownFields, Field, Switches
  <2>4. \A f \in ShownFields : reg'[f] = reg[f]
    BY <2>1, <2>3 DEF Assign
  <2> QED
    BY <1>1, <2>1, <2>4, NoteGp1, ShownKept
<1>6. CASE DisplayMode(w)
  BY <1>6, ShownMode
<1> QED
  BY <1>2, <1>3, <1>4, <1>5, <1>6 DEF Gp1Step

LEMMA ShownInit == ObservedInit => Current
<1> SUFFICES ASSUME ObservedInit PROVE Current
  OBVIOUS
<1>1. reg = PowerOnReg /\ last = PowerOnLast
  BY DEF ObservedInit, Init
<1>2. ShownFields \subseteq Field
  BY SettingFields DEF ShownFields, Field, Switches
<1>3. /\ \A f \in ShownFields \ {"mDisplayDisabled", "mInterlaced"} : PowerOnReg[f] = 0
      /\ PowerOnReg["mDisplayDisabled"] = 1 /\ PowerOnReg["mInterlaced"] = 0
  BY <1>2, SettingFields DEF PowerOnReg, Field, ShownFields, Switches
<1> QED
  BY <1>1, <1>3, PowerOnShown DEF Current

(* STATUS shows the settings made last (status, gp0DrawMode and the other  *)
(* settings, gp1Reset), whatever words came in between and to what port.   *)
THEOREM StatusIsCurrentCorrect == ObservedSpec => []StatusIsCurrent
<1>1. ObservedInit => PortInv /\ Current
  BY PortInit, ShownInit DEF ObservedInit
<1>2. PortInv /\ Current /\ [ObservedNext]_obsVars => PortInv' /\ Current'
  <2> SUFFICES ASSUME PortInv, Current, [ObservedNext]_obsVars
               PROVE  PortInv' /\ Current'
    OBVIOUS
  <2>1. PortInv'
    BY ObservedIsNext, PortStep
  <2>2. ASSUME NEW w \in Inputs, Gp0Step(w), ObserveGp0(w) PROVE Current'
    BY <2>2, ShownGp0
  <2>3. ASSUME NEW w \in Gp1Words, Gp1Step(w), ObserveGp1(w) PROVE Current'
    BY <2>3, ShownGp1
  <2>4. CASE (Panic /\ UNCHANGED <<since, last>>) \/ UNCHANGED obsVars
    <3>1. reg' = reg /\ last' = last
      BY <2>4 DEF Panic, obsVars, vars
    <3> QED
      BY <2>1, <3>1, ShownKept
  <2> QED
    BY <2>1, <2>2, <2>3, <2>4 DEF ObservedNext
<1>3. Current => StatusIsCurrent
  BY StatusShows
<1> QED
  BY <1>1, <1>2, <1>3, PTL DEF ObservedSpec
-----------------------------------------------------------------------------
(* What is drawn, end to end. *)
Lists == Seq(Seq(Vertex))

LEMMA JoinIsLast == ASSUME NEW seqs PROVE Join(seqs) = Joins(seqs)[Len(seqs)]
BY DEF Join, Joins, Row

LEMMA JoinEmpty == Join(<<>>) = <<>>
<1>1. <<>> \in Lists /\ Len(<<>>) = 0
  BY DEF Lists
<1>2. Joins(<<>>)[0] = Row(<<>>, Joins(<<>>), 0)
  <2>1. <<>> \in Seq(Seq(Vertex)) /\ 0 \in 0 .. Len(<<>>)
    BY <1>1
  <2> QED
    BY <2>1, JoinsUnfolds
<1> QED
  BY <1>1, <1>2, JoinIsLast DEF Row

(* Drawing one more buffer puts it at the end. *)
LEMMA JoinAppend ==
    ASSUME NEW seqs \in Lists, NEW s \in Seq(Vertex)
    PROVE  Join(Append(seqs, s)) = Join(seqs) \o s /\ Join(seqs) \in Seq(Vertex)
<1> DEFINE more == Append(seqs, s)  m == Len(seqs)
           e == Joins(seqs)  g == Joins(more)
           T == {i \in Nat : i <= m => g[i] = e[i]}
<1>1. /\ more \in Lists /\ Len(more) = m + 1 /\ m \in Nat /\ more[m + 1] = s
      /\ \A i \in 1 .. m : more[i] = seqs[i]
  BY DEF Lists
<1>2. \A i \in 0 .. m : e[i] = Row(seqs, e, i) /\ e[i] \in Seq(Vertex)
  BY JoinsUnfolds DEF Lists
<1> HIDE DEF more
<1>3. \A i \in 0 .. m + 1 : g[i] = Row(more, g, i)
  BY <1>1, JoinsUnfolds DEF Lists
<1>4. Join(seqs) = e[m] /\ Join(more) = g[m + 1]
  BY <1>1, JoinIsLast
<1> HIDE DEF m, e, g
<1>5. 0 \in T
  <2>1. 0 \in 0 .. m /\ 0 \in 0 .. m + 1
    BY <1>1
  <2> QED
    BY <1>2, <1>3, <2>1 DEF Row
<1>6. ASSUME NEW i \in Nat, i \in T PROVE i + 1 \in T
  <2> SUFFICES ASSUME i + 1 <= m PROVE g[i + 1] = e[i + 1]
    OBVIOUS
  <2>1. /\ i + 1 \in 0 .. m /\ i + 1 \in 0 .. m + 1 /\ i + 1 \in 1 .. m
        /\ i + 1 # 0 /\ (i + 1) - 1 = i /\ g[i] = e[i]
    BY <1>1, <1>6
  <2> QED
    BY <1>1, <1>2, <1>3, <2>1 DEF Row
<1>7. Nat \subseteq T
  <2> HIDE DEF T
  <2> QED
    BY <1>5, <1>6, NaturalInduction
<1>8. g[m] = e[m]
  BY <1>1, <1>7
<1>9. m + 1 \in 0 .. m + 1 /\ m + 1 # 0 /\ (m + 1) - 1 = m /\ m \in 0 .. m
  BY <1>1
<1>10. g[m + 1] = g[m] \o s
  BY <1>1, <1>3, <1>9 DEF Row
<1> QED
  BY <1>2, <1>4, <1>8, <1>9, <1>10 DEF more

(* What a buffer has drawn and still holds. *)
Kept(b) == Join(b.draws) \o b.vertices

LEMMA KeptType == ASSUME NEW b \in Buffers PROVE Kept(b) \in Seq(Vertex)
<1>1. b.vertices \in Seq(Vertex) /\ b.draws \in Lists
  BY DEF Buffers, Lists
<1>2. Join(b.draws) \in Seq(Vertex)
  BY <1>1, JoinAppend
<1> QED
  BY <1>1, <1>2, ConcatProperties DEF Kept

LEMMA DrawKept ==
    ASSUME NEW b \in Buffers
    PROVE  Draw(b) \in Buffers /\ Kept(Draw(b)) = Kept(b)
<1>1. b.vertices \in Seq(Vertex) /\ b.draws \in Lists
  BY DEF Buffers, Lists
<1>2. Draw(b).vertices = <<>> /\ Draw(b).draws = Append(b.draws, b.vertices)
  BY DEF Draw
<1>3. Draw(b) \in Buffers
  BY <1>1 DEF Draw, Buffers, Lists
<1>4. Kept(Draw(b)) = Kept(b) \o <<>>
  BY <1>1, <1>2, JoinAppend DEF Kept
<1> QED
  BY <1>3, <1>4, KeptType

LEMMA MakeRoomKept ==
    ASSUME NEW b \in Buffers, NEW n
    PROVE  MakeRoom(b, n) \in Buffers /\ Kept(MakeRoom(b, n)) = Kept(b)
BY DrawKept DEF MakeRoom

LEMMA PushVertexKept ==
    ASSUME NEW b \in Buffers, NEW v \in Vertex
    PROVE  PushVertex(b, v) \in Buffers /\ Kept(PushVertex(b, v)) = Kept(b) \o <<v>>
<1> DEFINE room == MakeRoom(b, 1)  next == PushVertex(b, v)
<1>1. room \in Buffers /\ Kept(room) = Kept(b)
  BY MakeRoomKept
<1>2. next = [vertices |-> Append(room.vertices, v), draws |-> room.draws]
  BY DEF PushVertex
<1> HIDE DEF room, next
<1>3. room.vertices \in Seq(Vertex) /\ room.draws \in Lists
  BY <1>1 DEF Buffers, Lists
<1>4. next \in Buffers /\ next.vertices = room.vertices \o <<v>> /\ next.draws = room.draws
  BY <1>2, <1>3 DEF Buffers, Lists
<1>5. Join(room.draws) \in Seq(Vertex)
  BY <1>3, JoinAppend
<1> DEFINE drawn == Join(room.draws)  held == room.vertices
<1>6. drawn \in Seq(Vertex) /\ held \in Seq(Vertex) /\ <<v>> \in Seq(Vertex)
  BY <1>3, <1>5
<1>7. Kept(room) = drawn \o held /\ Kept(next) = drawn \o (held \o <<v>>)
  BY <1>4 DEF Kept
<1> HIDE DEF drawn, held
<1>8. drawn \o (held \o <<v>>) = (drawn \o held) \o <<v>>
  BY <1>6
<1> QED
  BY <1>1, <1>4, <1>7, <1>8 DEF next

Triangle(v1, v2, v3) == <<v1, v2, v3>>
Quadrangle(v1, v2, v3, v4) == <<v1, v2, v3, v2, v3, v4>>
Adds(after, before, more) == after \in Buffers /\ Kept(after) = Kept(before) \o more
ThreeFollow(s, v1, v2, v3) ==
    ((s \o <<v1>>) \o <<v2>>) \o <<v3>> = s \o Triangle(v1, v2, v3)
TwoTriangles(s, v1, v2, v3, v4) ==
    (s \o Triangle(v1, v2, v3)) \o Triangle(v2, v3, v4) = s \o Quadrangle(v1, v2, v3, v4)

(* The elements of two sequences, one after the other.                     *)
Elements(u, s, t) ==
    /\ u \in Seq(Vertex) /\ Len(u) = Len(s) + Len(t)
    /\ \A i \in 1 .. Len(s) : u[i] = s[i]
    /\ \A i \in 1 .. Len(t) : u[Len(s) + i] = t[i]
LEMMA ConcatElements ==
    ASSUME NEW s \in Seq(Vertex), NEW t \in Seq(Vertex)
    PROVE  Elements(s \o t, s, t)
<1>1. Len(s) \in Nat /\ Len(t) \in Nat
  OBVIOUS
<1> QED
  BY <1>1, ConcatProperties DEF Elements

LEMMA AppendThree ==
    ASSUME NEW s \in Seq(Vertex), NEW v1 \in Vertex, NEW v2 \in Vertex, NEW v3 \in Vertex
    PROVE  ThreeFollow(s, v1, v2, v3)
<1> DEFINE a == <<v1>>  b == <<v2>>  c == <<v3>>  t == <<v1, v2, v3>>
<1>1. /\ a \in Seq(Vertex) /\ Len(a) = 1 /\ a[1] = v1
      /\ b \in Seq(Vertex) /\ Len(b) = 1 /\ b[1] = v2
      /\ c \in Seq(Vertex) /\ Len(c) = 1 /\ c[1] = v3
      /\ t \in Seq(Vertex) /\ Len(t) = 3 /\ t[1] = v1 /\ t[2] = v2 /\ t[3] = v3
  OBVIOUS
<1> HIDE DEF a, b, c, t
<1>2. (a \o b) \o c = t
  <2> DEFINE u == a \o b  w == u \o c
  <2>1. u \in Seq(Vertex) /\ Len(u) = 2 /\ u[1] = v1 /\ u[1 + 1] = v2
    <3>1. Elements(u, a, b)
      BY <1>1, ConcatElements
    <3> HIDE DEF u
    <3> QED
      BY <1>1, <3>1 DEF Elements
  <2> HIDE DEF u
  <2>2. w \in Seq(Vertex) /\ Len(w) = 3 /\ w[1] = v1 /\ w[2] = v2 /\ w[2 + 1] = v3
    <3>1. Elements(w, u, c)
      BY <1>1, <2>1, ConcatElements
    <3> HIDE DEF w
    <3> QED
      BY <1>1, <2>1, <3>1 DEF Elements
  <2> HIDE DEF w
  <2>3. \A i \in 1 .. 3 : i = 1 \/ i = 2 \/ i = 3
    OBVIOUS
  <2>4. \A i \in 1 .. Len(w) : w[i] = t[i]
    BY <1>1, <2>2, <2>3
  <2>5. w = t
    BY <1>1, <2>2, <2>4, SeqEqual
  <2> QED
    BY <2>5 DEF w, u
<1>3. ((s \o a) \o b) \o c = s \o ((a \o b) \o c)
  <2>1. a \o b \in Seq(Vertex) /\ (s \o a) \o b = s \o (a \o b)
    BY <1>1
  <2> DEFINE u == a \o b
  <2> HIDE DEF u
  <2>2. u \in Seq(Vertex) /\ (s \o u) \o c = s \o (u \o c)
    BY <1>1, <2>1 DEF u
  <2> QED
    BY <2>1, <2>2 DEF u
<1> QED
  BY <1>2, <1>3 DEF ThreeFollow, Triangle, a, b, c, t

LEMMA PushTriangleKept ==
    ASSUME NEW b \in Buffers, NEW v1 \in Vertex, NEW v2 \in Vertex, NEW v3 \in Vertex
    PROVE  Adds(PushTriangle(b, v1, v2, v3), b, Triangle(v1, v2, v3))
<1> DEFINE b0 == MakeRoom(b, 3)
           b1 == PushVertex(b0, v1)
           b2 == PushVertex(b1, v2)
           b3 == PushVertex(b2, v3)
<1>1. b0 \in Buffers /\ Kept(b0) = Kept(b)
  BY MakeRoomKept
<1> HIDE DEF b0
<1>2. b1 \in Buffers /\ Kept(b1) = Kept(b) \o <<v1>>
  BY <1>1, PushVertexKept
<1> HIDE DEF b1
<1>3. b2 \in Buffers /\ Kept(b2) = (Kept(b) \o <<v1>>) \o <<v2>>
  BY <1>2, PushVertexKept
<1> HIDE DEF b2
<1>4. b3 \in Buffers /\ Kept(b3) = ((Kept(b) \o <<v1>>) \o <<v2>>) \o <<v3>>
  BY <1>3, PushVertexKept
<1>5. PushTriangle(b, v1, v2, v3) = b3
  BY DEF PushTriangle, b0, b1, b2
<1> HIDE DEF b3
<1>6. ThreeFollow(Kept(b), v1, v2, v3)
  BY KeptType, AppendThree
<1> QED
  BY <1>4, <1>5, <1>6 DEF ThreeFollow, Adds

LEMMA AppendSix ==
    ASSUME NEW s \in Seq(Vertex), NEW v1 \in Vertex, NEW v2 \in Vertex,
           NEW v3 \in Vertex, NEW v4 \in Vertex
    PROVE  TwoTriangles(s, v1, v2, v3, v4)
<1> DEFINE a == Triangle(v1, v2, v3)  b == Triangle(v2, v3, v4)
           t == Quadrangle(v1, v2, v3, v4)
<1>1. a \in Seq(Vertex) /\ Len(a) = 3 /\ a[1] = v1 /\ a[2] = v2 /\ a[3] = v3
  BY DEF Triangle
<1>2. b \in Seq(Vertex) /\ Len(b) = 3 /\ b[1] = v2 /\ b[2] = v3 /\ b[3] = v4
  BY DEF Triangle
<1>3. t \in Seq(Vertex) /\ Len(t) = 6
  BY DEF Quadrangle
<1>4. t[1] = v1 /\ t[2] = v2 /\ t[3] = v3 /\ t[4] = v2 /\ t[5] = v3 /\ t[6] = v4
  BY DEF Quadrangle
<1> HIDE DEF a, b, t
<1>5. a \o b = t
  <2> DEFINE w == a \o b
  <2>1. /\ w \in Seq(Vertex) /\ Len(w) = 3 + 3
        /\ \A i \in 1 .. 3 : w[i] = a[i]
        /\ \A i \in 1 .. 3 : w[3 + i] = b[i]
    <3>1. Elements(w, a, b)
      BY <1>1, <1>2, ConcatElements
    <3> HIDE DEF w
    <3> QED
      BY <1>1, <1>2, <3>1 DEF Elements
  <2> HIDE DEF w
  <2>2. w[1] = v1 /\ w[2] = v2 /\ w[3] = v3 /\ w[3 + 1] = v2 /\ w[3 + 2] = v3 /\ w[3 + 3] = v4
    BY <1>1, <1>2, <2>1
  <2>3. \A i \in 1 .. 6 : i = 1 \/ i = 2 \/ i = 3 \/ i = 4 \/ i = 5 \/ i = 6
    OBVIOUS
  <2>4. \A i \in 1 .. Len(w) : w[i] = t[i]
    BY <1>4, <2>1, <2>2, <2>3
  <2>5. w = t
    BY <1>3, <2>1, <2>4, SeqEqual
  <2> QED
    BY <2>5 DEF w
<1>6. (s \o a) \o b = s \o (a \o b)
  BY <1>1, <1>2
<1> QED
  BY <1>5, <1>6 DEF TwoTriangles, a, b, t

LEMMA PushQuadKept ==
    ASSUME NEW b \in Buffers, NEW v1 \in Vertex, NEW v2 \in Vertex,
           NEW v3 \in Vertex, NEW v4 \in Vertex
    PROVE  Adds(PushQuad(b, v1, v2, v3, v4), b, Quadrangle(v1, v2, v3, v4))
<1> DEFINE b0 == MakeRoom(b, 4)
           b1 == PushTriangle(b0, v1, v2, v3)
           b2 == PushTriangle(b1, v2, v3, v4)
<1>1. b0 \in Buffers /\ Kept(b0) = Kept(b)
  BY MakeRoomKept
<1> HIDE DEF b0
<1>2. Adds(b1, b0, Triangle(v1, v2, v3))
  BY <1>1, PushTriangleKept
<1> HIDE DEF b1
<1>3. Adds(b2, b1, Triangle(v2, v3, v4))
  BY <1>2, PushTriangleKept DEF Adds
<1>4. PushQuad(b, v1, v2, v3, v4) = b2
  BY DEF PushQuad, b0, b1
<1> HIDE DEF b2
<1>5. TwoTriangles(Kept(b), v1, v2, v3, v4)
  BY KeptType, AppendSix
<1> QED
  BY <1>1, <1>2, <1>3, <1>4, <1>5 DEF Adds, TwoTriangles

(* A drawing command adds the triangles it stands for. *)
LEMMA PushKept ==
    ASSUME NEW cmd \in Seq(Word), Len(cmd) = Length(cmd[1].op),
           cmd[1].op \in {\h28, \h2c, \h30, \h38}, Buffer \in Buffers
    PROVE  Adds(Push(cmd), Buffer, Shape(cmd))
<1>1. \A k \in 1 .. Len(cmd) : cmd[k].arg \in 0 .. 2^24 - 1
  <2>1. \A k \in 1 .. Len(cmd) : cmd[k] \in Word
    OBVIOUS
  <2> QED
    BY <2>1 DEF Word
<1>2. Red \in 0 .. 2^24 - 1
  <2>1. 2^24 = 16777216
    OBVIOUS
  <2> QED
    BY <2>1 DEF Red
<1> DEFINE c == cmd[1].arg
<1>3. CASE cmd[1].op = \h28
  <2>1. Len(cmd) = 5
    BY <1>3 DEF Length
  <2>2. c \in 0 .. 2^24 - 1
    BY <1>1, <2>1
  <2>3. Shape(cmd) = Quadrangle(Corner(cmd, 2, c), Corner(cmd, 3, c),
                                Corner(cmd, 4, c), Corner(cmd, 5, c))
    BY <1>3 DEF Shape, Corner, Quadrangle
  <2> HIDE DEF c
  <2>4. \A k \in 1 .. 5 : Corner(cmd, k, c) \in Vertex
    BY <2>1, <2>2, CornerType
  <2>5. Push(cmd) = PushQuad(Buffer, Corner(cmd, 2, c), Corner(cmd, 3, c),
                             Corner(cmd, 4, c), Corner(cmd, 5, c))
    BY <1>3 DEF Push, c
  <2> QED
    BY <2>3, <2>4, <2>5, PushQuadKept
<1>4. CASE cmd[1].op = \h2c
  <2>1. Len(cmd) = 9
    BY <1>4 DEF Length
  <2>2. \A k \in 1 .. 9 : Corner(cmd, k, Red) \in Vertex
    BY <1>2, <2>1, CornerType
  <2>3. Shape(cmd) = Quadrangle(Corner(cmd, 2, Red), Corner(cmd, 4, Red),
                                Corner(cmd, 6, Red), Corner(cmd, 8, Red))
    BY <1>4 DEF Shape, Corner, Quadrangle
  <2>4. Push(cmd) = PushQuad(Buffer, Corner(cmd, 2, Red), Corner(cmd, 4, Red),
                             Corner(cmd, 6, Red), Corner(cmd, 8, Red))
    BY <1>4 DEF Push
  <2> QED
    BY <2>2, <2>3, <2>4, PushQuadKept
<1>5. CASE cmd[1].op = \h30
  <2>1. Len(cmd) = 6
    BY <1>5 DEF Length
  <2>2. \A k, j \in 1 .. 6 : Corner(cmd, k, cmd[j].arg) \in Vertex
    BY <1>1, <2>1, CornerType
  <2>3. Shape(cmd) = Triangle(Corner(cmd, 2, cmd[1].arg), Corner(cmd, 4, cmd[3].arg),
                              Corner(cmd, 6, cmd[5].arg))
    BY <1>5 DEF Shape, Corner, Triangle
  <2>4. Push(cmd) = PushTriangle(Buffer, Corner(cmd, 2, cmd[1].arg),
                                 Corner(cmd, 4, cmd[3].arg), Corner(cmd, 6, cmd[5].arg))
    BY <1>5 DEF Push
  <2> QED
    BY <2>2, <2>3, <2>4, PushTriangleKept
<1>6. CASE cmd[1].op = \h38
  <2>1. Len(cmd) = 8
    BY <1>6 DEF Length
  <2>2. \A k, j \in 1 .. 8 : Corner(cmd, k, cmd[j].arg) \in Vertex
    BY <1>1, <2>1, CornerType
  <2>3. Shape(cmd) = Quadrangle(Corner(cmd, 2, cmd[1].arg), Corner(cmd, 4, cmd[3].arg),
                                Corner(cmd, 6, cmd[5].arg), Corner(cmd, 8, cmd[7].arg))
    BY <1>6 DEF Shape, Corner, Quadrangle
  <2>4. Push(cmd) = PushQuad(Buffer, Corner(cmd, 2, cmd[1].arg),
                             Corner(cmd, 4, cmd[3].arg),
                             Corner(cmd, 6, cmd[5].arg),
                             Corner(cmd, 8, cmd[7].arg))
    BY <1>6 DEF Push
  <2>5. /\ Corner(cmd, 2, cmd[1].arg) \in Vertex /\ Corner(cmd, 4, cmd[3].arg) \in Vertex
        /\ Corner(cmd, 6, cmd[5].arg) \in Vertex /\ Corner(cmd, 8, cmd[7].arg) \in Vertex
    BY <2>2
  <2> QED
    BY <2>3, <2>4, <2>5, PushQuadKept
<1> QED
  BY <1>3, <1>4, <1>5, <1>6

VertexStep == running' => Joined' \o mVertexBuf'
                            = mVertexBuf \o (IF Ran THEN Shape(ran'.words) ELSE <<>>)

(* A step that draws nothing, and adds no shape.                           *)
LEMMA NothingDrawn ==
    ASSUME BufferInv, NoRendering, Ran => Shape(ran'.words) = <<>>
    PROVE  VertexStep
<1>1. mVertexBuf \in Seq(Vertex)
  BY DEF BufferInv, Whole, Buffers, Buffer
<1>2. mVertexBuf' = mVertexBuf /\ Joined' = <<>>
  BY JoinEmpty DEF NoRendering, Joined
<1>3. mVertexBuf \o <<>> = mVertexBuf /\ <<>> \o mVertexBuf = mVertexBuf
  BY <1>1
<1> QED
  BY <1>2, <1>3 DEF VertexStep

LEMMA BufferKept ==
    ASSUME BufferInv
    PROVE  /\ Buffer \in Buffers /\ Kept(Buffer) = mVertexBuf
           /\ mVertexBuf \o <<>> = mVertexBuf
<1>1. Buffer \in Buffers /\ mVertexBuf \in Seq(Vertex)
  BY DEF BufferInv, Whole, Buffers, Buffer
<1>2. Kept(Buffer) = <<>> \o mVertexBuf
  BY JoinEmpty DEF Kept, Buffer
<1> QED
  BY <1>1, <1>2

LEMMA VerticesStep ==
    ASSUME BufferInv, [ObservedNext]_obsVars PROVE VertexStep \/ UNCHANGED obsVars
<1>1. ASSUME NEW w \in Inputs, Collect(w) \/ ImageWord(w) PROVE VertexStep
  <2>1. NoRendering /\ ran' = NoCommand
    BY <1>1 DEF Collect, ImageWord
  <2> QED
    BY <2>1, NothingDrawn DEF Ran
<1>2. ASSUME NEW w \in Inputs, LastWord(w)
      PROVE  LET cmd == Append(Received, w)
             IN /\ ran' = [op |-> Method(w), words |-> cmd] /\ mGp0Command' = cmd
                /\ cmd \in Seq(Word) /\ cmd[1].op = Method(w) /\ Len(cmd) = Length(Method(w))
  <2>1. /\ mGp0Mode = "Command" /\ Left(w) = 0 /\ mGp0Command' = Append(Received, w)
        /\ ran' = [op |-> Method(w), words |-> mGp0Command']
    BY <1>2 DEF LastWord
  <2> DEFINE cmd == Append(Received, w)
  <2>2. cmd \in Seq(Word) /\ Len(cmd) + Left(w) = Length(Method(w)) /\ cmd[1].op = Method(w)
    BY <2>1, ReceivedFits DEF BufferInv
  <2> HIDE DEF cmd
  <2>3. Len(cmd) = Length(Method(w))
    BY <2>1, <2>2
  <2> QED
    BY <2>1, <2>2, <2>3 DEF cmd
<1>3. ASSUME NEW w \in Inputs,
             RunNothing(w) \/ RunSetting(w) \/ RunImageLoad(w) \/ RunDrawingOffset(w)
      PROVE  Shape(ran'.words) = <<>>
  <2>1. LastWord(w) /\ Method(w) \notin {\h28, \h2c, \h30, \h38}
    BY <1>3 DEF RunNothing, RunSetting, RunImageLoad, RunDrawingOffset
  <2>2. ran'.words[1].op \notin {\h28, \h2c, \h30, \h38}
    BY <1>2, <2>1
  <2> QED
    BY <2>2 DEF Shape
<1>4. ASSUME NEW w \in Inputs, RunNothing(w) \/ RunSetting(w) \/ RunImageLoad(w)
      PROVE  VertexStep
  <2>1. NoRendering
    BY <1>4 DEF RunNothing, RunSetting, RunImageLoad
  <2> QED
    BY <1>3, <1>4, <2>1, NothingDrawn
<1>5. ASSUME NEW w \in Inputs, RunDrawingOffset(w) PROVE VertexStep
  <2>1. mVertexBuf' = Draw(Buffer).vertices /\ draws' = Draw(Buffer).draws
    BY <1>5 DEF RunDrawingOffset, Render
  <2>2. Joined' \o mVertexBuf' = mVertexBuf
    BY <2>1, BufferKept, DrawKept DEF Joined, Kept
  <2> QED
    BY <1>3, <1>5, <2>2, BufferKept DEF VertexStep
<1>6. ASSUME NEW w \in Inputs, RunDraw(w) PROVE VertexStep
  <2> DEFINE cmd == Append(Received, w)
  <2>1. /\ LastWord(w) /\ Method(w) \in {\h28, \h2c, \h30, \h38}
        /\ Render(Push(mGp0Command'))
    BY <1>6 DEF RunDraw
  <2>2. /\ ran'.op = Method(w) /\ ran'.words = cmd /\ mGp0Command' = cmd
        /\ cmd \in Seq(Word) /\ cmd[1].op = Method(w) /\ Len(cmd) = Length(Method(w))
    BY <1>2, <2>1
  <2> HIDE DEF cmd
  <2>3. Kept(Push(cmd)) = mVertexBuf \o Shape(cmd)
    BY <2>1, <2>2, PushKept, BufferKept DEF Adds
  <2>4. Joined' \o mVertexBuf' = Kept(Push(cmd))
    BY <2>1, <2>2 DEF Render, Joined, Kept
  <2>5. ran' # NoCommand
    BY <2>1, <2>2 DEF NoCommand
  <2> QED
    BY <2>2, <2>3, <2>4, <2>5 DEF VertexStep, Ran
<1>7. ASSUME NEW w \in Gp1Words, Gp1Step(w) PROVE VertexStep
  <2>1. NoRendering /\ ran' = NoCommand
    BY <1>7 DEF Gp1Step, Reset, ResetBuffer, AcknowledgeIrq, DisplaySetting,
       DisplayVramStart, DisplayMode, Gp1
  <2> QED
    BY <2>1, NothingDrawn DEF Ran
<1>8. CASE Panic
  BY <1>8 DEF Panic, VertexStep
<1> QED
  BY <1>1, <1>4, <1>5, <1>6, <1>7, <1>8 DEF ObservedNext, Gp0Step

(* No vertex is lost, repeated or moved (pushTriangle, pushQuad, draw), in *)
(* a vertex buffer of any length, for any words.                           *)
THEOREM VerticesKeptCorrect == ObservedSpec => VerticesKept
<1>1. ObservedInit => BufferInv
  BY BufferInit DEF ObservedInit
<1>2. BufferInv /\ [ObservedNext]_obsVars => BufferInv'
  BY ObservedIsNext, BufferStep
<1>3. BufferInv /\ [ObservedNext]_obsVars => [VertexStep]_obsVars
  BY VerticesStep
<1>4. [VertexStep]_obsVars =>
        [running' => Joined' \o mVertexBuf'
           = mVertexBuf \o (IF Ran THEN Shape(ran'.words) ELSE <<>>)]_obsVars
  BY DEF VertexStep
<1> QED
  BY <1>1, <1>2, <1>3, <1>4, PTL DEF ObservedSpec, VerticesKept
=============================================================================

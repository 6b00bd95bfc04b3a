--------------------------- MODULE DisplayProofs ---------------------------
(***************************************************************************)
(* The drawing program on the whole machine, for any table, packets,       *)
(* images and slots that fit in RAM: it never panics, and the devices are  *)
(* where it believes them to be.                                           *)
(*                                                                         *)
(* The inductive invariant says for each place in each routine what the    *)
(* program has put into RAM, the DMA and the GPU so far, and for each of   *)
(* the three transfers how far it is.                                      *)
(***************************************************************************)
EXTENDS DisplayDriver, TLAPS

I == INSTANCE Induction

-----------------------------------------------------------------------------
(* Routines: what is left of one from its k-th operation on.               *)
Rest(routine, k) == SubSeq(routine, k, Len(routine))

LEMMA RestStep ==
    ASSUME NEW S, NEW r \in Seq(S), NEW k \in 1 .. Len(r)
    PROVE  /\ Rest(r, k) # <<>>
           /\ Head(Rest(r, k)) = r[k]
           /\ Tail(Rest(r, k)) = Rest(r, k + 1)
<1>1. Len(r) \in Nat /\ k \in Nat
  OBVIOUS
<1>2. Len(Rest(r, k)) = Len(r) - k + 1 /\ \A i \in 1 .. Len(r) - k + 1 : Rest(r, k)[i] = r[k + i - 1]
  BY <1>1 DEF Rest
<1>3. Rest(r, k) = <<r[k]>> \o Rest(r, k + 1)
  BY <1>1, I!SubSeqRecursiveFirst DEF Rest
<1>4. Rest(r, k + 1) \in Seq(S)
  BY <1>1 DEF Rest
<1> QED
  BY <1>1, <1>2, <1>3, <1>4

LEMMA RestEnd ==
    ASSUME NEW S, NEW r \in Seq(S), NEW k \in 1 .. Len(r) + 1
    PROVE  Rest(r, k) = <<>> <=> k = Len(r) + 1
<1>1. Len(r) \in Nat /\ k \in Nat
  OBVIOUS
<1>2. CASE k = Len(r) + 1
  BY <1>1, <1>2 DEF Rest
<1>3. CASE k \in 1 .. Len(r)
  BY <1>3, RestStep
<1> QED
  BY <1>1, <1>2, <1>3

LEMMA RestAll == ASSUME NEW S, NEW r \in Seq(S) PROVE Rest(r, 1) = r
BY DEF Rest
-----------------------------------------------------------------------------
(* The bits of a word.                                                     *)
LEMMA ByteBits ==
    ASSUME NEW bits, NEW b \in Nat
    PROVE  /\ Byte(bits, b) \in 0 .. 255
           /\ Byte(bits, b) % 2 = 1 <=> b \in bits
           /\ (Byte(bits, b) \div 4) % 2 = 1 <=> b + 2 \in bits
           /\ (Byte(bits, b) \div 16) % 2 = 1 <=> b + 4 \in bits
<1> DEFINE B(i) == Bit(bits, b + i)
<1>1. \A i \in 0 .. 7 : B(i) \in {0, 1} /\ (B(i) = 1 <=> b + i \in bits)
  BY DEF Bit
<1>2. Byte(bits, b) = B(0) + 2 * B(1) + 4 * B(2) + 8 * B(3) + 16 * B(4)
                        + 32 * B(5) + 64 * B(6) + 128 * B(7)
  BY DEF Byte
<1> HIDE DEF B
<1>3. Byte(bits, b) = B(0) + 2 * (B(1) + 2 * (B(2) + 2 * (B(3) + 2 * (B(4)
                        + 2 * (B(5) + 2 * (B(6) + 2 * B(7)))))))
  BY <1>1, <1>2
<1>4. Byte(bits, b) \in 0 .. 255
  BY <1>1, <1>2
<1>5. Byte(bits, b) % 2 = B(0)
  BY <1>1, <1>2
<1>6. (Byte(bits, b) \div 4) % 2 = B(2)
  BY <1>1, <1>2
<1>7. (Byte(bits, b) \div 16) % 2 = B(4)
  BY <1>1, <1>2
<1> QED
  BY <1>1, <1>4, <1>5, <1>6, <1>7

(* What a poll finds of the bits it asks for. *)
LEMMA PolledBits ==
    ASSUME NEW bits
    PROVE  LET w == FromBits(bits)
           IN \A b \in {24, 26, 28} : b \in Bits(w) <=> b \in bits
<1> DEFINE w == FromBits(bits)
<1>1. w.hi = Byte(bits, 24) /\ w.hi \in 0 .. 255
  BY ByteBits DEF FromBits, AsWord
<1>2. \A b \in {24, 26, 28} : b \in Bits(w) <=> b - 24 \in Ones(w.hi)
  BY DEF Bits, Ones
<1>3. /\ 0 \in Ones(w.hi) <=> w.hi % 2 = 1
      /\ 2 \in Ones(w.hi) <=> (w.hi \div 4) % 2 = 1
      /\ 4 \in Ones(w.hi) <=> (w.hi \div 16) % 2 = 1
  BY <1>1 DEF Ones
<1> HIDE DEF w
<1>4. 24 + 2 = 26 /\ 24 + 4 = 28
  OBVIOUS
<1> QED
  BY <1>1, <1>2, <1>3, <1>4, ByteBits DEF w
-----------------------------------------------------------------------------
(* Addresses: what answers to each that the program uses.                  *)
LEMMA Ranges ==
    /\ Map["RAM"] = Range(0, 0, RAM_SIZE)
    /\ Map["BIOS"] = Range(0, \h1fc00000, BIOS_SIZE)
    /\ Map["MEM_CONTROL"] = Range(0, \h1f801000, 36)
    /\ Map["RAM_SIZE"] = Range(0, \h1f801060, 4)
    /\ Map["CACHE_CONTROL"] = Range(7, \h1ffe0130, 4)
    /\ Map["IRQ_CONTROL"] = Range(0, \h1f801070, 8)
    /\ Map["TIMERS"] = Range(0, \h1f801100, \h30)
    /\ Map["DMA"] = Range(0, \h1f801080, \h80)
    /\ Map["GPU"] = Range(0, \h1f801810, 8)
BY SMT DEF Map

Physical(a) == [seg |-> 0, low |-> a]

LEMMA Masked ==
    ASSUME segment \in {0, 4, 5}, NEW a
    PROVE  MaskRegion(At(a)) = Physical(a)
BY DEF MaskRegion, At, Physical

(* The devices that words may be stored to or loaded from. *)
WordDevices == {"RAM", "BIOS", "MEM_CONTROL", "RAM_SIZE", "CACHE_CONTROL", "IRQ_CONTROL",
                "DMA", "GPU", "TIMERS"}

LEMMA OneAnswers ==
    ASSUME segment \in {0, 4, 5}, NEW a \in Nat, NEW kind \in {"store", "load"},
           NEW d \in {"RAM", "DMA", "GPU", "IRQ_CONTROL"}, Contains(Physical(a), Map[d])
    PROVE  Target(kind, 4, At(a)) = d
<1>1. RAM_SIZE \in Nat /\ RAM_SIZE <= 2^24 /\ BIOS_SIZE \in Nat
  BY MapAssumption, DriverAssumption
<1>2. d \in Dispatch(kind, 4) /\ Dispatch(kind, 4) \subseteq WordDevices
  <2>1. Dispatch("load", 4) = {"RAM", "BIOS", "IRQ_CONTROL", "DMA", "GPU", "TIMERS"}
    BY SMT DEF Dispatch
  <2>2. Dispatch("store", 4) = {"RAM", "MEM_CONTROL", "RAM_SIZE", "CACHE_CONTROL",
                                "IRQ_CONTROL", "DMA", "GPU", "TIMERS"}
    BY SMT DEF Dispatch
  <2> QED
    BY <2>1, <2>2 DEF WordDevices
<1>3. ASSUME NEW e \in WordDevices, Contains(Physical(a), Map[e]) PROVE e = d
  BY <1>1, <1>3, Ranges DEF WordDevices, Contains, Physical, Range
<1>4. Hits(kind, 4, At(a)) = {d}
  BY <1>2, <1>3, Masked DEF Hits
<1> QED
  BY <1>4 DEF Target

LEMMA RamAnswers ==
    ASSUME segment \in {0, 4, 5}, NEW a \in D!Cell, NEW kind \in {"store", "load"}
    PROVE  Target(kind, 4, At(a)) = "RAM" /\ Offset("RAM", At(a)) = a
<1>1. a \in Nat /\ a < RAM_SIZE /\ RAM_SIZE \in Nat
  BY MapAssumption DEF D!Cell, D!Address
<1>2. Contains(Physical(a), Map["RAM"])
  BY <1>1, Ranges DEF Contains, Physical, Range
<1>3. Offset("RAM", At(a)) = a - 0
  BY Masked, Ranges DEF Offset, Physical, Range
<1> QED
  BY <1>1, <1>2, <1>3, OneAnswers

LEMMA DmaAnswers ==
    ASSUME segment \in {0, 4, 5}, NEW kind \in {"store", "load"},
           NEW p \in 0 .. 7, NEW minor \in {0, 4, 8}
    PROVE  /\ Target(kind, 4, At(DmaAddress(p, minor))) = "DMA"
           /\ Offset("DMA", At(DmaAddress(p, minor))) = 16 * p + minor
<1>1. Contains(Physical(DmaAddress(p, minor)), Map["DMA"])
  BY Ranges DEF Contains, Physical, Range, DmaAddress
<1>2. DmaAddress(p, minor) \in Nat
  BY DEF DmaAddress
<1> QED
  BY <1>1, <1>2, OneAnswers, Masked, Ranges DEF Offset, Physical, Range, DmaAddress

LEMMA GpuAnswers ==
    ASSUME segment \in {0, 4, 5}, NEW kind \in {"store", "load"}
    PROVE  /\ Target(kind, 4, At(GP0)) = "GPU" /\ Offset("GPU", At(GP0)) = 0
           /\ Target(kind, 4, At(GP1)) = "GPU" /\ Offset("GPU", At(GP1)) = 4
<1>1. Contains(Physical(GP0), Map["GPU"]) /\ Contains(Physical(GP1), Map["GPU"])
  BY Ranges DEF Contains, Physical, Range, GP0, GP1
<1>2. GP0 \in Nat /\ GP1 \in Nat
  BY DEF GP0, GP1
<1> QED
  BY <1>1, <1>2, OneAnswers, Masked, Ranges DEF Offset, Physical, Range, GP0, GP1

LEMMA IrqAnswers ==
    ASSUME segment \in {0, 4, 5}
    PROVE  Target("store", 4, At(IRQ_MASK)) = "IRQ_CONTROL"
<1>1. Contains(Physical(IRQ_MASK), Map["IRQ_CONTROL"]) /\ IRQ_MASK \in Nat
  BY Ranges DEF Contains, Physical, Range, IRQ_MASK
<1> QED
  BY <1>1, OneAnswers
-----------------------------------------------------------------------------
(* Packets: command n begins after the Start(packet, n - 1) words of those *)
(* before it.                                                              *)
Start(packet, n) == Len(I!Joins(packet)[n])

CommandSizes == 1 .. 9     \* words of a command
LEMMA LengthType == ASSUME NEW op PROVE G!Length(op) \in CommandSizes
BY DEF G!Length, CommandSizes

LEMMA WholeCommands ==
    ASSUME NEW packet \in Packets
    PROVE  \A n \in 1 .. Len(packet) : IsCommand(packet[n])
<1>1. \A n \in DOMAIN packet : IsCommand(packet[n])
  BY PacketAssumption, Zenon
<1>2. DOMAIN packet = 1 .. Len(packet)
  BY PacketAssumption
<1> QED
  BY <1>1, <1>2

LEMMA PacketType ==
    ASSUME NEW packet \in Packets
    PROVE  /\ packet \in Seq(Seq(D!Word)) /\ Len(packet) \in Nat
           /\ \A n \in 1 .. Len(packet) :
                 packet[n] \in Seq(D!Word) /\ Len(packet[n]) \in CommandSizes
<1>1. packet \in Seq(Seq(D!Word))
  BY PacketAssumption
<1>2. \A n \in 1 .. Len(packet) : Len(packet[n]) = G!Length(packet[n][1].hi)
  BY WholeCommands DEF IsCommand
<1>3. \A n \in 1 .. Len(packet) : Len(packet[n]) \in CommandSizes
  BY <1>2, LengthType, Zenon
<1> QED
  BY <1>1, <1>3

LEMMA JoinedWords ==
    ASSUME NEW packet \in Packets
    PROVE  Words[packet] = I!Joins(packet)[Len(packet)]
BY DEF Words, I!Joins, I!Row

LEMMA WordsType ==
    ASSUME NEW packet \in Packets
    PROVE  /\ Words[packet] \in Seq(D!Word) /\ Len(Words[packet]) \in Nat
           /\ Len(Words[packet]) <= 255
<1>1. Words[packet] \in Seq(D!Word)
  BY PacketType, JoinedWords, I!JoinsUnfolds
<1>2. Len(Words[packet]) <= 255
  BY PacketAssumption
<1> QED
  BY <1>1, <1>2

LEMMA JoinedStep ==
    ASSUME NEW packet \in Packets, NEW n \in 1 .. Len(packet)
    PROVE  /\ I!Joins(packet)[n] = I!Joins(packet)[n - 1] \o packet[n]
           /\ I!Joins(packet)[n - 1] \in Seq(D!Word)
           /\ Start(packet, n - 1) \in Nat
           /\ Start(packet, n) = Start(packet, n - 1) + Len(packet[n])
<1>1. Len(packet) \in Nat /\ n \in 0 .. Len(packet) /\ n - 1 \in 0 .. Len(packet) /\ n # 0
  BY PacketType
<1>2. I!Joins(packet)[n] = I!Joins(packet)[n - 1] \o packet[n]
  BY <1>1, PacketType, I!JoinsUnfolds DEF I!Row
<1>3. I!Joins(packet)[n - 1] \in Seq(D!Word) /\ packet[n] \in Seq(D!Word)
  BY <1>1, PacketType, I!JoinsUnfolds
<1> QED
  BY <1>2, <1>3 DEF Start

LEMMA StartOfFirst == ASSUME NEW packet \in Packets PROVE Start(packet, 0) = 0
<1>1. 0 \in 0 .. Len(packet)
  BY PacketType
<1>2. I!Joins(packet)[0] = <<>>
  BY <1>1, PacketType, I!JoinsUnfolds DEF I!Row
<1> QED
  BY <1>2 DEF Start

(* Joining more commands leaves the words of the first ones where they are.*)
LEMMA JoinedGrows ==
    ASSUME NEW packet \in Packets, NEW n \in 0 .. Len(packet)
    PROVE  /\ Start(packet, n) \in Nat /\ Start(packet, n) <= Len(Words[packet])
           /\ \A j \in 1 .. Start(packet, n) : Words[packet][j] = I!Joins(packet)[n][j]
<1> DEFINE m == Len(packet)
           e == I!Joins(packet)
           T == {k \in Nat : n + k <= m =>
                   /\ Len(e[n]) \in Nat /\ Len(e[n + k]) \in Nat
                   /\ Len(e[n]) <= Len(e[n + k])
                   /\ \A j \in 1 .. Len(e[n]) : e[n + k][j] = e[n][j]}
<1>1. m \in Nat /\ \A k \in 0 .. m : e[k] \in Seq(D!Word)
  BY PacketType, I!JoinsUnfolds
<1>2. \A k \in 1 .. m : e[k] = e[k - 1] \o packet[k] /\ packet[k] \in Seq(D!Word)
  BY JoinedStep, PacketType
<1> HIDE DEF m, e
<1>3. n \in Nat /\ n <= m /\ n \in 0 .. m
  BY <1>1 DEF m
<1>4. 0 \in T
  <2>1. n + 0 = n /\ Len(e[n]) \in Nat
    BY <1>1, <1>3
  <2> QED
    BY <2>1
<1>5. ASSUME NEW k \in Nat, k \in T PROVE k + 1 \in T
  <2> SUFFICES ASSUME n + (k + 1) <= m
               PROVE  /\ Len(e[n]) \in Nat /\ Len(e[n + (k + 1)]) \in Nat
                      /\ Len(e[n]) <= Len(e[n + (k + 1)])
                      /\ \A j \in 1 .. Len(e[n]) : e[n + (k + 1)][j] = e[n][j]
    OBVIOUS
  <2> DEFINE a == e[n + k]  b == packet[n + (k + 1)]
  <2>1. n + k \in 0 .. m /\ n + k <= m /\ n + (k + 1) \in 1 .. m /\ (n + (k + 1)) - 1 = n + k
    BY <1>1, <1>3
  <2>2. e[n + (k + 1)] = a \o b /\ a \in Seq(D!Word) /\ b \in Seq(D!Word)
    BY <1>1, <1>2, <2>1
  <2>3. /\ Len(e[n]) \in Nat /\ Len(e[n]) <= Len(a)
        /\ \A j \in 1 .. Len(e[n]) : a[j] = e[n][j]
    BY <1>5, <2>1
  <2> HIDE DEF a, b
  <2>4. Len(a \o b) = Len(a) + Len(b) /\ \A j \in 1 .. Len(a) : (a \o b)[j] = a[j]
    BY <2>2
  <2> QED
    BY <2>2, <2>3, <2>4
<1>6. Nat \subseteq T
  <2> HIDE DEF T
  <2> QED
    BY <1>4, <1>5, I!NaturalInduction
<1>7. m - n \in T /\ n + (m - n) = m
  BY <1>1, <1>3, <1>6
<1> QED
  BY <1>3, <1>7, JoinedWords DEF e, m, Start

LEMMA CommandPlace ==
    ASSUME NEW packet \in Packets, NEW n \in 1 .. Len(packet), NEW i \in 1 .. Len(packet[n])
    PROVE  /\ Start(packet, n - 1) + i \in 1 .. Len(Words[packet])
           /\ Words[packet][Start(packet, n - 1) + i] = packet[n][i]
<1> DEFINE s == Start(packet, n - 1)  a == I!Joins(packet)[n - 1]  b == packet[n]
<1>1. a \in Seq(D!Word) /\ s = Len(a) /\ s \in Nat /\ Start(packet, n) = s + Len(b)
      /\ I!Joins(packet)[n] = a \o b
  BY JoinedStep DEF Start
<1>2. b \in Seq(D!Word) /\ Len(b) \in Nat /\ i \in 1 .. Len(b) /\ n \in 0 .. Len(packet)
  BY PacketType
<1> HIDE DEF s, a, b
<1>3. s + i \in 1 .. s + Len(b) /\ (a \o b)[s + i] = b[i]
  BY <1>1, <1>2
<1>4. /\ Start(packet, n) <= Len(Words[packet])
      /\ Words[packet][s + i] = (a \o b)[s + i]
  BY <1>1, <1>2, <1>3, JoinedGrows
<1>5. Len(Words[packet]) \in Nat
  BY WordsType
<1> QED
  BY <1>1, <1>2, <1>3, <1>4, <1>5 DEF s, b
-----------------------------------------------------------------------------
(* What a word does to the command port.                                   *)
LEMMA Gp0Collect ==
    ASSUME NEW w, G!Gp0Step(w), mGp0Mode = "Command", G!Left(w) \in Nat \ {0}
    PROVE  /\ mGp0WordsRemaining' = G!Left(w) /\ mGp0CommandMethod' = G!Method(w)
           /\ mGp0Mode' = "Command"
BY DEF G!Gp0Step, G!Collect, G!ImageWord, G!RunNothing, G!RunSetting, G!RunDrawingOffset,
       G!RunDraw, G!RunImageLoad, G!LastWord

LEMMA Gp0Run ==
    ASSUME NEW w, G!Gp0Step(w), mGp0Mode = "Command", G!Left(w) = 0
    PROVE  IF G!Method(w) = \ha0
           THEN mGp0WordsRemaining' = G!ImageWords(w) /\ mGp0Mode' = "ImageLoad"
           ELSE mGp0WordsRemaining' = 0 /\ mGp0Mode' = "Command"
BY DEF G!Gp0Step, G!Collect, G!ImageWord, G!RunNothing, G!RunSetting, G!RunDrawingOffset,
       G!RunDraw, G!RunImageLoad, G!LastWord, G!CommandDone

LEMMA Gp0Pixel ==
    ASSUME NEW w, G!Gp0Step(w), mGp0Mode = "ImageLoad"
    PROVE  /\ mGp0WordsRemaining' = G!Left(w)
           /\ mGp0Mode' = IF G!Left(w) = 0 THEN "Command" ELSE "ImageLoad"
BY DEF G!Gp0Step, G!Collect, G!ImageWord, G!RunNothing, G!RunSetting, G!RunDrawingOffset,
       G!RunDraw, G!RunImageLoad, G!LastWord

(* The port after j words of a packet: it has received whole commands and  *)
(* the beginning of the next one.                                          *)
Partial(packet, n, i) ==
    /\ mGp0WordsRemaining = Len(packet[n]) - i
    /\ mGp0CommandMethod = packet[n][1].hi
Framed(packet, j) ==
    /\ mGp0Mode = "Command"
    /\ \/ mGp0WordsRemaining = 0 /\ \E n \in 0 .. Len(packet) : j = Start(packet, n)
       \/ \E n \in 1 .. Len(packet), i \in 1 .. 8 :
             i < Len(packet[n]) /\ j = Start(packet, n - 1) + i /\ Partial(packet, n, i)

GpuIdle == mGp0WordsRemaining = 0 /\ mGp0Mode = "Command"

LEMMA FramedFirst ==
    ASSUME NEW packet \in Packets, GpuIdle
    PROVE  Framed(packet, 0)
BY PacketType, StartOfFirst DEF GpuIdle, Framed

(* All words of a packet make whole commands. *)
LEMMA FramedLast ==
    ASSUME NEW packet \in Packets, Framed(packet, Len(Words[packet]))
    PROVE  GpuIdle
<1>1. ASSUME NEW n \in 1 .. Len(packet), NEW i \in 1 .. 8, i < Len(packet[n])
      PROVE  Start(packet, n - 1) + i # Len(Words[packet])
  <2>1. Len(packet) \in Nat /\ n \in 0 .. Len(packet) /\ Len(packet[n]) \in Nat
    BY PacketType
  <2>2. /\ Start(packet, n) = Start(packet, n - 1) + Len(packet[n])
        /\ Start(packet, n - 1) \in Nat
        /\ Start(packet, n) <= Len(Words[packet])
    BY <2>1, JoinedStep, JoinedGrows
  <2> QED
    BY <1>1, <2>1, <2>2, WordsType
<1> QED
  BY <1>1 DEF Framed, GpuIdle

LEMMA CommandWord ==
    ASSUME NEW packet \in Packets, NEW n \in 1 .. Len(packet)
    PROVE  LET op == packet[n][1].hi
           IN /\ Len(packet[n]) = G!Length(op) /\ op \in G!MethodOps /\ op # \ha0
              /\ op = \he1 => G!Slice(packet[n][1].lo, 7, 2) # 3
BY WholeCommands DEF IsCommand

LEMMA LengthOfSetting == G!Length(\he1) = 1 /\ G!Length(\ha0) = 3
BY DEF G!Length

LEMMA OneWordLess ==
    ASSUME NEW l \in 1 .. 9, NEW i \in 1 .. 8, i < l
    PROVE  /\ l - i # 0 /\ (l - i) - 1 = l - (i + 1) /\ l - (i + 1) \in Nat
           /\ i + 1 = l => l - (i + 1) = 0
           /\ i + 1 # l => l - (i + 1) # 0 /\ i + 1 \in 1 .. 8 /\ i + 1 < l
OBVIOUS

(* After the next word of a packet the port is one word further. *)
LEMMA FramedStep ==
    ASSUME NEW packet \in Packets, NEW j \in Nat, j < Len(Words[packet]), Framed(packet, j),
           NEW w, w = AsCommand(Words[packet][j + 1])
    PROVE  /\ ~G!Gp0Panics(w)
           /\ G!Gp0Step(w) => Framed(packet, j + 1)'
<1>1. /\ Len(packet) \in Nat
      /\ \A n \in 1 .. Len(packet) : Len(packet[n]) \in CommandSizes
  BY PacketType
<1>2. mGp0Mode = "Command"
  BY DEF Framed
<1>3. CASE mGp0WordsRemaining = 0 /\ \E n \in 0 .. Len(packet) : j = Start(packet, n)
  <2>1. PICK n \in 0 .. Len(packet) : j = Start(packet, n)
    BY <1>3
  <2>2. n # Len(packet)
    BY <2>1, JoinedWords, WordsType DEF Start
  <2>3. PICK m \in 1 .. Len(packet) : m - 1 = n /\ Start(packet, m - 1) = j
    <3>1. n + 1 \in 1 .. Len(packet) /\ (n + 1) - 1 = n
      BY <1>1, <2>2
    <3> QED
      BY <2>1, <3>1
  <2> DEFINE op == packet[m][1].hi
             l == Len(packet[m])
             s == Start(packet, m - 1)
  <2>4. l \in 1 .. 9 /\ 1 \in 1 .. l
    <3>1. l \in 1 .. 9
      BY <1>1 DEF CommandSizes
    <3> HIDE DEF l
    <3> QED
      BY <3>1
  <2>5. w = AsCommand(packet[m][1])
    BY <2>1, <2>3, <2>4, CommandPlace
  <2>6. /\ l = G!Length(op) /\ op \in G!MethodOps /\ op # \ha0
        /\ op = \he1 => G!Slice(packet[m][1].lo, 7, 2) # 3
    BY <2>3, CommandWord
  <2>7. w.op = op /\ w.arg = packet[m][1].lo
    BY <2>5 DEF AsCommand
  <2>8. s = j /\ Start(packet, m) = s + l
    BY <2>3, JoinedStep
  <2> HIDE DEF op, l, s
  <2>9. G!Fresh /\ G!Method(w) = op /\ G!Left(w) = l - 1
    BY <1>3, <2>6, <2>7 DEF G!Fresh, G!Method, G!Left
  <2>10. ~G!Gp0Panics(w)
    BY <2>6, <2>7, <2>9 DEF G!Gp0Panics, G!Known, G!TextureDepthPanics
  <2>11. ASSUME G!Gp0Step(w) PROVE Framed(packet, j + 1)'
    <3>1. CASE l = 1
      <4>1. mGp0WordsRemaining' = 0 /\ mGp0Mode' = "Command"
        BY <1>2, <2>6, <2>9, <2>11, <3>1, Gp0Run
      <4>2. j + 1 = Start(packet, m) /\ m \in 0 .. Len(packet)
        BY <2>3, <2>8, <3>1
      <4> QED
        BY <4>1, <4>2 DEF Framed
    <3>2. CASE l # 1
      <4>1. G!Left(w) \in Nat \ {0}
        BY <2>4, <2>9, <3>2
      <4>2. /\ mGp0WordsRemaining' = l - 1 /\ mGp0CommandMethod' = op
            /\ mGp0Mode' = "Command"
        BY <1>2, <2>9, <2>11, <4>1, Gp0Collect
      <4>3. 1 < l /\ j + 1 = s + 1
        BY <2>4, <2>8, <3>2
      <4>4. Partial(packet, m, 1)'
        BY <4>2 DEF Partial, op, l
      <4> QED
        BY <4>2, <4>3, <4>4 DEF Framed, l, s
    <3> QED
      BY <3>1, <3>2
  <2> QED
    BY <2>10, <2>11
<1>4. ASSUME NEW n \in 1 .. Len(packet), NEW i \in 1 .. 8,
             i < Len(packet[n]), j = Start(packet, n - 1) + i, Partial(packet, n, i)
      PROVE  ~G!Gp0Panics(w) /\ (G!Gp0Step(w) => Framed(packet, j + 1)')
  <2> DEFINE op == packet[n][1].hi
             l == Len(packet[n])
             s == Start(packet, n - 1)
  <2>1. l \in 1 .. 9 /\ s \in Nat /\ Start(packet, n) = s + l
    BY <1>1, JoinedStep DEF CommandSizes
  <2>2. l = G!Length(op) /\ op # \ha0
    BY CommandWord
  <2>0. i < l /\ j = s + i /\ i \in 1 .. 8
    BY <1>4
  <2>3. op # \he1
    <3> SUFFICES ASSUME op = \he1 PROVE FALSE
      OBVIOUS
    <3>1. l = 1
      BY <2>2, LengthOfSetting
    <3> QED
      BY <2>0, <3>1
  <2>4. mGp0WordsRemaining = l - i /\ mGp0CommandMethod = op
    BY <1>4 DEF Partial
  <2> HIDE DEF op, l, s
  <2>5. /\ ~G!Fresh /\ G!Method(w) = op /\ G!Left(w) = l - (i + 1)
        /\ G!Left(w) \in Nat
    BY <2>0, <2>1, <2>4, OneWordLess DEF G!Fresh, G!Method, G!Left
  <2>6. ~G!Gp0Panics(w)
    BY <2>3, <2>5 DEF G!Gp0Panics, G!Known, G!TextureDepthPanics
  <2>7. ASSUME G!Gp0Step(w) PROVE Framed(packet, j + 1)'
    <3>1. CASE i + 1 = l
      <4>1. G!Left(w) = 0
        BY <2>1, <2>5, <3>1
      <4>2. mGp0WordsRemaining' = 0 /\ mGp0Mode' = "Command"
        BY <1>2, <2>2, <2>5, <2>7, <4>1, Gp0Run
      <4>3. j + 1 = Start(packet, n) /\ n \in 0 .. Len(packet)
        BY <1>1, <2>0, <2>1, <3>1
      <4> QED
        BY <4>2, <4>3 DEF Framed
    <3>2. CASE i + 1 # l
      <4>1. G!Left(w) \in Nat \ {0} /\ i + 1 \in 1 .. 8 /\ i + 1 < l
        <5>1. i + 1 < l /\ i + 1 \in 1 .. 8
          BY <2>0, <2>1, <3>2
        <5>2. l - (i + 1) # 0
          BY <2>0, <2>1, <3>2
        <5> QED
          BY <2>5, <5>1, <5>2
      <4>2. /\ mGp0WordsRemaining' = l - (i + 1) /\ mGp0CommandMethod' = op
            /\ mGp0Mode' = "Command"
        BY <1>2, <2>5, <2>7, <4>1, Gp0Collect
      <4>3. j + 1 = s + (i + 1)
        BY <2>0, <2>1
      <4>4. Partial(packet, n, i + 1)'
        BY <4>2 DEF Partial, op, l
      <4> QED
        BY <4>1, <4>2, <4>3, <4>4 DEF Framed, l, s
    <3> QED
      BY <3>1, <3>2
  <2> QED
    BY <2>6, <2>7
<1> QED
  BY <1>3, <1>4 DEF Framed
-----------------------------------------------------------------------------
(* What the stores of the program do, each to one device.                  *)
ChannelType == [base : Nat, block : [size : Nat, count : Nat], control : SUBSET D!ControlBits]
Channels == [D!Port -> ChannelType]
GpuKept == UNCHANGED <<mGp0WordsRemaining, mGp0CommandMethod, mGp0Mode>>

LEMMA StoreRamEffect ==
    ASSUME segment \in {0, 4, 5}, NEW a \in D!Cell, NEW w, Store32(At(a), w)
    PROVE  /\ ram' = [ram EXCEPT ![a] = w]
           /\ UNCHANGED <<mChannels, xfer, running>> /\ GpuKept
<1>1. Target("store", 4, At(a)) = "RAM" /\ Offset("RAM", At(a)) = a
  BY RamAnswers
<1>2. ~StorePanics("RAM", a, w)
  BY DEF StorePanics, Refuses, Nowhere
<1> QED
  BY <1>1, <1>2 DEF Store32, StoreRam, GpuWaits, gpuVars, GpuKept

LEMMA StoreIrqEffect ==
    ASSUME segment \in {0, 4, 5}, NEW w, Store32(At(IRQ_MASK), w)
    PROVE  UNCHANGED <<mChannels, ram, xfer, running>> /\ GpuKept
<1>1. Target("store", 4, At(IRQ_MASK)) = "IRQ_CONTROL"
  BY IrqAnswers
<1>2. ~StorePanics("IRQ_CONTROL", Offset("IRQ_CONTROL", At(IRQ_MASK)), w)
  BY DEF StorePanics, Refuses, Nowhere
<1> QED
  BY <1>1, <1>2 DEF Store32, GpuWaits, gpuVars, GpuKept, dmaVars

LEMMA StorePortEffect ==
    ASSUME NEW a, NEW w, NEW offset, Target("store", 4, a) = "GPU", Offset("GPU", a) = offset,
           ~StorePanics("GPU", offset, w), Store32(a, w)
    PROVE  \/ offset = 0 /\ Gp0(w) /\ UNCHANGED dmaVars
           \/ offset = 4 /\ G!Gp1Step(AsCommand(w)) /\ UNCHANGED <<dmaVars, running>>
BY DEF Store32

LEMMA StoreGp0Effect ==
    ASSUME segment \in {0, 4, 5}, NEW w, Store32(At(GP0), w), ~G!Gp0Panics(AsCommand(w))
    PROVE  /\ G!Gp0Step(AsCommand(w))
           /\ UNCHANGED <<mChannels, ram, xfer, running>>
<1>1. Target("store", 4, At(GP0)) = "GPU" /\ Offset("GPU", At(GP0)) = 0
  BY GpuAnswers
<1>2. ~StorePanics("GPU", 0, w)
  BY DEF StorePanics, Refuses, Nowhere
<1>3. Gp0(w) /\ UNCHANGED dmaVars
  BY <1>1, <1>2, StorePortEffect
<1> QED
  BY <1>3 DEF Gp0, dmaVars

(* A soft reset and the direction of the DMA. *)
LEMMA StoreGp1Effect ==
    ASSUME segment \in {0, 4, 5}, NEW w \in {AsWord(0, 0), AsWord(4, 2)},
           Store32(At(GP1), w), GpuIdle
    PROVE  UNCHANGED <<mChannels, ram, xfer, running>> /\ GpuIdle'
<1>1. Target("store", 4, At(GP1)) = "GPU" /\ Offset("GPU", At(GP1)) = 4
  BY GpuAnswers
<1> DEFINE c == AsCommand(w)
<1>2. c.op \in {0, 4}
  BY DEF AsCommand, AsWord
<1>3. ~G!Gp1Panics(c)
  BY <1>2 DEF G!Gp1Panics
<1>4. ~StorePanics("GPU", 4, w)
  BY <1>3 DEF StorePanics, Refuses, Nowhere
<1>5. G!Gp1Step(c) /\ UNCHANGED <<dmaVars, running>>
  BY <1>1, <1>4, StorePortEffect
<1> HIDE DEF c
<1>6. GpuIdle'
  BY <1>5 DEF G!Gp1Step, G!Reset, G!ResetBuffer, G!ResetCommandBuffer, G!AcknowledgeIrq,
     G!DisplaySetting, G!DisplayVramStart, G!DisplayMode, G!port, GpuIdle
<1> QED
  BY <1>5, <1>6 DEF dmaVars

(* The registers of channel p: c is what the store makes of the channel. *)
Starts(p, c) ==
    /\ mChannels' = [mChannels EXCEPT ![p] = c]
    /\ xfer' = IF D!Active(c) THEN D!DoDma(p, c) ELSE D!Idle
    /\ UNCHANGED <<ram, running>> /\ GpuKept

LEMMA Registers ==
    ASSUME NEW p \in 0 .. 7, NEW minor \in {0, 4, 8}
    PROVE  (16 * p + minor) \div 16 = p /\ (16 * p + minor) % 16 = minor
OBVIOUS

LEMMA StoreChannelEffect ==
    ASSUME segment \in {0, 4, 5}, NEW p \in {2, 6}, NEW minor \in {0, 4, 8}, NEW w,
           Store32(At(DmaAddress(p, minor)), w),
           minor = 8 => ~D!UnknownSync(Bits(w))
    PROVE  /\ minor = 0 => Starts(p, [mChannels[p] EXCEPT !.base = w.lo % 2^24])
           /\ minor = 4 => Starts(p, [mChannels[p] EXCEPT !.block = BlockControl(w)])
           /\ minor = 8 => Starts(p, [mChannels[p] EXCEPT !.control = Bits(w) \cap D!ControlBits])
<1> DEFINE offset == 16 * p + minor
<1>1. /\ Target("store", 4, At(DmaAddress(p, minor))) = "DMA"
      /\ Offset("DMA", At(DmaAddress(p, minor))) = offset
  BY DmaAnswers
<1>2. offset \div 16 = p /\ offset % 16 = minor /\ p < 7
  BY Registers
<1> HIDE DEF offset
<1>3. ~StorePanics("DMA", offset, w)
  BY <1>2 DEF StorePanics, Refuses, Nowhere, DmaRegister
<1>4. SetDmaReg(offset, w) /\ GpuWaits /\ UNCHANGED running
  BY <1>1, <1>3 DEF Store32
<1>5. CASE minor = 0
  <2>1. D!WriteBase(p, w.lo)
    BY <1>2, <1>4, <1>5 DEF SetDmaReg
  <2> QED
    BY <1>4, <1>5, <2>1 DEF D!WriteBase, D!SetChannel, Starts, GpuKept, GpuWaits, gpuVars
<1>6. CASE minor = 4
  <2>1. D!WriteBlockControl(p, BlockControl(w))
    BY <1>2, <1>4, <1>6 DEF SetDmaReg
  <2> QED
    BY <1>4, <1>6, <2>1
       DEF D!WriteBlockControl, D!SetChannel, Starts, GpuKept, GpuWaits, gpuVars
<1>7. CASE minor = 8
  <2>1. D!WriteControl(p, Bits(w))
    BY <1>2, <1>4, <1>7 DEF SetDmaReg
  <2> QED
    BY <1>4, <1>7, <2>1 DEF D!WriteControl, D!SetChannel, Starts, GpuKept, GpuWaits, gpuVars
<1> QED
  BY <1>5, <1>6, <1>7

LEMMA StoreCommonEffect ==
    ASSUME segment \in {0, 4, 5}, NEW minor \in {0, 4}, NEW w,
           Store32(At(DmaAddress(7, minor)), w)
    PROVE  UNCHANGED <<mChannels, ram, xfer, running>> /\ GpuKept
<1> DEFINE offset == 16 * 7 + minor
<1>1. /\ Target("store", 4, At(DmaAddress(7, minor))) = "DMA"
      /\ Offset("DMA", At(DmaAddress(7, minor))) = offset
  BY DmaAnswers
<1>2. offset \div 16 = 7 /\ offset % 16 = minor
  BY Registers
<1> HIDE DEF offset
<1>3. ~StorePanics("DMA", offset, w)
  BY <1>2 DEF StorePanics, Refuses, Nowhere, DmaRegister
<1>4. SetDmaReg(offset, w) /\ GpuWaits /\ UNCHANGED running
  BY <1>1, <1>3 DEF Store32
<1>5. D!WriteCommon(w) \/ D!WriteInterrupt(Bits(w))
  BY <1>2, <1>4 DEF SetDmaReg
<1> QED
  BY <1>4, <1>5 DEF D!WriteCommon, D!WriteInterrupt, GpuKept, GpuWaits, gpuVars
-----------------------------------------------------------------------------
(* The routines, operation by operation.                                   *)
IsRoutine(r) == \E S : r \in Seq(S)

LEMMA RoutineOf ==
    ASSUME NEW n \in Nat, NEW F, NEW r, r = [k \in 1 .. n |-> F[k]]
    PROVE  IsRoutine(r) /\ Len(r) = n
<1> DEFINE S == {F[k] : k \in 1 .. n}
<1>1. r \in Seq(S)
  OBVIOUS
<1>2. Len(r) = n
  OBVIOUS
<1> HIDE DEF S
<1> QED
  BY <1>1, <1>2 DEF IsRoutine

Joined(r, s, j) ==
    /\ IsRoutine(j) /\ Len(r) \in Nat /\ Len(s) \in Nat /\ Len(j) = Len(r) + Len(s)
    /\ \A k \in 1 .. Len(r) : j[k] = r[k]
    /\ \A k \in 1 .. Len(s) : j[Len(r) + k] = s[k]

LEMMA RoutineJoined ==
    ASSUME NEW r, NEW s, IsRoutine(r), IsRoutine(s)
    PROVE  Joined(r, s, r \o s)
<1>1. PICK R : r \in Seq(R)
  BY DEF IsRoutine
<1>2. PICK S : s \in Seq(S)
  BY DEF IsRoutine
<1> DEFINE T == R \cup S
<1>3. r \in Seq(T) /\ s \in Seq(T)
  BY <1>1, <1>2
<1> HIDE DEF T
<1>4. r \o s \in Seq(T) /\ Len(r \o s) = Len(r) + Len(s)
  BY <1>3
<1>5. \A k \in 1 .. Len(r) : (r \o s)[k] = r[k]
  BY <1>3
<1>6. \A k \in 1 .. Len(s) : (r \o s)[Len(r) + k] = s[k]
  BY <1>3
<1> QED
  BY <1>3, <1>4, <1>5, <1>6 DEF IsRoutine, Joined

Spliced(h, f, t, r) ==
    LET n == Len(f)
    IN /\ IsRoutine(r) /\ Len(r) = n + 8
       /\ r[1] = h[1] /\ r[2] = h[2] /\ r[3] = h[3]
       /\ \A k \in 1 .. n : r[3 + k] = f[k]
       /\ r[n + 4] = t[1] /\ r[n + 5] = t[2] /\ r[n + 6] = t[3] /\ r[n + 7] = t[4]
       /\ r[n + 8] = t[5]

LEMMA ThreeJoined ==
    ASSUME NEW h, NEW f, NEW t, NEW g, NEW r, Joined(h, f, g), Joined(g, t, r),
           Len(h) = 3, Len(t) = 5
    PROVE  Spliced(h, f, t, r)
<1>0. PICK n : n = Len(f)
  OBVIOUS
<1>1. n \in Nat /\ Len(g) = 3 + n /\ Len(r) = n + 8 /\ IsRoutine(r)
  BY <1>0 DEF Joined
<1>2. \A k \in 1 .. 3 : g[k] = h[k]
  BY DEF Joined
<1>3. \A k \in 1 .. n : g[3 + k] = f[k]
  BY <1>0 DEF Joined
<1>4. \A k \in 1 .. 3 + n : r[k] = g[k]
  BY <1>1 DEF Joined
<1>5. \A k \in 1 .. 5 : r[(3 + n) + k] = t[k]
  BY <1>1 DEF Joined
<1>6. r[1] = h[1] /\ r[2] = h[2] /\ r[3] = h[3]
  BY <1>1, <1>2, <1>4
<1>7. ASSUME NEW k \in 1 .. n PROVE r[3 + k] = f[k]
  BY <1>1, <1>3, <1>4
<1>8. /\ r[(3 + n) + 1] = t[1] /\ r[(3 + n) + 2] = t[2] /\ r[(3 + n) + 3] = t[3]
      /\ r[(3 + n) + 4] = t[4] /\ r[(3 + n) + 5] = t[5]
  BY <1>5
<1>9. /\ (3 + n) + 1 = n + 4 /\ (3 + n) + 2 = n + 5 /\ (3 + n) + 3 = n + 6
      /\ (3 + n) + 4 = n + 7 /\ (3 + n) + 5 = n + 8
  BY <1>1
<1> QED
  BY <1>0, <1>1, <1>6, <1>7, <1>8, <1>9 DEF Spliced

LEMMA TwoOps ==
    ASSUME NEW a, NEW b
    PROVE  IsRoutine(<<a, b>>) /\ Len(<<a, b>>) = 2
<1> DEFINE S == {a, b}
<1>1. <<a, b>> \in Seq(S)
  OBVIOUS
<1>2. Len(<<a, b>>) = 2
  OBVIOUS
<1> HIDE DEF S
<1> QED
  BY <1>1, <1>2 DEF IsRoutine

LEMMA ThreeOps ==
    ASSUME NEW a, NEW b, NEW c
    PROVE  IsRoutine(<<a, b, c>>) /\ Len(<<a, b, c>>) = 3
<1> DEFINE S == {a, b, c}
<1>1. <<a, b, c>> \in Seq(S)
  OBVIOUS
<1>2. Len(<<a, b, c>>) = 3
  OBVIOUS
<1> HIDE DEF S
<1> QED
  BY <1>1, <1>2 DEF IsRoutine

LEMMA FourOps ==
    ASSUME NEW a, NEW b, NEW c, NEW d
    PROVE  IsRoutine(<<a, b, c, d>>) /\ Len(<<a, b, c, d>>) = 4
<1> DEFINE S == {a, b, c, d}
<1>1. <<a, b, c, d>> \in Seq(S)
  OBVIOUS
<1>2. Len(<<a, b, c, d>>) = 4
  OBVIOUS
<1> HIDE DEF S
<1> QED
  BY <1>1, <1>2 DEF IsRoutine

LEMMA FiveOps ==
    ASSUME NEW a, NEW b, NEW c, NEW d, NEW e
    PROVE  IsRoutine(<<a, b, c, d, e>>) /\ Len(<<a, b, c, d, e>>) = 5
<1> DEFINE S == {a, b, c, d, e}
<1>1. <<a, b, c, d, e>> \in Seq(S)
  OBVIOUS
<1>2. Len(<<a, b, c, d, e>>) = 5
  OBVIOUS
<1> HIDE DEF S
<1> QED
  BY <1>1, <1>2 DEF IsRoutine

LEMMA SixOps ==
    ASSUME NEW a, NEW b, NEW c, NEW d, NEW e, NEW f
    PROVE  IsRoutine(<<a, b, c, d, e, f>>) /\ Len(<<a, b, c, d, e, f>>) = 6
<1> DEFINE S == {a, b, c, d, e, f}
<1>1. <<a, b, c, d, e, f>> \in Seq(S)
  OBVIOUS
<1>2. Len(<<a, b, c, d, e, f>>) = 6
  OBVIOUS
<1> HIDE DEF S
<1> QED
  BY <1>1, <1>2 DEF IsRoutine

LEMMA SetUpRoutine ==
    /\ IsRoutine(SetUp) /\ Len(SetUp) = 5
    /\ SetUp[1] = Store(IRQ_MASK, Zero)
    /\ SetUp[2] = Store(DmaAddress(7, 0), AsWord(\h0b, \hbbbbbb))
    /\ SetUp[3] = Store(DmaAddress(7, 4), Zero)
    /\ SetUp[4] = Store(GP1, AsWord(0, 0))
    /\ SetUp[5] = Store(GP1, AsWord(4, 2))
BY FiveOps, SMT DEF SetUp

LEMMA ClearRoutine ==
    /\ IsRoutine(ClearTable) /\ Len(ClearTable) = 4
    /\ ClearTable[1] = Store(DmaAddress(6, 0), Pointer(Entry(Depths - 1)))
    /\ ClearTable[2] = Store(DmaAddress(6, 4), AsWord(0, Depths))
    /\ ClearTable[3] = Store(DmaAddress(6, 8), AsWord(\h11, \h000002))
    /\ ClearTable[4] = DmaDone(6)
BY FourOps, SMT DEF ClearTable

LEMMA DrawRoutine ==
    /\ IsRoutine(DrawTable) /\ Len(DrawTable) = 6
    /\ DrawTable[1] = GpuReady
    /\ DrawTable[2] = Store(DmaAddress(2, 0), Pointer(Entry(Depths - 1)))
    /\ DrawTable[3] = Store(DmaAddress(2, 4), Zero)
    /\ DrawTable[4] = Store(DmaAddress(2, 8), AsWord(\h01, \h000401))
    /\ DrawTable[5] = DmaDone(2)
    /\ DrawTable[6] = Store(GP0, AsWord(\he5, 0))
BY SixOps, SMT DEF DrawTable

LEMMA FillRoutine ==
    ASSUME NEW at, NEW words, Len(words) \in Nat
    PROVE  /\ IsRoutine(Fill(at, words)) /\ Len(Fill(at, words)) = Len(words)
           /\ \A k \in 1 .. Len(words) : Fill(at, words)[k] = Store(at + 4 * (k - 1), words[k])
<1> DEFINE n == Len(words)
           F == [k \in 1 .. n |-> Store(at + 4 * (k - 1), words[k])]
<1>1. Fill(at, words) = [k \in 1 .. n |-> F[k]]
  BY DEF Fill
<1>2. \A k \in 1 .. n : Fill(at, words)[k] = Store(at + 4 * (k - 1), words[k])
  BY DEF Fill
<1> HIDE DEF n, F
<1>3. n \in Nat
  BY DEF n
<1>4. IsRoutine(Fill(at, words)) /\ Len(Fill(at, words)) = n
  BY <1>1, <1>3, RoutineOf
<1> QED
  BY <1>2, <1>4 DEF n

LEMMA PacketRoutine ==
    ASSUME NEW slot, NEW d, NEW packet \in Packets
    PROVE  LET r == AddPacket(slot, d, packet)
               n == Len(Words[packet])
           IN /\ IsRoutine(r) /\ Len(r) = n + 2
              /\ \A k \in 1 .. n : r[k] = Store(slot + 4 + 4 * (k - 1), Words[packet][k])
              /\ r[n + 1] = Link(slot, n, Entry(d))
              /\ r[n + 2] = Store(Entry(d), AsWord(0, slot))
<1> DEFINE n == Len(Words[packet])
           f == Fill(slot + 4, Words[packet])
           t == <<Link(slot, n, Entry(d)), Store(Entry(d), AsWord(0, slot))>>
<1>1. n \in Nat
  BY WordsType
<1>2. /\ IsRoutine(f) /\ Len(f) = n
      /\ \A k \in 1 .. n : f[k] = Store(slot + 4 + 4 * (k - 1), Words[packet][k])
  BY <1>1, FillRoutine
<1>3. IsRoutine(t) /\ Len(t) = 2 /\ t[1] = Link(slot, n, Entry(d))
      /\ t[2] = Store(Entry(d), AsWord(0, slot))
  BY TwoOps, SMT
<1>4. AddPacket(slot, d, packet) = f \o t
  BY DEF AddPacket
<1> HIDE DEF n, f, t
<1> DEFINE r == AddPacket(slot, d, packet)
<1>5. Joined(f, t, r)
  <2> HIDE DEF r
  <2> QED
    BY <1>2, <1>3, <1>4, RoutineJoined DEF r
<1> HIDE DEF r
<1>6. /\ IsRoutine(r) /\ Len(r) = n + 2
      /\ \A k \in 1 .. n : r[k] = f[k]
      /\ \A k \in 1 .. 2 : r[n + k] = t[k]
  BY <1>2, <1>3, <1>5 DEF Joined
<1>7. r[n + 1] = t[1] /\ r[n + 2] = t[2]
  BY <1>6
<1> QED
  BY <1>2, <1>3, <1>6, <1>7 DEF n, r

LEMMA ImageRoutine ==
    ASSUME NEW image \in Images
    PROVE  LET r == LoadImage(image)
               n == Len(image.pixels)
           IN /\ IsRoutine(r) /\ Len(r) = n + 8
              /\ r[1] = Store(GP0, AsWord(\ha0, 0))
              /\ r[2] = Store(GP0, Zero)
              /\ r[3] = Store(GP0, image.size)
              /\ \A k \in 1 .. n : r[3 + k] = Store(ImageBuffer + 4 * (k - 1), image.pixels[k])
              /\ r[n + 4] = GpuReady
              /\ r[n + 5] = Store(DmaAddress(2, 0), Pointer(ImageBuffer))
              /\ r[n + 6] = Store(DmaAddress(2, 4), AsWord(0, 2^16 + n))
              /\ r[n + 7] = Store(DmaAddress(2, 8), AsWord(\h01, \h000201))
              /\ r[n + 8] = DmaDone(2)
<1> DEFINE n == Len(image.pixels)
           h == <<Store(GP0, AsWord(\ha0, 0)), Store(GP0, Zero), Store(GP0, image.size)>>
           f == Fill(ImageBuffer, image.pixels)
           t == <<GpuReady,
                  Store(DmaAddress(2, 0), Pointer(ImageBuffer)),
                  Store(DmaAddress(2, 4), AsWord(0, 2^16 + n)),
                  Store(DmaAddress(2, 8), AsWord(\h01, \h000201)),
                  DmaDone(2)>>
<1>1. n \in Nat
  BY ImageAssumption
<1>2. /\ IsRoutine(f) /\ Len(f) = n
      /\ \A k \in 1 .. n : f[k] = Store(ImageBuffer + 4 * (k - 1), image.pixels[k])
  BY <1>1, FillRoutine
<1>3. /\ IsRoutine(h) /\ Len(h) = 3
      /\ h[1] = Store(GP0, AsWord(\ha0, 0))
      /\ h[2] = Store(GP0, Zero)
      /\ h[3] = Store(GP0, image.size)
  BY ThreeOps, SMT
<1>4. /\ IsRoutine(t) /\ Len(t) = 5
      /\ t[1] = GpuReady
      /\ t[2] = Store(DmaAddress(2, 0), Pointer(ImageBuffer))
      /\ t[3] = Store(DmaAddress(2, 4), AsWord(0, 2^16 + n))
      /\ t[4] = Store(DmaAddress(2, 8), AsWord(\h01, \h000201))
      /\ t[5] = DmaDone(2)
  BY FiveOps, SMT
<1>5. LoadImage(image) = (h \o f) \o t
  BY DEF LoadImage
<1> DEFINE r == LoadImage(image)
<1> HIDE DEF n, h, f, t, r
<1>6. Joined(h, f, h \o f) /\ Joined(h \o f, t, r)
  <2>1. Joined(h, f, h \o f)
    BY <1>2, <1>3, RoutineJoined
  <2>2. IsRoutine(h \o f)
    BY <2>1 DEF Joined
  <2> QED
    BY <1>4, <1>5, <2>1, <2>2, RoutineJoined DEF r
<1>7. Spliced(h, f, t, r)
  BY <1>2, <1>3, <1>4, <1>6, ThreeJoined
<1>8. /\ IsRoutine(r) /\ Len(r) = n + 8
      /\ r[1] = h[1] /\ r[2] = h[2] /\ r[3] = h[3]
      /\ \A k \in 1 .. n : r[3 + k] = f[k]
      /\ r[n + 4] = t[1] /\ r[n + 5] = t[2] /\ r[n + 6] = t[3] /\ r[n + 7] = t[4]
      /\ r[n + 8] = t[5]
  BY <1>2, <1>7 DEF Spliced
<1> QED
  BY <1>2, <1>3, <1>4, <1>8 DEF n, r
-----------------------------------------------------------------------------
(* One operation of a routine.                                             *)
Frame == UNCHANGED <<stage, used, segment>>
Advances(r, k) == Frame /\ todo' = Rest(r, k + 1)

LEMMA AtOperation ==
    ASSUME NEW r, IsRoutine(r), NEW k \in 1 .. Len(r), todo = Rest(r, k)
    PROVE  todo # <<>> /\ Head(todo) = r[k] /\ Tail(todo) = Rest(r, k + 1)
BY RestStep DEF IsRoutine

LEMMA AtTheEnd ==
    ASSUME NEW r, IsRoutine(r), NEW k, k = Len(r) + 1
    PROVE  Rest(r, k) = <<>>
<1>1. PICK S : r \in Seq(S)
  BY DEF IsRoutine
<1>2. Len(r) \in Nat
  BY <1>1
<1>3. k \in 1 .. Len(r) + 1
  BY <1>2
<1> QED
  BY <1>1, <1>3, RestEnd

LEMMA AtTheStart ==
    ASSUME NEW r, IsRoutine(r)
    PROVE  Rest(r, 1) = r
BY RestAll DEF IsRoutine

LEMMA DoesStore ==
    ASSUME NEW r, IsRoutine(r), NEW k \in 1 .. Len(r), todo = Rest(r, k), Do,
           NEW at, NEW word, r[k] = Store(at, word)
    PROVE  Store32(At(at), word) /\ Advances(r, k)
<1>1. Head(todo) = Store(at, word) /\ Tail(todo) = Rest(r, k + 1)
  BY AtOperation
<1>2. /\ Head(todo).kind = "store" /\ Head(todo).at = at /\ Head(todo).word = word
  BY <1>1 DEF Store
<1> QED
  BY <1>1, <1>2 DEF Do, Advances, Frame

LEMMA DoesLink ==
    ASSUME NEW r, IsRoutine(r), NEW k \in 1 .. Len(r), todo = Rest(r, k), Do,
           NEW at, NEW hi, NEW from, r[k] = Link(at, hi, from)
    PROVE  Store32(At(at), AsWord(hi, Load32(At(from)).lo)) /\ Advances(r, k)
<1>1. Head(todo) = Link(at, hi, from) /\ Tail(todo) = Rest(r, k + 1)
  BY AtOperation
<1>2. /\ Head(todo).kind = "link" /\ Head(todo).at = at /\ Head(todo).from = from
      /\ Head(todo).word.hi = hi
  BY <1>1 DEF Link, AsWord
<1> QED
  BY <1>1, <1>2 DEF Do, Advances, Frame

Answered(op) == Bits(Load32(At(op.from))) \cap op.at = op.word

LEMMA DoesWait ==
    ASSUME NEW r, IsRoutine(r), NEW k \in 1 .. Len(r), todo = Rest(r, k), Do,
           r[k].kind = "wait", Answered(r[k])
    PROVE  /\ UNCHANGED <<mChannels, ram, xfer, running>> /\ GpuKept
           /\ xfer = D!Idle /\ Advances(r, k)
<1>1. Head(todo) = r[k] /\ Tail(todo) = Rest(r, k + 1)
  BY AtOperation
<1> QED
  BY <1>1 DEF Do, Answered, Advances, Frame, systemVars, dmaVars, gpuVars, GpuKept
-----------------------------------------------------------------------------
(* No channel but those of ports is started. *)
QuietBut(ports) == \A p \in D!Port \ ports : 24 \notin mChannels[p].control
Calm == xfer = D!Idle /\ QuietBut({})

LEMMA DoneIsSeen ==
    ASSUME segment \in {0, 4, 5}, NEW p \in {2, 6}, Calm
    PROVE  Answered(DmaDone(p)) /\ DmaDone(p).kind = "wait"
<1> DEFINE a == DmaAddress(p, 8)  offset == 16 * p + 8
<1>1. Target("load", 4, At(a)) = "DMA" /\ Offset("DMA", At(a)) = offset
  BY DmaAnswers
<1>2. offset \div 16 = p /\ offset % 16 = 8 /\ p < 7 /\ p \in D!Port
  BY Registers DEF D!Port
<1> HIDE DEF a, offset
<1>3. Load32(At(a)) = DmaReg(offset)
  BY <1>1 DEF Load32
<1>4. DmaReg(offset) = FromBits(mChannels[p].control)
  BY <1>2 DEF DmaReg
<1>5. 24 \notin Bits(FromBits(mChannels[p].control))
  BY <1>2, PolledBits DEF Calm, QuietBut
<1> QED
  BY <1>3, <1>4, <1>5 DEF Answered, DmaDone, Wait, a

LEMMA GpuIsReady ==
    ASSUME segment \in {0, 4, 5}
    PROVE  Answered(GpuReady) /\ GpuReady.kind = "wait"
<1>1. Target("load", 4, At(GP1)) = "GPU" /\ Offset("GPU", At(GP1)) = 4
  BY GpuAnswers
<1>2. Load32(At(GP1)) = FromBits(G!Status)
  <2>1. PICK offset : offset = Offset("GPU", At(GP1))
    OBVIOUS
  <2>2. Load32(At(GP1)) = CASE "GPU" = "RAM" -> ram[offset]
                            [] "GPU" = "DMA" -> DmaReg(offset)
                            [] "GPU" = "GPU" /\ offset = 4 -> FromBits(G!Status)
                            [] OTHER -> Zero
    BY <1>1, <2>1 DEF Load32
  <2> QED
    BY <1>1, <2>1, <2>2
<1>3. {26, 27, 28} \subseteq G!Status
  BY DEF G!Status
<1>4. 26 \in Bits(FromBits(G!Status)) /\ 28 \in Bits(FromBits(G!Status))
  BY <1>3, PolledBits
<1> QED
  BY <1>2, <1>4 DEF Answered, GpuReady, Wait

(* The bits of what is written to the control registers. *)
Controls(w) == Bits(w) \cap D!ControlBits

LEMMA LowAndHigh ==
    ASSUME NEW hi, NEW lo
    PROVE  /\ \A b \in 0 .. 23 : b \in Bits(AsWord(hi, lo)) <=> b \in Ones(lo)
           /\ 24 \in Bits(AsWord(hi, lo)) <=> 0 \in Ones(hi)
           /\ 28 \in Bits(AsWord(hi, lo)) <=> 4 \in Ones(hi)
<1> DEFINE w == AsWord(hi, lo)
<1>1. w.hi = hi /\ w.lo = lo
  BY DEF AsWord
<1>2. \A b \in 0 .. 23 : b \in Bits(w) <=> b \in Ones(w.lo)
  BY DEF Bits, Ones
<1>3. \A b \in {24, 28} : b \in Bits(w) <=> b - 24 \in Ones(w.hi)
  BY DEF Bits, Ones
<1> HIDE DEF w
<1>4. 24 - 24 = 0 /\ 28 - 24 = 4
  OBVIOUS
<1> QED
  BY <1>1, <1>2, <1>3, <1>4 DEF w

LEMMA ControlOnes ==
    /\ 0 \in Ones(\h11) /\ 4 \in Ones(\h11) /\ 0 \in Ones(\h01)
    /\ 1 \in Ones(2) /\ 0 \notin Ones(2) /\ 9 \notin Ones(2) /\ 10 \notin Ones(2)
    /\ 0 \in Ones(\h201) /\ 9 \in Ones(\h201) /\ 10 \notin Ones(\h201)
    /\ 0 \in Ones(\h401) /\ 10 \in Ones(\h401) /\ 9 \notin Ones(\h401)
BY DEF Ones

LEMMA ControlWords ==
    /\ LET w == AsWord(\h11, \h000002)
       IN {24, 28, 1} \subseteq Controls(w) /\ {9, 10, 0} \cap Bits(w) = {}
    /\ LET w == AsWord(\h01, \h000201)
       IN {24, 9, 0} \subseteq Controls(w) /\ 10 \notin Bits(w)
    /\ LET w == AsWord(\h01, \h000401)
       IN {24, 10, 0} \subseteq Controls(w) /\ 9 \notin Bits(w)
<1>1. {24, 28, 1, 9, 10, 0} \subseteq D!ControlBits
  BY DEF D!ControlBits
<1>2. LET w == AsWord(\h11, \h000002)
      IN {24, 28, 1} \subseteq Bits(w) /\ {9, 10, 0} \cap Bits(w) = {}
  BY LowAndHigh, ControlOnes
<1>3. LET w == AsWord(\h01, \h000201)
      IN {24, 9, 0} \subseteq Bits(w) /\ 10 \notin Bits(w)
  BY LowAndHigh, ControlOnes
<1>4. LET w == AsWord(\h01, \h000401)
      IN {24, 10, 0} \subseteq Bits(w) /\ 9 \notin Bits(w)
  BY LowAndHigh, ControlOnes
<1> QED
  BY <1>1, <1>2, <1>3, <1>4 DEF Controls
-----------------------------------------------------------------------------
(* RAM between ClearTable and the end of DrawTable, with packets in the    *)
(* slots of F: entries and packets lead to each other or to the end.       *)
Heads(F) == Table \cup {Slots[m] : m \in F}
Ends == {2^24 - 1}
Links(a, F) == ram[a].lo \in Heads(F) \cup Ends
Built(F) ==
    /\ F \subseteq 1 .. used
    /\ \A a \in Table : ram[a].hi = 0 /\ Links(a, F)
    /\ \A m \in F : Links(Slots[m], F) /\ \E packet \in Packets : Holds(Slots[m], packet)
Building == \E F \in SUBSET (1 .. used) : Built(F)

Loops == [loop : {"none", "block", "header", "packet"}, port : D!Port,
          addr : Int, remsz : Int, header : D!Word]
Machine ==
    /\ running = TRUE /\ segment \in {0, 4, 5}
    /\ used \in Nat /\ used <= Len(Slots)
    /\ mChannels \in Channels /\ ram \in [D!Cell -> D!Word] /\ xfer \in Loops

AtSetUp(k) == todo = Rest(SetUp, k) /\ stage = "clear" /\ Calm /\ GpuIdle

(* Between two routines. *)
AtRest == /\ todo = <<>> /\ Calm /\ GpuIdle
          /\ stage = "clear" \/ (stage = "build" /\ Building)

(* The loop that clears the table has the first remsz entries to go. *)
Cleared(d) ==
    ram[Entry(d)].hi = 0 /\ ram[Entry(d)].lo = IF d = 0 THEN 2^24 - 1 ELSE Entry(d - 1)
ClearingLoop ==
    /\ xfer.loop = "block" /\ xfer.port = 6 /\ QuietBut({6})
    /\ 0 \notin mChannels[6].control /\ 1 \in mChannels[6].control
    /\ xfer.remsz \in 0 .. Depths
    /\ xfer.remsz > 0 => xfer.addr = Entry(xfer.remsz - 1)
    /\ \A d \in xfer.remsz .. Depths - 1 : Cleared(d)
AtClear(k) ==
    /\ todo = Rest(ClearTable, k) /\ stage = "build" /\ used = 0 /\ GpuIdle
    /\ k > 1 => mChannels[6].base = Entry(Depths - 1)
    /\ k > 2 => mChannels[6].block = [size |-> Depths, count |-> 0]
    /\ \/ Calm /\ (k = 4 => Built({}))
       \/ k = 4 /\ ClearingLoop

(* The packet is in its slot up to word k - 1, and not yet linked. *)
AtPacket(d, packet, F, k) ==
    /\ todo = Rest(AddPacket(Slots[used], d, packet), k)
    /\ stage = "build" /\ used > 0 /\ Calm /\ GpuIdle
    /\ Built(F) /\ used \notin F
    /\ \A j \in 1 .. Len(Words[packet]) : j < k => ram[Slots[used] + 4 * j] = Words[packet][j]
    /\ k = Len(Words[packet]) + 2 =>
          ram[Slots[used]] = AsWord(Len(Words[packet]), ram[Entry(d)].lo)

(* The loop that sends the pixels has as many to go as GP0 expects. *)
UploadLoop ==
    /\ xfer.loop = "block" /\ xfer.port = 2 /\ QuietBut({2})
    /\ 0 \in mChannels[2].control
    /\ xfer.remsz \in Nat /\ mGp0WordsRemaining = xfer.remsz
    /\ mGp0Mode = IF xfer.remsz = 0 THEN "Command" ELSE "ImageLoad"
ImagePort(n, k) ==
    /\ k = 1 => GpuIdle
    /\ k \in {2, 3} => /\ mGp0Mode = "Command" /\ mGp0CommandMethod = \ha0
                       /\ mGp0WordsRemaining = 4 - k
    /\ k \in 4 .. n + 7 => mGp0Mode = "ImageLoad" /\ mGp0WordsRemaining = n
AtImage(image, k) ==
    LET n == Len(image.pixels)
    IN /\ todo = Rest(LoadImage(image), k) /\ stage = "build" /\ Building
       /\ ImagePort(n, k)
       /\ k = n + 7 => mChannels[2].block = [size |-> n, count |-> 1]
       /\ \/ Calm /\ (k = n + 8 => GpuIdle)
          \/ k = n + 8 /\ UploadLoop

(* The loops that send the list: at a header, or remsz words before the    *)
(* end of a packet.                                                        *)
AtHeader(F) == xfer.loop = "header" /\ xfer.addr \in Heads(F) /\ GpuIdle
InPacket(m, packet) ==
    LET sent == Len(Words[packet]) - xfer.remsz
    IN /\ Holds(Slots[m], packet) /\ xfer.remsz <= Len(Words[packet])
       /\ xfer.addr = Slots[m] + 4 * sent /\ Framed(packet, sent)
AtWords(F) ==
    /\ xfer.loop = "packet" /\ xfer.header.lo \in Heads(F) \cup Ends /\ xfer.remsz \in Nat
    /\ \/ xfer.remsz = 0 /\ GpuIdle
       \/ \E m \in F, packet \in Packets : InPacket(m, packet)
WalkingLoop ==
    /\ xfer.port = 2 /\ QuietBut({2}) /\ 0 \in mChannels[2].control
    /\ \E F \in SUBSET (1 .. used) : Built(F) /\ (AtHeader(F) \/ AtWords(F))
AtDraw(k) ==
    /\ todo = Rest(DrawTable, k) /\ stage = "clear"
    /\ k <= 4 => Building
    /\ k > 2 => mChannels[2].base = Entry(Depths - 1)
    /\ (Calm /\ GpuIdle) \/ (k = 5 /\ WalkingLoop)

Places ==
    \/ AtRest
    \/ \E k \in 1 .. 5 : AtSetUp(k)
    \/ \E k \in 1 .. 4 : AtClear(k)
    \/ \E d \in 0 .. Depths - 1, packet \in Packets, F \in SUBSET (1 .. used) :
          \E k \in 1 .. Len(Words[packet]) + 2 : AtPacket(d, packet, F, k)
    \/ \E image \in Images : \E k \in 1 .. Len(image.pixels) + 8 : AtImage(image, k)
    \/ \E k \in 1 .. 6 : AtDraw(k)
DriverInv == Machine /\ Places
-----------------------------------------------------------------------------
(* Addresses of the program's data.                                        *)
LEMMA RamType ==
    /\ RAM_SIZE \in Nat /\ RAM_SIZE % 4 = 0 /\ RAM_SIZE <= 2^24 /\ RAM_SIZE >= 8
    /\ \A a \in D!Cell : a \in Nat /\ a < RAM_SIZE /\ a % 4 = 0
    /\ \A a \in Nat : a < RAM_SIZE /\ a % 4 = 0 => a \in D!Cell
BY MapAssumption, DriverAssumption DEF D!Cell, D!Address

LEMMA EntryType ==
    /\ Depths \in Nat /\ Depths >= 1 /\ Depths < 2^16 /\ OrderingTable \in Nat
    /\ \A d \in 0 .. Depths - 1 :
          Entry(d) \in Table /\ Entry(d) \in D!Cell /\ Entry(d) = OrderingTable + 4 * d
    /\ \A a \in Table : a \in D!Cell /\ \E d \in 0 .. Depths - 1 : a = Entry(d)
<1>1. OrderingTable \in Nat /\ Table \subseteq D!Cell
  BY LayoutAssumption
<1> QED
  BY <1>1, DriverAssumption DEF Table, Entry

LEMMA SlotType ==
    ASSUME NEW n \in 1 .. Len(Slots)
    PROVE  /\ Slots[n] \in D!Cell
           /\ \A packet \in Packets :
                 /\ SlotCells(n, packet) \subseteq D!Cell /\ SlotCells(n, packet) \cap Table = {}
                 /\ \A m \in 1 .. Len(Slots), other \in Packets :
                       m # n => SlotCells(m, other) \cap SlotCells(n, packet) = {}
                 /\ \A image \in Images : PixelCells(image) \cap SlotCells(n, packet) = {}
                 /\ Slots[n] \in SlotCells(n, packet)
                 /\ \A k \in 1 .. Len(Words[packet]) : Slots[n] + 4 * k \in SlotCells(n, packet)
<1>1. Slots \in Seq(D!Cell) /\ n \in DOMAIN Slots /\ DOMAIN Slots = 1 .. Len(Slots)
  BY LayoutAssumption
<1>2. Slots[n] \in D!Cell /\ Slots[n] \in Nat
  BY <1>1, RamType
<1>3. ASSUME NEW packet \in Packets
      PROVE  /\ SlotCells(n, packet) \subseteq D!Cell /\ SlotCells(n, packet) \cap Table = {}
             /\ \A m \in 1 .. Len(Slots), other \in Packets :
                   m # n => SlotCells(m, other) \cap SlotCells(n, packet) = {}
             /\ \A image \in Images : PixelCells(image) \cap SlotCells(n, packet) = {}
  <2>1. SlotCells(n, packet) \subseteq D!Cell \ Table
    BY <1>1, LayoutAssumption
  <2>2. \A m \in DOMAIN Slots \ {n}, other \in Packets :
           SlotCells(m, other) \cap SlotCells(n, packet) = {}
    BY <1>1, LayoutAssumption
  <2>3. \A image \in Images : PixelCells(image) \cap SlotCells(n, packet) = {}
    BY <1>1, LayoutAssumption
  <2> QED
    BY <1>1, <2>1, <2>2, <2>3
<1>4. ASSUME NEW packet \in Packets, NEW k \in 0 .. Len(Words[packet])
      PROVE  Slots[n] + 4 * k \in SlotCells(n, packet)
  BY DEF SlotCells
<1>5. ASSUME NEW packet \in Packets
      PROVE  /\ Slots[n] \in SlotCells(n, packet)
             /\ \A k \in 1 .. Len(Words[packet]) : Slots[n] + 4 * k \in SlotCells(n, packet)
  <2>1. Len(Words[packet]) \in Nat /\ 0 \in 0 .. Len(Words[packet]) /\ Slots[n] + 4 * 0 = Slots[n]
    BY <1>2, WordsType
  <2> QED
    BY <1>4, <2>1
<1> QED
  BY <1>2, <1>3, <1>5

LEMMA FieldsOf ==
    ASSUME NEW n \in Nat, NEW w \in [hi : 0 .. 255, lo : 0 .. n - 1]
    PROVE  w.hi \in 0 .. 255 /\ w.lo \in Nat /\ w.lo < n
OBVIOUS

LEMMA WordFields ==
    ASSUME NEW w \in D!Word
    PROVE  w.hi \in 0 .. 255 /\ w.lo \in Nat /\ w.lo < 2^24
<1>1. PICK n \in Nat : n = 2^24
  OBVIOUS
<1>2. D!Word = [hi : 0 .. 255, lo : 0 .. n - 1]
  BY <1>1, Zenon DEF D!Word
<1>3. w.hi \in 0 .. 255 /\ w.lo \in Nat /\ w.lo < n
  BY <1>2, FieldsOf, Zenon
<1> QED
  BY <1>1, <1>3

LEMMA PairsOf ==
    ASSUME NEW n \in Nat, NEW c \in Int, 2 * n \in {c, c + 1}
    PROVE  n = (c + 1) \div 2
OBVIOUS

LEMMA PixelType ==
    ASSUME NEW image \in Images
    PROVE  /\ image.size \in D!Word /\ image.pixels \in Seq(D!Word)
           /\ Len(image.pixels) \in Nat /\ Len(image.pixels) >= 1 /\ Len(image.pixels) < 2^16
           /\ Len(image.pixels) = G!ImageWords(AsCommand(image.size))
           /\ ImageBuffer \in Nat
           /\ \A k \in 1 .. Len(image.pixels) : ImageBuffer + 4 * (k - 1) \in PixelCells(image)
           /\ PixelCells(image) \subseteq D!Cell /\ PixelCells(image) \cap Table = {}
<1>1. image.size \in D!Word /\ image.pixels \in Seq(D!Word)
  BY ImageAssumption
<1>2. /\ Len(image.pixels) \in 1 .. 2^16 - 1
      /\ Len(image.pixels) = G!ImageWords(AsCommand(image.size))
  <2>1. PICK n : n = Len(image.pixels)
    OBVIOUS
  <2>2. PICK c : c = PixelCount(image.size)
    OBVIOUS
  <2>3. n \in 1 .. 2^16 - 1 /\ 2 * n \in {c, c + 1}
    BY <2>1, <2>2, ImageAssumption
  <2>4. n \in Nat
    BY <2>3
  <2>5. c \in Int
    <3>1. image.size.hi \in 0 .. 255 /\ image.size.lo \in Nat
      BY <1>1, WordFields
    <3>2. PICK hi \in Nat, lo \in Nat : hi = image.size.hi /\ lo = image.size.lo
      BY <3>1
    <3>3. PICK width \in Nat : width = lo % 2^16
      OBVIOUS
    <3>4. PICK height \in Nat : height = hi * 2^8 + lo \div 2^16
      OBVIOUS
    <3>5. c = width * height
      BY <2>2, <3>2, <3>3, <3>4 DEF PixelCount
    <3> QED
      BY <3>5
  <2>6. n = (c + 1) \div 2
    BY <2>3, <2>4, <2>5, PairsOf
  <2>7. G!ImageWords(AsCommand(image.size)) = (c + 1) \div 2
    BY <2>2 DEF G!ImageWords, AsCommand, PixelCount
  <2> QED
    BY <2>1, <2>3, <2>6, <2>7
<1>3. Len(image.pixels) \in Nat /\ Len(image.pixels) >= 1 /\ Len(image.pixels) < 2^16
  BY <1>2
<1>4. /\ ImageBuffer \in Nat
      /\ PixelCells(image) \subseteq D!Cell /\ PixelCells(image) \cap Table = {}
  BY LayoutAssumption
<1>5. \A k \in 1 .. Len(image.pixels) : ImageBuffer + 4 * (k - 1) \in PixelCells(image)
  BY DEF PixelCells
<1> QED
  BY <1>1, <1>2, <1>3, <1>4, <1>5
-----------------------------------------------------------------------------
(* What the kinds of steps keep.                                           *)
Untouched == UNCHANGED <<mChannels, ram, xfer, running>>

LEMMA MachineUntouched ==
    ASSUME Machine, Untouched, Frame
    PROVE  Machine'
BY DEF Machine, Untouched, Frame

LEMMA CalmUntouched ==
    ASSUME Calm, UNCHANGED <<mChannels, xfer>>
    PROVE  Calm'
BY DEF Calm, QuietBut, D!Idle

LEMMA MachineStored ==
    ASSUME Machine, NEW a \in D!Cell, NEW w \in D!Word, ram' = [ram EXCEPT ![a] = w],
           UNCHANGED <<mChannels, xfer, running>>, Frame
    PROVE  Machine'
<1>1. ram' \in [D!Cell -> D!Word]
  BY DEF Machine
<1> QED
  BY <1>1 DEF Machine, Frame

LEMMA WordOf ==
    ASSUME NEW n \in Nat, NEW hi \in 0 .. 255, NEW lo \in Nat, lo < n
    PROVE  [hi |-> hi, lo |-> lo] \in [hi : 0 .. 255, lo : 0 .. n - 1]
OBVIOUS

LEMMA WordType ==
    ASSUME NEW hi \in 0 .. 255, NEW lo \in Nat, lo < 2^24
    PROVE  AsWord(hi, lo) \in D!Word
<1>1. PICK n : n = 2^24
  OBVIOUS
<1>2. n \in Nat /\ lo < n
  BY <1>1
<1>3. D!Word = [hi : 0 .. 255, lo : 0 .. n - 1]
  BY <1>1, Zenon DEF D!Word
<1> QED
  BY <1>2, <1>3, WordOf, Zenon DEF AsWord

LEMMA LoopType ==
    ASSUME NEW p \in D!Port, NEW loop \in {"none", "block", "header", "packet"},
           NEW addr \in Int, NEW remsz \in Int, NEW header \in D!Word
    PROVE  [loop |-> loop, port |-> p, addr |-> addr, remsz |-> remsz,
            header |-> header] \in Loops
BY DEF Loops

LEMMA NoLoop == D!Idle \in Loops
<1>1. PICK h : h = AsWord(0, 0)
  OBVIOUS
<1>2. h \in D!Word /\ 0 \in D!Port
  BY <1>1, WordType DEF D!Port
<1>3. D!Idle = [loop |-> "none", port |-> 0, addr |-> 0, remsz |-> 0, header |-> h]
  BY <1>1, Zenon DEF D!Idle, AsWord
<1> QED
  BY <1>2, <1>3, LoopType

LEMMA DoDmaType ==
    ASSUME NEW p \in D!Port, NEW c \in ChannelType
    PROVE  D!DoDma(p, c) \in Loops
<1> DEFINE addr == c.base % RAM_SIZE
           loop == IF D!LinkedList(c) THEN "header" ELSE "block"
           a == IF D!LinkedList(c) THEN D!Mask(addr) ELSE addr
           remsz == IF D!LinkedList(c) THEN 0 ELSE D!TransferSize(c)
<1>1. RAM_SIZE \in Nat \ {0}
  BY RamType
<1>2. c.base % RAM_SIZE \in Int /\ D!Mask(c.base % RAM_SIZE) \in Int
  BY <1>1 DEF ChannelType, D!Mask
<1>3. D!TransferSize(c) \in Int
  BY DEF ChannelType, D!TransferSize
<1>4. loop \in {"none", "block", "header", "packet"} /\ a \in Int /\ remsz \in Int
  BY <1>2, <1>3
<1>5. D!DoDma(p, c) = [D!Idle EXCEPT !.port = p, !.loop = loop, !.addr = a, !.remsz = remsz]
  BY DEF D!DoDma
<1> HIDE DEF loop, a, remsz
<1> QED
  BY <1>4, <1>5, NoLoop DEF Loops

LEMMA MachineStarts ==
    ASSUME Machine, NEW p \in D!Port, NEW c \in ChannelType, Starts(p, c), Frame
    PROVE  Machine' /\ mChannels'[p] = c
<1>1. mChannels' = [mChannels EXCEPT ![p] = c] /\ mChannels \in [D!Port -> ChannelType]
  BY DEF Machine, Starts, Channels
<1>2. mChannels' \in [D!Port -> ChannelType] /\ mChannels'[p] = c
  BY <1>1
<1>3. xfer' \in Loops
  BY NoLoop, DoDmaType DEF Starts
<1> QED
  BY <1>2, <1>3 DEF Machine, Starts, Frame, Channels

(* A write to a channel that is not started leaves the machine at rest. *)
LEMMA CalmStarts ==
    ASSUME Machine, Calm, NEW p \in D!Port, NEW c \in ChannelType, Starts(p, c), 24 \notin c.control
    PROVE  Calm'
<1>1. mChannels' = [mChannels EXCEPT ![p] = c] /\ mChannels \in [D!Port -> ChannelType]
  BY DEF Machine, Starts, Channels
<1>2. xfer' = D!Idle
  BY DEF Starts, D!Active
<1>3. \A q \in D!Port : 24 \notin mChannels'[q].control
  BY <1>1 DEF Calm, QuietBut
<1> QED
  BY <1>2, <1>3 DEF Calm, QuietBut, D!Idle

LEMMA BuiltUntouched ==
    ASSUME NEW F, Built(F), ram' = ram, used \in Nat, used' \in Nat, used <= used'
    PROVE  Built(F)'
<1>1. F \subseteq 1 .. used'
  BY DEF Built
<1>2. \A a : Links(a, F) => Links(a, F)'
  BY DEF Links, Heads, Table, Ends
<1>3. \A a, packet : Holds(a, packet) => Holds(a, packet)'
  BY DEF Holds
<1> QED
  BY <1>1, <1>2, <1>3 DEF Built, Table

LEMMA BuiltStored ==
    ASSUME Machine, NEW F, Built(F), NEW a \in D!Cell, NEW w, ram' = [ram EXCEPT ![a] = w],
           used' = used, a \notin Table,
           \A m \in F, packet \in Packets : a \notin SlotCells(m, packet)
    PROVE  Built(F)'
<1>1. F \subseteq 1 .. Len(Slots) /\ F \subseteq 1 .. used'
  BY LayoutAssumption DEF Built, Machine
<1>2. \A b \in D!Cell : b # a => ram'[b] = ram[b]
  BY DEF Machine
<1>3. \A b \in Table : ram'[b] = ram[b]
  BY <1>2, EntryType
<1>4. ASSUME NEW m \in F, NEW packet \in Packets, Holds(Slots[m], packet)
      PROVE  Holds(Slots[m], packet)'
  <2>1. \A b \in SlotCells(m, packet) : ram'[b] = ram[b]
    BY <1>1, <1>2, SlotType
  <2>2. ram'[Slots[m]] = ram[Slots[m]]
    BY <1>1, <2>1, SlotType
  <2>3. \A k \in 1 .. Len(Words[packet]) : ram'[Slots[m] + 4 * k] = ram[Slots[m] + 4 * k]
    BY <1>1, <2>1, SlotType
  <2> QED
    BY <1>4, <2>2, <2>3 DEF Holds
<1>5. ASSUME NEW m \in F PROVE ram'[Slots[m]] = ram[Slots[m]]
  <2>1. PICK packet \in Packets : Holds(Slots[m], packet)
    BY DEF Built
  <2>2. a # Slots[m]
    BY <1>1, SlotType
  <2> QED
    BY <1>1, <1>2, <2>2, SlotType
<1>6. \A b \in Table : ram'[b].hi = 0 /\ Links(b, F)'
  BY <1>3 DEF Built, Links, Heads, Table, Ends
<1>7. ASSUME NEW m \in F
      PROVE  Links(Slots[m], F)' /\ \E packet \in Packets : Holds(Slots[m], packet)'
  BY <1>4, <1>5 DEF Built, Links, Heads, Table, Ends
<1> QED
  BY <1>1, <1>6, <1>7 DEF Built, Table
-----------------------------------------------------------------------------
(* The steps of each routine.                                              *)
LEMMA SameRoutines ==
    ASSUME segment' = segment
    PROVE  /\ ClearTable' = ClearTable /\ DrawTable' = DrawTable
           /\ \A image : LoadImage(image)' = LoadImage(image)
<1>1. \A a : Pointer(a)' = Pointer(a)
  BY DEF Pointer
<1>2. ClearTable' = ClearTable
  BY <1>1 DEF ClearTable
<1>3. DrawTable' = DrawTable
  BY <1>1 DEF DrawTable
<1>4. ASSUME NEW image PROVE LoadImage(image)' = LoadImage(image)
  BY <1>1 DEF LoadImage
<1> QED
  BY <1>2, <1>3, <1>4

LEMMA SetUpStep ==
    ASSUME Machine, NEW k \in 1 .. 5, AtSetUp(k), Do
    PROVE  DriverInv'
<1>0. segment \in {0, 4, 5} /\ todo = Rest(SetUp, k) /\ Calm /\ GpuIdle /\ stage = "clear"
  BY DEF Machine, AtSetUp
<1>1. IsRoutine(SetUp) /\ k \in 1 .. Len(SetUp) /\ Len(SetUp) = 5
  BY SetUpRoutine
<1>2. Advances(SetUp, k) /\ Untouched /\ GpuIdle'
  <2>1. CASE k = 1
    <3>1. SetUp[k] = Store(IRQ_MASK, Zero)
      BY <2>1, SetUpRoutine
    <3>2. Store32(At(IRQ_MASK), Zero) /\ Advances(SetUp, k)
      BY <1>0, <1>1, <3>1, DoesStore
    <3> QED
      BY <1>0, <3>2, StoreIrqEffect DEF Untouched, GpuKept, GpuIdle
  <2>2. CASE k = 2
    <3>0. PICK w : w = AsWord(\h0b, \hbbbbbb)
      OBVIOUS
    <3>1. SetUp[k] = Store(DmaAddress(7, 0), w)
      BY <2>2, <3>0, SetUpRoutine
    <3>2. Store32(At(DmaAddress(7, 0)), w) /\ Advances(SetUp, k)
      BY <1>0, <1>1, <3>1, DoesStore
    <3> QED
      BY <1>0, <3>2, StoreCommonEffect DEF Untouched, GpuKept, GpuIdle
  <2>3. CASE k = 3
    <3>1. SetUp[k] = Store(DmaAddress(7, 4), Zero)
      BY <2>3, SetUpRoutine
    <3>2. Store32(At(DmaAddress(7, 4)), Zero) /\ Advances(SetUp, k)
      BY <1>0, <1>1, <3>1, DoesStore
    <3> QED
      BY <1>0, <3>2, StoreCommonEffect DEF Untouched, GpuKept, GpuIdle
  <2>4. CASE k = 4
    <3>1. SetUp[k] = Store(GP1, AsWord(0, 0))
      BY <2>4, SetUpRoutine
    <3>2. Store32(At(GP1), AsWord(0, 0)) /\ Advances(SetUp, k)
      BY <1>0, <1>1, <3>1, DoesStore
    <3> QED
      BY <1>0, <3>2, StoreGp1Effect DEF Untouched
  <2>5. CASE k = 5
    <3>1. SetUp[k] = Store(GP1, AsWord(4, 2))
      BY <2>5, SetUpRoutine
    <3>2. Store32(At(GP1), AsWord(4, 2)) /\ Advances(SetUp, k)
      BY <1>0, <1>1, <3>1, DoesStore
    <3> QED
      BY <1>0, <3>2, StoreGp1Effect DEF Untouched
  <2> QED
    BY <2>1, <2>2, <2>3, <2>4, <2>5
<1>3. Machine' /\ Calm'
  BY <1>0, <1>2, MachineUntouched, CalmUntouched DEF Advances, Untouched
<1>4. stage' = "clear" /\ todo' = Rest(SetUp, k + 1)
  BY <1>0, <1>2 DEF Advances, Frame
<1>5. CASE k < 5
  <2>1. AtSetUp(k + 1)' /\ k + 1 \in 1 .. 5
    BY <1>2, <1>3, <1>4, <1>5 DEF AtSetUp
  <2> QED
    BY <1>3, <2>1 DEF DriverInv, Places
<1>6. CASE k = 5
  <2>1. todo' = <<>>
    BY <1>1, <1>4, <1>6, AtTheEnd
  <2> QED
    BY <1>2, <1>3, <1>4, <2>1 DEF DriverInv, Places, AtRest
<1> QED
  BY <1>5, <1>6

LEMMA RoutineSizes ==
    /\ IsRoutine(SetUp) /\ Len(SetUp) = 5
    /\ IsRoutine(ClearTable) /\ Len(ClearTable) = 4
    /\ IsRoutine(DrawTable) /\ Len(DrawTable) = 6
<1>1. IsRoutine(SetUp) /\ Len(SetUp) = 5
  BY SetUpRoutine
<1>2. IsRoutine(ClearTable) /\ Len(ClearTable) = 4
  BY ClearRoutine
<1>3. IsRoutine(DrawTable) /\ Len(DrawTable) = 6
  BY DrawRoutine
<1> QED
  BY <1>1, <1>2, <1>3

LEMMA OnlyAtRest ==
    ASSUME DriverInv, todo = <<>>
    PROVE  AtRest
<1>1. ASSUME NEW r, IsRoutine(r), NEW k \in 1 .. Len(r) PROVE todo # Rest(r, k)
  BY <1>1, AtOperation
<1>2. ASSUME NEW k \in 1 .. 5, AtSetUp(k) PROVE FALSE
  BY <1>1, <1>2, RoutineSizes DEF AtSetUp
<1>3. ASSUME NEW k \in 1 .. 4, AtClear(k) PROVE FALSE
  BY <1>1, <1>3, RoutineSizes DEF AtClear
<1>4. ASSUME NEW d, NEW packet \in Packets, NEW F, NEW k \in 1 .. Len(Words[packet]) + 2,
             AtPacket(d, packet, F, k)
      PROVE  FALSE
  <2>1. PICK r : r = AddPacket(Slots[used], d, packet)
    OBVIOUS
  <2>2. IsRoutine(r) /\ Len(r) = Len(Words[packet]) + 2
    BY <2>1, PacketRoutine
  <2> QED
    BY <1>1, <1>4, <2>1, <2>2 DEF AtPacket
<1>5. ASSUME NEW image \in Images, NEW k \in 1 .. Len(image.pixels) + 8, AtImage(image, k)
      PROVE  FALSE
  <2>1. PICK r : r = LoadImage(image)
    OBVIOUS
  <2>2. IsRoutine(r) /\ Len(r) = Len(image.pixels) + 8
    BY <2>1, ImageRoutine
  <2> QED
    BY <1>1, <1>5, <2>1, <2>2 DEF AtImage
<1>6. ASSUME NEW k \in 1 .. 6, AtDraw(k) PROVE FALSE
  BY <1>1, <1>6, RoutineSizes DEF AtDraw
<1> QED
  BY <1>2, <1>3, <1>4, <1>5, <1>6 DEF DriverInv, Places

LEMMA CallEffect ==
    ASSUME Machine, AtRest, NEW r, IsRoutine(r), Call(r), used' \in Nat, used' <= Len(Slots)
    PROVE  /\ todo' = Rest(r, 1) /\ segment' = segment /\ ram' = ram
           /\ Machine' /\ Calm' /\ GpuIdle'
<1>1. Calm /\ GpuIdle
  BY DEF AtRest
<1>2. Untouched /\ GpuKept /\ segment' = segment /\ todo' = r
  BY DEF Call, systemVars, dmaVars, gpuVars, Untouched, GpuKept
<1>3. todo' = Rest(r, 1)
  BY <1>2, AtTheStart
<1>4. Calm' /\ GpuIdle'
  BY <1>1, <1>2, CalmUntouched DEF Untouched, GpuKept, GpuIdle
<1>5. Machine'
  BY <1>2 DEF Machine, Untouched
<1> QED
  BY <1>2, <1>3, <1>4, <1>5 DEF Untouched

LEMMA NewPictureStep ==
    ASSUME Machine, AtRest, NewPicture
    PROVE  DriverInv'
<1>1. Call(ClearTable) /\ stage' = "build" /\ used' = 0
  BY DEF NewPicture
<1>2. Len(Slots) \in Nat
  BY LayoutAssumption
<1>3. /\ todo' = Rest(ClearTable, 1) /\ segment' = segment
      /\ Machine' /\ Calm' /\ GpuIdle'
  BY <1>1, <1>2, RoutineSizes, CallEffect
<1>4. ClearTable' = ClearTable
  BY <1>3, SameRoutines
<1>5. AtClear(1)'
  BY <1>1, <1>3, <1>4 DEF AtClear
<1> QED
  BY <1>3, <1>5 DEF DriverInv, Places

LEMMA InsertPacketStep ==
    ASSUME Machine, AtRest, NEW d \in 0 .. Depths - 1, NEW packet \in Packets,
           InsertPacket(d, packet)
    PROVE  DriverInv'
<1>1. PICK r : r = AddPacket(Slots[used + 1], d, packet)
  OBVIOUS
<1>2. /\ Call(r) /\ stage = "build" /\ stage' = "build"
      /\ used < Len(Slots) /\ used' = used + 1
  BY <1>1 DEF InsertPacket
<1>3. used \in Nat /\ used' \in Nat /\ used' > 0 /\ used' <= Len(Slots) /\ used <= used'
  BY <1>2, LayoutAssumption DEF Machine
<1>4. PICK F \in SUBSET (1 .. used) : Built(F)
  BY <1>2 DEF AtRest, Building
<1>5. /\ todo' = Rest(r, 1) /\ ram' = ram
      /\ Machine' /\ Calm' /\ GpuIdle'
  BY <1>1, <1>2, <1>3, PacketRoutine, CallEffect
<1>6. Built(F)' /\ used' \notin F /\ F \in SUBSET (1 .. used')
  BY <1>2, <1>3, <1>4, <1>5, BuiltUntouched
<1>7. Len(Words[packet]) \in Nat
  BY WordsType
<1>8. r = AddPacket(Slots[used'], d, packet)
  BY <1>1, <1>2
<1>9. AtPacket(d, packet, F, 1)'
  BY <1>2, <1>3, <1>5, <1>6, <1>7, <1>8 DEF AtPacket
<1>10. 1 \in 1 .. Len(Words[packet]) + 2
  BY <1>7
<1> QED
  BY <1>5, <1>6, <1>9, <1>10 DEF DriverInv, Places

LEMMA UploadImageStep ==
    ASSUME Machine, AtRest, NEW image \in Images, UploadImage(image)
    PROVE  DriverInv'
<1>1. PICK r : r = LoadImage(image)
  OBVIOUS
<1>2. /\ Call(r) /\ stage = "build" /\ stage' = "build"
      /\ used < Len(Slots) /\ used' = used + 1
  BY <1>1 DEF UploadImage
<1>3. used \in Nat /\ used' \in Nat /\ used' <= Len(Slots) /\ used <= used'
  BY <1>2, LayoutAssumption DEF Machine
<1>4. PICK F \in SUBSET (1 .. used) : Built(F)
  BY <1>2 DEF AtRest, Building
<1>5. /\ todo' = Rest(r, 1) /\ ram' = ram /\ segment' = segment
      /\ Machine' /\ Calm' /\ GpuIdle'
  BY <1>1, <1>2, <1>3, ImageRoutine, CallEffect
<1>6. Built(F)' /\ F \in SUBSET (1 .. used')
  BY <1>2, <1>3, <1>4, <1>5, BuiltUntouched
<1>7. Building'
  BY <1>6 DEF Building
<1>8. r = LoadImage(image)'
  BY <1>1, <1>5, SameRoutines
<1>9. AtImage(image, 1)'
  <2>1. PICK n : n = Len(image.pixels)
    OBVIOUS
  <2>2. n \in Nat
    BY <2>1, PixelType
  <2>3. ImagePort(n, 1)'
    BY <1>5, <2>2 DEF ImagePort
  <2> QED
    BY <1>2, <1>5, <1>7, <1>8, <2>1, <2>2, <2>3 DEF AtImage
<1>10. 1 \in 1 .. Len(image.pixels) + 8
  BY PixelType
<1> QED
  BY <1>5, <1>9, <1>10 DEF DriverInv, Places

LEMMA ShowPictureStep ==
    ASSUME Machine, AtRest, ShowPicture
    PROVE  DriverInv'
<1>1. Call(DrawTable) /\ stage = "build" /\ stage' = "clear" /\ used' = used
  BY DEF ShowPicture
<1>2. used \in Nat /\ used' <= Len(Slots)
  BY <1>1 DEF Machine
<1>3. /\ todo' = Rest(DrawTable, 1) /\ segment' = segment /\ ram' = ram
      /\ Machine' /\ Calm' /\ GpuIdle'
  BY <1>1, <1>2, RoutineSizes, CallEffect
<1>4. PICK F \in SUBSET (1 .. used) : Built(F)
  BY <1>1 DEF AtRest, Building
<1>5. Building'
  <2>1. Built(F)' /\ F \in SUBSET (1 .. used')
    BY <1>1, <1>2, <1>3, <1>4, BuiltUntouched
  <2> QED
    BY <2>1 DEF Building
<1>6. DrawTable' = DrawTable
  BY <1>3, SameRoutines
<1>7. AtDraw(1)'
  BY <1>1, <1>3, <1>5, <1>6 DEF AtDraw
<1> QED
  BY <1>3, <1>7 DEF DriverInv, Places
-----------------------------------------------------------------------------
(* The registers of a channel, and what a transfer does with them.         *)
LEMMA BaseStep ==
    ASSUME Machine, Calm, NEW p \in {2, 6}, NEW hi, NEW a \in D!Cell,
           Store32(At(DmaAddress(p, 0)), AsWord(hi, a)), Frame
    PROVE  Machine' /\ Calm' /\ mChannels'[p].base = a /\ ram' = ram /\ GpuKept
<1> DEFINE c == [mChannels[p] EXCEPT !.base = a]
<1>1. segment \in {0, 4, 5} /\ p \in D!Port /\ mChannels[p] \in ChannelType
  BY DEF Machine, D!Port, Channels
<1>2. PICK w : w = AsWord(hi, a)
  OBVIOUS
<1>3. PICK minor \in {0, 4, 8} : minor = 0
  OBVIOUS
<1>4. a \in Nat /\ w.lo = a /\ a % 2^24 = a
  BY <1>2, RamType DEF AsWord
<1>5. Starts(p, c)
  <2>1. Store32(At(DmaAddress(p, minor)), w)
    BY <1>2, <1>3
  <2>2. Starts(p, [mChannels[p] EXCEPT !.base = w.lo % 2^24])
    BY <1>1, <1>3, <2>1, StoreChannelEffect
  <2> QED
    BY <1>3, <1>4, <2>2
<1>6. c \in ChannelType /\ 24 \notin c.control /\ c.base = a
  BY <1>1, <1>4 DEF ChannelType, Calm, QuietBut
<1> HIDE DEF c
<1> QED
  BY <1>1, <1>5, <1>6, MachineStarts, CalmStarts DEF Starts

LEMMA BlockStep ==
    ASSUME Machine, Calm, NEW p \in {2, 6}, NEW n \in Nat, n < 2^16, NEW count \in {0, 1},
           NEW lo, lo = count * 2^16 + n,
           Store32(At(DmaAddress(p, 4)), AsWord(0, lo)), Frame
    PROVE  /\ Machine' /\ Calm' /\ mChannels'[p].block = [size |-> n, count |-> count]
           /\ mChannels'[p].base = mChannels[p].base /\ ram' = ram /\ GpuKept
<1> DEFINE c == [mChannels[p] EXCEPT !.block = [size |-> n, count |-> count]]
<1>1. segment \in {0, 4, 5} /\ p \in D!Port /\ mChannels[p] \in ChannelType
  BY DEF Machine, D!Port, Channels
<1>2. PICK w : w = AsWord(0, lo)
  OBVIOUS
<1>3. PICK minor \in {0, 4, 8} : minor = 4 /\ minor # 8
  OBVIOUS
<1>4. BlockControl(w) = [size |-> n, count |-> count]
  <2>1. lo % 2^16 = n /\ lo \div 2^16 = count
    OBVIOUS
  <2>2. w.lo = lo /\ w.hi = 0
    BY <1>2 DEF AsWord
  <2>3. BlockControl(w) = [size |-> lo % 2^16, count |-> 0 * 2^8 + lo \div 2^16]
    BY <2>2 DEF BlockControl
  <2>4. 0 * 2^8 + lo \div 2^16 = count
    BY <2>1
  <2> QED
    BY <2>1, <2>3, <2>4
<1>5. Starts(p, c)
  <2>1. Store32(At(DmaAddress(p, minor)), w)
    BY <1>2, <1>3
  <2>2. Starts(p, [mChannels[p] EXCEPT !.block = BlockControl(w)])
    BY <1>1, <1>3, <2>1, StoreChannelEffect
  <2> QED
    BY <1>3, <1>4, <2>2
<1>6. /\ c \in ChannelType /\ 24 \notin c.control /\ c.base = mChannels[p].base
      /\ c.block = [size |-> n, count |-> count]
  BY <1>1 DEF ChannelType, Calm, QuietBut
<1> HIDE DEF c
<1> QED
  BY <1>1, <1>5, <1>6, MachineStarts, CalmStarts DEF Starts

LEMMA ControlStep ==
    ASSUME Machine, Calm, NEW p \in {2, 6}, NEW w, ~D!UnknownSync(Bits(w)),
           Store32(At(DmaAddress(p, 8)), w), Frame,
           NEW c, c = [mChannels[p] EXCEPT !.control = Controls(w)], D!Active(c)
    PROVE  /\ Machine' /\ QuietBut({p})' /\ xfer' = D!DoDma(p, c) /\ mChannels'[p] = c
           /\ ram' = ram /\ GpuKept
<1>1. segment \in {0, 4, 5} /\ p \in D!Port /\ mChannels[p] \in ChannelType
  BY DEF Machine, D!Port, Channels
<1>3. PICK minor \in {0, 4, 8} : minor = 8
  OBVIOUS
<1>5. Starts(p, c)
  <2>1. Store32(At(DmaAddress(p, minor)), w)
    BY <1>3
  <2>2. Starts(p, [mChannels[p] EXCEPT !.control = Bits(w) \cap D!ControlBits])
    BY <1>1, <1>3, <2>1, StoreChannelEffect
  <2> QED
    BY <1>3, <2>2 DEF Controls
<1>6. c \in ChannelType
  BY <1>1 DEF ChannelType, Controls
<1>7. QuietBut({p})'
  <2>1. mChannels' = [mChannels EXCEPT ![p] = c] /\ mChannels \in [D!Port -> ChannelType]
    BY <1>5 DEF Machine, Starts, Channels
  <2> QED
    BY <2>1 DEF Calm, QuietBut
<1> QED
  BY <1>1, <1>5, <1>6, <1>7, MachineStarts DEF Starts

(* Where a transfer begins. *)
LEMMA DoDmaFields ==
    ASSUME NEW p, NEW c
    PROVE  LET x == D!DoDma(p, c)
           IN /\ x.port = p
              /\ x.loop = IF 10 \in c.control THEN "header" ELSE "block"
              /\ 10 \in c.control => x.addr = D!Mask(c.base % RAM_SIZE)
              /\ 10 \notin c.control =>
                    x.addr = c.base % RAM_SIZE /\ x.remsz = D!TransferSize(c)
<1>1. PICK i : i = D!Idle /\ i \in Loops
  BY NoLoop
<1>2. D!DoDma(p, c) =
        [i EXCEPT !.port = p,
                  !.loop = IF D!LinkedList(c) THEN "header" ELSE "block",
                  !.addr = IF D!LinkedList(c) THEN D!Mask(c.base % RAM_SIZE)
                           ELSE c.base % RAM_SIZE,
                  !.remsz = IF D!LinkedList(c) THEN 0 ELSE D!TransferSize(c)]
  BY <1>1, Zenon DEF D!DoDma
<1>3. D!LinkedList(c) <=> 10 \in c.control
  BY DEF D!LinkedList
<1> QED
  BY <1>1, <1>2, <1>3 DEF Loops

LEMMA CellMasks ==
    ASSUME NEW a \in D!Cell
    PROVE  D!Mask(a) = a /\ a % RAM_SIZE = a
BY RamType DEF D!Mask

LEMMA Moves ==
    ASSUME Transfer, ~D!Unhandled
    PROVE  /\ D!Move
           /\ gp0' = <<>> => GpuKept /\ running' = running
           /\ \A w : gp0' = <<w>> => Gp0(w)
<1>1. D!Move /\ IF gp0' = <<>> THEN GpuWaits /\ UNCHANGED running ELSE Gp0(gp0'[1])
  BY DEF Transfer
<1>2. ASSUME NEW w, gp0' = <<w>> PROVE Gp0(w)
  <2>1. <<w>> # <<>> /\ <<w>>[1] = w
    OBVIOUS
  <2> QED
    BY <1>1, <1>2, <2>1
<1> QED
  BY <1>1, <1>2 DEF GpuWaits, gpuVars, GpuKept
-----------------------------------------------------------------------------
(* ClearTable.                                                             *)
LEMMA ClearStep ==
    ASSUME Machine, NEW k \in 1 .. 4, AtClear(k), Do
    PROVE  DriverInv'
<1>0. /\ segment \in {0, 4, 5} /\ todo = Rest(ClearTable, k) /\ GpuIdle
      /\ stage = "build" /\ used = 0
  BY DEF Machine, AtClear
<1>1. IsRoutine(ClearTable) /\ k \in 1 .. Len(ClearTable) /\ Len(ClearTable) = 4
  BY RoutineSizes
<1>2. Calm /\ (k = 4 => Built({}))
  <2>1. ClearingLoop => xfer # D!Idle
    BY DEF ClearingLoop, D!Idle
  <2>2. xfer = D!Idle
    BY DEF Do, Store32
  <2> QED
    BY <2>1, <2>2 DEF AtClear
<1>3. Entry(Depths - 1) \in D!Cell /\ Depths \in Nat /\ Depths < 2^16
  <2>1. Depths - 1 \in 0 .. Depths - 1
    BY EntryType
  <2> QED
    BY <2>1, EntryType
<1>4. CASE k = 1
  <2>1. PICK a \in D!Cell : a = Entry(Depths - 1)
    BY <1>3
  <2>2. PICK hi : Pointer(a) = AsWord(hi, a)
    BY DEF Pointer
  <2>3. ClearTable[k] = Store(DmaAddress(6, 0), AsWord(hi, a))
    BY <1>4, <2>1, <2>2, ClearRoutine
  <2>4. Store32(At(DmaAddress(6, 0)), AsWord(hi, a)) /\ Advances(ClearTable, k)
    BY <1>0, <1>1, <2>3, DoesStore
  <2>5. Frame /\ todo' = Rest(ClearTable, k + 1)
    BY <2>4 DEF Advances
  <2>6. Machine' /\ Calm' /\ mChannels'[6].base = a /\ GpuKept
    BY <1>2, <2>4, <2>5, BaseStep
  <2>7. ClearTable' = ClearTable /\ GpuIdle'
    BY <1>0, <2>5, <2>6, SameRoutines DEF Frame, GpuKept, GpuIdle
  <2>8. AtClear(2)'
    BY <1>0, <1>4, <2>1, <2>5, <2>6, <2>7 DEF AtClear, Frame
  <2> QED
    BY <2>6, <2>8 DEF DriverInv, Places
<1>5. CASE k = 2
  <2>1. PICK n \in Nat : n = Depths /\ n < 2^16
    BY <1>3
  <2>2. ClearTable[k] = Store(DmaAddress(6, 4), AsWord(0, n))
    BY <1>5, <2>1, ClearRoutine
  <2>3. Store32(At(DmaAddress(6, 4)), AsWord(0, n)) /\ Advances(ClearTable, k)
    BY <1>0, <1>1, <2>2, DoesStore
  <2>4. Frame /\ todo' = Rest(ClearTable, k + 1)
    BY <2>3 DEF Advances
  <2>5. PICK count \in {0, 1} : count = 0 /\ n = count * 2^16 + n
    OBVIOUS
  <2>6. /\ Machine' /\ Calm' /\ mChannels'[6].block = [size |-> n, count |-> count]
        /\ mChannels'[6].base = mChannels[6].base /\ GpuKept
    BY <1>2, <2>1, <2>3, <2>4, <2>5, BlockStep
  <2>7. ClearTable' = ClearTable /\ GpuIdle'
    BY <1>0, <2>4, <2>6, SameRoutines DEF Frame, GpuKept, GpuIdle
  <2>8. mChannels'[6].base = Entry(Depths - 1)
    BY <1>5, <2>6 DEF AtClear
  <2>9. AtClear(3)'
    BY <1>0, <1>5, <2>1, <2>4, <2>5, <2>6, <2>7, <2>8 DEF AtClear, Frame
  <2> QED
    BY <2>6, <2>9 DEF DriverInv, Places
<1>6. CASE k = 3
  <2>1. PICK w : w = AsWord(\h11, \h000002)
    OBVIOUS
  <2>2. ClearTable[k] = Store(DmaAddress(6, 8), w)
    BY <1>6, <2>1, ClearRoutine
  <2>3. Store32(At(DmaAddress(6, 8)), w) /\ Advances(ClearTable, k)
    BY <1>0, <1>1, <2>2, DoesStore
  <2>4. Frame /\ todo' = Rest(ClearTable, k + 1)
    BY <2>3 DEF Advances
  <2>5. {24, 28, 1} \subseteq Controls(w) /\ {9, 10, 0} \cap Bits(w) = {}
    BY <2>1, ControlWords
  <2>6. {9, 10, 0} \cap Controls(w) = {} /\ ~D!UnknownSync(Bits(w))
    BY <2>5 DEF Controls, D!UnknownSync
  <2>7. PICK c : c = [mChannels[6] EXCEPT !.control = Controls(w)]
    OBVIOUS
  <2>8. mChannels[6] \in ChannelType
    BY DEF Machine, Channels, D!Port
  <2>9. /\ c.control = Controls(w) /\ c.base = Entry(Depths - 1)
        /\ c.block = [size |-> Depths, count |-> 0]
    BY <1>6, <2>7, <2>8 DEF AtClear, ChannelType
  <2>10. D!Active(c)
    BY <2>5, <2>9 DEF D!Active
  <2>11. /\ Machine' /\ QuietBut({6})' /\ xfer' = D!DoDma(6, c) /\ mChannels'[6] = c
         /\ GpuKept
    BY <1>2, <2>3, <2>4, <2>6, <2>7, <2>10, ControlStep
  <2>12. /\ xfer'.port = 6 /\ xfer'.loop = "block"
         /\ xfer'.addr = Entry(Depths - 1) /\ xfer'.remsz = Depths
    <3>1. 10 \notin c.control /\ D!TransferSize(c) = Depths
      BY <2>6, <2>9 DEF D!TransferSize, D!Request
    <3> QED
      BY <1>3, <2>9, <2>11, <3>1, DoDmaFields, CellMasks
  <2>13. ClearTable' = ClearTable /\ GpuIdle'
    BY <1>0, <2>4, <2>11, SameRoutines DEF Frame, GpuKept, GpuIdle
  <2>14. ClearingLoop'
    BY <1>3, <2>5, <2>6, <2>9, <2>11, <2>12 DEF ClearingLoop
  <2>15. AtClear(4)'
    BY <1>0, <1>6, <2>4, <2>9, <2>11, <2>13, <2>14 DEF AtClear, Frame
  <2> QED
    BY <2>11, <2>15 DEF DriverInv, Places
<1>7. CASE k = 4
  <2>1. PICK op : op = DmaDone(6)
    OBVIOUS
  <2>2. ClearTable[k] = op
    BY <1>7, <2>1, ClearRoutine
  <2>3. Answered(op) /\ op.kind = "wait"
    BY <1>0, <1>2, <2>1, DoneIsSeen
  <2>4. Untouched /\ GpuKept /\ Advances(ClearTable, k)
    BY <1>0, <1>1, <2>2, <2>3, DoesWait DEF Untouched
  <2>5. todo' = <<>> /\ Frame
    BY <1>1, <1>7, <2>4, AtTheEnd DEF Advances
  <2>6. Machine' /\ Calm' /\ GpuIdle'
    BY <1>0, <1>2, <2>4, <2>5, MachineUntouched, CalmUntouched DEF Untouched, GpuKept, GpuIdle
  <2>7. Built({})'
    BY <1>0, <1>2, <1>7, <2>4, <2>5, BuiltUntouched DEF Untouched, Frame
  <2>8. Building'
    BY <2>7 DEF Building
  <2> QED
    BY <1>0, <2>5, <2>6, <2>8 DEF DriverInv, Places, AtRest, Frame
<1> QED
  BY <1>4, <1>5, <1>6, <1>7

LEMMA EntriesDiffer ==
    ASSUME NEW d \in 0 .. Depths - 1, NEW e \in 0 .. Depths - 1
    PROVE  /\ Entry(d) = Entry(e) => d = e
           /\ Entry(d) < 2^24 /\ Entry(d) \in Nat
           /\ d > 0 => Entry(d) >= 4 /\ Entry(d) - 4 = Entry(d - 1)
BY EntryType, RamType DEF Entry

(* A cleared table is an empty list. *)
LEMMA ClearedIsBuilt ==
    ASSUME \A d \in 0 .. Depths - 1 : Cleared(d), used \in Nat
    PROVE  Built({})
<1>1. ASSUME NEW a \in Table PROVE ram[a].hi = 0 /\ Links(a, {})
  <2>1. PICK d \in 0 .. Depths - 1 : a = Entry(d)
    BY EntryType
  <2>2. Cleared(d)
    OBVIOUS
  <2>3. CASE d = 0
    <3>1. ram[a].lo \in Ends
      BY <2>1, <2>2, <2>3 DEF Cleared, Ends
    <3> QED
      BY <2>1, <2>2, <3>1 DEF Links, Cleared
  <2>4. CASE d # 0
    <3>1. d - 1 \in 0 .. Depths - 1
      BY <2>4, EntryType
    <3>2. Entry(d - 1) \in Table
      BY <3>1, EntryType
    <3>3. ram[a].lo = Entry(d - 1) /\ ram[a].hi = 0
      BY <2>1, <2>2, <2>4 DEF Cleared
    <3> QED
      BY <3>2, <3>3 DEF Links, Heads
  <2> QED
    BY <2>3, <2>4
<1> QED
  BY <1>1 DEF Built

LEMMA FinishEffect ==
    ASSUME Machine, D!Finish, QuietBut({xfer.port}), UNCHANGED <<segment, used>>, running' = running
    PROVE  Machine' /\ Calm'
<1>1. xfer.port \in D!Port /\ mChannels \in [D!Port -> ChannelType]
  BY DEF Machine, Loops, Channels
<1>2. PICK p \in D!Port : p = xfer.port
  BY <1>1
<1>3. PICK c : c = D!Done(mChannels[p])
  OBVIOUS
<1>4. mChannels' = [mChannels EXCEPT ![p] = c] /\ xfer' = D!Idle /\ ram' = ram
  BY <1>2, <1>3 DEF D!Finish, D!Channel
<1>5. c = [mChannels[p] EXCEPT !.control = mChannels[p].control \ {24, 28}]
  BY <1>3 DEF D!Done
<1>6. c \in ChannelType /\ 24 \notin c.control
  BY <1>1, <1>5 DEF ChannelType
<1>7. mChannels' \in Channels
  BY <1>1, <1>4, <1>6 DEF Channels
<1>8. QuietBut({})'
  BY <1>1, <1>2, <1>4, <1>6 DEF QuietBut
<1>9. Calm'
  BY <1>4, <1>8 DEF Calm, D!Idle
<1> QED
  BY <1>4, <1>7, <1>9, NoLoop DEF Machine

LEMMA ClearEntryStep ==
    ASSUME Machine, ClearingLoop, xfer.remsz > 0, D!BlockToOtc,
           UNCHANGED <<segment, used>>, running' = running
    PROVE  Machine' /\ ClearingLoop' /\ mChannels' = mChannels
<1>1. PICK d \in 0 .. Depths - 1 : d = xfer.remsz - 1
  BY EntryType DEF ClearingLoop
<1>2. xfer.addr = Entry(d) /\ d \in Nat /\ xfer.remsz = d + 1
  BY <1>1, EntryType DEF ClearingLoop
<1>3. PICK w : w = IF d = 0 THEN AsWord(0, 2^24 - 1) ELSE AsWord(0, Entry(d - 1))
  OBVIOUS
<1>4. d > 0 => Entry(d - 1) \in Nat /\ Entry(d - 1) < 2^24 /\ D!Back(Entry(d)) = Entry(d - 1)
  <2> SUFFICES ASSUME d > 0
               PROVE  Entry(d - 1) \in Nat /\ Entry(d - 1) < 2^24
                      /\ D!Back(Entry(d)) = Entry(d - 1)
    OBVIOUS
  <2>1. d - 1 \in 0 .. Depths - 1
    BY EntryType
  <2> QED
    BY <2>1, EntriesDiffer DEF D!Back
<1>5. D!TableEntry = w
  <2>1. xfer.remsz = 1 <=> d = 0
    BY <1>2
  <2>2. CASE d = 0
    BY <1>3, <2>1, <2>2, Zenon DEF D!TableEntry, D!EndMarker, AsWord
  <2>3. CASE d # 0
    <3>1. D!TableEntry = [hi |-> 0, lo |-> D!Back(xfer.addr)]
      BY <2>1, <2>3 DEF D!TableEntry
    <3>2. D!Back(xfer.addr) = Entry(d - 1)
      BY <1>2, <1>4, <2>3
    <3> QED
      BY <1>3, <2>3, <3>1, <3>2 DEF AsWord
  <2> QED
    BY <2>2, <2>3
<1>6. w \in D!Word
  <2>1. CASE d = 0
    <3>1. PICK lo \in Nat : lo = 2^24 - 1 /\ lo < 2^24
      OBVIOUS
    <3> QED
      BY <1>3, <2>1, <3>1, WordType
  <2>2. CASE d # 0
    BY <1>2, <1>3, <1>4, <2>2, WordType
  <2> QED
    BY <2>1, <2>2
<1>7. Entry(d) \in D!Cell /\ D!Mask(xfer.addr) = Entry(d)
  BY <1>2, EntryType, CellMasks
<1>8. /\ ram' = [ram EXCEPT ![Entry(d)] = w] /\ mChannels' = mChannels
      /\ xfer' = [xfer EXCEPT !.addr = D!Back(@), !.remsz = @ - 1]
  BY <1>5, <1>7 DEF D!BlockToOtc, D!NextBlock, ClearingLoop, D!Decrement, D!Channel
<1>9. xfer \in Loops /\ ram \in [D!Cell -> D!Word]
  BY DEF Machine
<1>10. /\ xfer'.loop = "block" /\ xfer'.port = 6 /\ xfer'.remsz = d
       /\ xfer'.addr = D!Back(Entry(d)) /\ xfer' \in Loops
  <2>1. D!Back(xfer.addr) \in Int
    BY <1>2, EntriesDiffer, RamType DEF D!Back
  <2>2. PICK a \in Int : a = D!Back(xfer.addr)
    BY <2>1
  <2>3. PICK y : y = xfer'
    OBVIOUS
  <2>4. y = [xfer EXCEPT !.addr = a, !.remsz = d]
    <3>1. xfer.remsz - 1 = d
      BY <1>2
    <3>2. y = [xfer EXCEPT !.addr = D!Back(xfer.addr), !.remsz = xfer.remsz - 1]
      BY <1>8, <2>3
    <3> QED
      BY <2>2, <3>1, <3>2
  <2>5. y.loop = xfer.loop /\ y.port = xfer.port
    BY <1>9, <2>4 DEF Loops
  <2>6. y.addr = a /\ y.remsz = d
    BY <1>9, <2>4 DEF Loops
  <2>7. y \in Loops
    <3>1. y = [loop |-> xfer.loop, port |-> xfer.port, addr |-> a, remsz |-> d,
               header |-> xfer.header]
      BY <1>9, <2>4 DEF Loops
    <3>2. /\ xfer.loop \in {"none", "block", "header", "packet"}
          /\ xfer.port \in D!Port /\ xfer.header \in D!Word /\ d \in Int
      BY <1>2, <1>9 DEF Loops
    <3> QED
      BY <2>2, <3>1, <3>2, LoopType
  <2> QED
    BY <1>2, <2>2, <2>3, <2>5, <2>6, <2>7 DEF ClearingLoop
<1>11. ram' \in [D!Cell -> D!Word] /\ ram'[Entry(d)] = w
  BY <1>6, <1>7, <1>8, <1>9
<1>12. Machine'
  BY <1>8, <1>10, <1>11 DEF Machine
<1>13. ASSUME NEW e \in d .. Depths - 1 PROVE Cleared(e)'
  <2>1. CASE e = d
    <3>1. ram'[Entry(e)].hi = 0 /\ ram'[Entry(e)].lo = IF d = 0 THEN 2^24 - 1 ELSE Entry(d - 1)
      BY <1>3, <1>11, <2>1 DEF AsWord
    <3> QED
      BY <2>1, <3>1 DEF Cleared
  <2>2. CASE e # d
    <3>1. e \in 0 .. Depths - 1 /\ e \in xfer.remsz .. Depths - 1
      BY <1>2, <2>2, EntryType
    <3>2. Entry(e) \in D!Cell /\ Entry(e) # Entry(d)
      BY <2>2, <3>1, EntryType, EntriesDiffer
    <3>3. ram'[Entry(e)] = ram[Entry(e)]
      BY <1>7, <1>8, <1>9, <3>2
    <3>4. Cleared(e)
      BY <3>1 DEF ClearingLoop
    <3> QED
      BY <3>3, <3>4 DEF Cleared
  <2> QED
    BY <2>1, <2>2
<1>14. ClearingLoop'
  <2>1. QuietBut({6})'
    BY <1>8 DEF ClearingLoop, QuietBut
  <2>2. d \in 0 .. Depths
    BY <1>2, EntryType
  <2>3. d > 0 => xfer'.addr = Entry(d - 1)
    BY <1>4, <1>10
  <2> QED
    BY <1>8, <1>10, <1>13, <2>1, <2>2, <2>3 DEF ClearingLoop
<1> QED
  BY <1>8, <1>12, <1>14

LEMMA ClearTransferStep ==
    ASSUME Machine, NEW k \in 1 .. 4, AtClear(k), DmaStep
    PROVE  DriverInv'
<1>1. Transfer /\ UNCHANGED <<todo, stage, used, segment>> /\ xfer # D!Idle
  BY DEF DmaStep, Transfer
<1>2. k = 4 /\ ClearingLoop
  BY <1>1 DEF AtClear, Calm
<1>3. ~D!FromRam(D!Channel) /\ xfer.loop = "block" /\ xfer.port = 6 /\ xfer.remsz \in Nat
  BY <1>2, EntryType DEF ClearingLoop, D!FromRam, D!Channel
<1>4. ~D!Unhandled
  BY <1>3 DEF D!Unhandled, D!Otc
<1>5. D!BlockToOtc \/ D!BlockDone
  <2>1. D!Move
    BY <1>1, <1>4, Moves
  <2> QED
    BY <1>3, <2>1 DEF D!Move, D!BlockToGpu, D!ListHeader, D!ListWord, D!ListNext, D!ListDone
<1>6. gp0' = <<>>
  BY <1>5 DEF D!BlockToOtc, D!BlockDone, D!Finish
<1>7. GpuKept /\ running' = running
  BY <1>1, <1>4, <1>6, Moves
<1>8. GpuIdle' /\ ClearTable' = ClearTable
  BY <1>1, <1>7, SameRoutines DEF GpuKept, GpuIdle, AtClear
<1>9. CASE D!BlockToOtc
  <2>1. Machine' /\ ClearingLoop' /\ mChannels' = mChannels
    BY <1>1, <1>2, <1>7, <1>9, ClearEntryStep DEF D!BlockToOtc
  <2>2. AtClear(4)'
    BY <1>1, <1>2, <1>8, <2>1 DEF AtClear
  <2> QED
    BY <2>1, <2>2 DEF DriverInv, Places
<1>10. CASE D!BlockDone
  <2>1. D!Finish /\ xfer.remsz = 0
    BY <1>10 DEF D!BlockDone
  <2>2. Machine' /\ Calm'
    BY <1>1, <1>2, <1>3, <1>7, <2>1, FinishEffect DEF ClearingLoop
  <2>3. \A d \in 0 .. Depths - 1 : Cleared(d)
    BY <1>2, <2>1 DEF ClearingLoop
  <2>4. Built({})
    BY <2>3, ClearedIsBuilt DEF Machine
  <2>5. Built({})'
    BY <1>1, <2>1, <2>4, BuiltUntouched DEF D!Finish, Machine
  <2>6. mChannels'[6].base = mChannels[6].base /\ mChannels'[6].block = mChannels[6].block
    <3>1. 6 \in D!Port /\ mChannels \in [D!Port -> ChannelType]
      BY DEF D!Port, Machine, Channels
    <3>2. PICK c : c = D!Done(mChannels[6])
      OBVIOUS
    <3>3. mChannels' = [mChannels EXCEPT ![6] = c]
      BY <1>3, <2>1, <3>2 DEF D!Finish, D!Channel
    <3>4. c.base = mChannels[6].base /\ c.block = mChannels[6].block
      BY <3>1, <3>2 DEF ChannelType, D!Done
    <3> QED
      BY <3>1, <3>3, <3>4
  <2>7. AtClear(4)'
    BY <1>1, <1>2, <1>8, <2>2, <2>5, <2>6 DEF AtClear
  <2> QED
    BY <2>2, <2>7 DEF DriverInv, Places
<1> QED
  BY <1>5, <1>9, <1>10
-----------------------------------------------------------------------------
(* AddPacket.                                                              *)
LEMMA HoldsKept ==
    ASSUME NEW m \in 1 .. Len(Slots), NEW packet \in Packets, Holds(Slots[m], packet),
           \A b \in SlotCells(m, packet) : ram'[b] = ram[b]
    PROVE  Holds(Slots[m], packet)'
<1>1. ram'[Slots[m]] = ram[Slots[m]]
  BY SlotType
<1>2. \A k \in 1 .. Len(Words[packet]) : ram'[Slots[m] + 4 * k] = ram[Slots[m] + 4 * k]
  BY SlotType
<1> QED
  BY <1>1, <1>2 DEF Holds

(* Storing the address of the packet in the entry puts it into the list. *)
LEMMA BuiltLinked ==
    ASSUME Machine, NEW F, Built(F), used \in 1 .. Len(Slots), used \notin F,
           NEW d \in 0 .. Depths - 1, NEW packet \in Packets, Holds(Slots[used], packet),
           ram[Slots[used]].lo = ram[Entry(d)].lo,
           ram' = [ram EXCEPT ![Entry(d)] = AsWord(0, Slots[used])], used' = used
    PROVE  Built(F \cup {used})'
<1>0. PICK H : H = F \cup {used}
  OBVIOUS
<1>1. F \subseteq 1 .. Len(Slots) /\ H \subseteq 1 .. Len(Slots) /\ H \subseteq 1 .. used'
  BY <1>0, LayoutAssumption DEF Built, Machine
<1>2. Entry(d) \in Table /\ Entry(d) \in D!Cell
  BY EntryType
<1>3. ram'[Entry(d)] = AsWord(0, Slots[used]) /\ \A b \in D!Cell : b # Entry(d) => ram'[b] = ram[b]
  BY <1>2 DEF Machine
<1>4. ASSUME NEW m \in 1 .. Len(Slots), NEW q \in Packets, NEW b \in SlotCells(m, q)
      PROVE  ram'[b] = ram[b]
  <2>1. b \in D!Cell /\ b \notin Table
    BY SlotType
  <2> QED
    BY <1>2, <1>3, <2>1
<1>5. Heads(F) \cup Ends \subseteq Heads(H) \cup Ends /\ Slots[used] \in Heads(H)
  BY <1>0 DEF Heads
<1>6. ASSUME NEW b \in Table PROVE ram'[b].hi = 0 /\ ram'[b].lo \in Heads(H) \cup Ends
  <2>1. CASE b = Entry(d)
    BY <1>3, <1>5, <2>1 DEF AsWord
  <2>2. CASE b # Entry(d)
    <3>1. ram'[b] = ram[b]
      BY <1>3, <2>2, EntryType
    <3> QED
      BY <1>5, <3>1 DEF Built, Links
  <2> QED
    BY <2>1, <2>2
<1>7. ASSUME NEW m \in H
      PROVE  /\ ram'[Slots[m]].lo \in Heads(H) \cup Ends
             /\ \E q \in Packets : Holds(Slots[m], q)'
  <2>1. ram[Slots[m]].lo \in Heads(F) \cup Ends /\ \E q \in Packets : Holds(Slots[m], q)
    BY <1>0, <1>2 DEF Built, Links
  <2>2. PICK q \in Packets : Holds(Slots[m], q)
    BY <2>1
  <2>3. Holds(Slots[m], q)'
    BY <1>1, <1>4, <2>2, HoldsKept
  <2>4. ram'[Slots[m]] = ram[Slots[m]]
    BY <1>1, <1>4, <2>2, SlotType
  <2> QED
    BY <1>5, <2>1, <2>3, <2>4
<1>8. Built(H)'
  <2>1. \A b \in Table : ram'[b].hi = 0 /\ Links(b, H)'
    BY <1>6 DEF Links, Heads, Table, Ends
  <2>2. \A m \in H : Links(Slots[m], H)' /\ \E q \in Packets : Holds(Slots[m], q)'
    BY <1>7 DEF Links, Heads, Table, Ends
  <2> QED
    BY <1>1, <2>1, <2>2 DEF Built, Table
<1> QED
  BY <1>0, <1>8

LEMMA PacketStep ==
    ASSUME Machine, NEW d \in 0 .. Depths - 1, NEW packet \in Packets,
           NEW F \in SUBSET (1 .. used), NEW k \in 1 .. Len(Words[packet]) + 2,
           AtPacket(d, packet, F, k), Do
    PROVE  DriverInv'
<1> DEFINE n == Len(Words[packet])
           slot == Slots[used]
           r == AddPacket(Slots[used], d, packet)
<1>1. /\ IsRoutine(r) /\ Len(r) = n + 2
      /\ \A j \in 1 .. n : r[j] = Store(slot + 4 + 4 * (j - 1), Words[packet][j])
      /\ r[n + 1] = Link(slot, n, Entry(d))
      /\ r[n + 2] = Store(Entry(d), AsWord(0, slot))
  BY PacketRoutine
<1>2. /\ segment \in {0, 4, 5} /\ used \in 1 .. Len(Slots) /\ Len(Slots) \in Nat
      /\ ram \in [D!Cell -> D!Word]
  BY LayoutAssumption DEF Machine, AtPacket
<1>3. /\ todo = Rest(r, k) /\ stage = "build" /\ used > 0 /\ Calm /\ GpuIdle
      /\ Built(F) /\ used \notin F
  BY DEF AtPacket
<1>4. /\ \A j \in 1 .. n : j < k => ram[slot + 4 * j] = Words[packet][j]
      /\ k = n + 2 => ram[slot] = AsWord(n, ram[Entry(d)].lo)
  BY DEF AtPacket
<1>5. n \in Nat /\ n <= 255 /\ Words[packet] \in Seq(D!Word)
  BY WordsType
<1>6. slot \in Nat /\ slot \in D!Cell /\ slot \in SlotCells(used, packet)
  BY <1>2, SlotType, RamType
<1>7. Entry(d) \in D!Cell /\ Entry(d) \in Table
  BY EntryType
<1>8. ASSUME NEW a \in SlotCells(used, packet)
      PROVE  /\ a \in D!Cell /\ a \notin Table
             /\ \A m \in F, q \in Packets : a \notin SlotCells(m, q)
  <2>1. F \subseteq 1 .. Len(Slots)
    BY <1>2 DEF Machine
  <2> QED
    BY <1>2, <1>3, <2>1, SlotType
<1> HIDE DEF n, slot, r
<1>9. k \in 1 .. Len(r) /\ k \in 1 .. n + 2
  BY <1>1 DEF n
<1>10. CASE k <= n
  <2>1. PICK a : a = slot + 4 * k /\ a = slot + 4 + 4 * (k - 1)
    BY <1>6, <1>9
  <2>2. PICK w : w = Words[packet][k]
    OBVIOUS
  <2>3. w \in D!Word /\ k \in 1 .. n
    BY <1>5, <1>9, <1>10, <2>2 DEF n
  <2>4. a \in SlotCells(used, packet)
    BY <1>2, <2>1, <2>3, SlotType DEF n, slot
  <2>5. r[k] = Store(a, w)
    BY <1>1, <2>1, <2>2, <2>3
  <2>6. Store32(At(a), w) /\ Advances(r, k)
    BY <1>1, <1>3, <1>9, <2>5, DoesStore
  <2>7. ram' = [ram EXCEPT ![a] = w] /\ UNCHANGED <<mChannels, xfer, running>> /\ GpuKept
    BY <1>2, <1>8, <2>4, <2>6, StoreRamEffect
  <2>8. Frame /\ todo' = Rest(r, k + 1)
    BY <2>6 DEF Advances
  <2>9. Machine' /\ Calm' /\ GpuIdle'
    BY <1>3, <1>8, <2>3, <2>4, <2>7, <2>8, MachineStored, CalmUntouched DEF GpuKept, GpuIdle
  <2>10. Built(F)'
    BY <1>3, <1>8, <2>4, <2>7, <2>8, BuiltStored DEF Frame
  <2>11. ASSUME NEW j \in 1 .. n, j < k + 1 PROVE ram'[slot + 4 * j] = Words[packet][j]
    <3>1. slot + 4 * j \in D!Cell
      BY <1>2, <1>8, SlotType DEF n, slot
    <3>2. CASE j = k
      BY <1>2, <2>1, <2>2, <2>7, <3>1, <3>2
    <3>3. CASE j # k
      <4>1. j < k /\ slot + 4 * j # a
        BY <1>5, <1>6, <1>9, <2>1, <2>11, <3>3
      <4> QED
        BY <1>2, <1>4, <2>7, <3>1, <4>1
    <3> QED
      BY <3>2, <3>3
  <2>12. k + 1 \in 1 .. n + 2 /\ k + 1 # n + 2
    BY <1>5, <1>9, <1>10
  <2>13. AtPacket(d, packet, F, k + 1)'
    <3>1. slot' = slot /\ r' = r /\ used' = used /\ stage' = stage
      BY <2>8 DEF Frame, slot, r
    <3> QED
      BY <1>3, <2>8, <2>9, <2>10, <2>11, <2>12, <3>1 DEF AtPacket, n, slot, r
  <2>14. F \in SUBSET (1 .. used')
    BY <2>8 DEF Frame
  <2> QED
    BY <2>9, <2>12, <2>13, <2>14 DEF DriverInv, Places, n
<1>11. CASE k = n + 1
  <2>1. PICK w : w = AsWord(n, ram[Entry(d)].lo)
    OBVIOUS
  <2>2. w \in D!Word
    <3>1. ram[Entry(d)].lo \in Nat /\ ram[Entry(d)].lo < 2^24
      BY <1>2, <1>7, WordFields
    <3>2. n \in 0 .. 255
      BY <1>5
    <3> QED
      BY <2>1, <3>1, <3>2, WordType
  <2>3. Load32(At(Entry(d))) = ram[Entry(d)]
    BY <1>2, <1>7, RamAnswers DEF Load32
  <2>4. Store32(At(slot), w) /\ Advances(r, k)
    <3>1. r[k] = Link(slot, n, Entry(d))
      BY <1>1, <1>11
    <3> QED
      BY <1>1, <1>3, <1>9, <2>1, <2>3, <3>1, DoesLink
  <2>5. ram' = [ram EXCEPT ![slot] = w] /\ UNCHANGED <<mChannels, xfer, running>> /\ GpuKept
    BY <1>2, <1>6, <2>4, StoreRamEffect
  <2>6. Frame /\ todo' = Rest(r, k + 1)
    BY <2>4 DEF Advances
  <2>7. Machine' /\ Calm' /\ GpuIdle'
    BY <1>3, <1>6, <2>2, <2>5, <2>6, MachineStored, CalmUntouched DEF GpuKept, GpuIdle
  <2>8. Built(F)'
    BY <1>3, <1>6, <1>8, <2>5, <2>6, BuiltStored DEF Frame
  <2>9. ASSUME NEW j \in 1 .. n PROVE ram'[slot + 4 * j] = Words[packet][j]
    <3>1. slot + 4 * j \in D!Cell
      BY <1>2, <1>8, SlotType DEF n, slot
    <3>2. slot + 4 * j # slot /\ j < k
      BY <1>5, <1>6, <1>11
    <3> QED
      BY <1>2, <1>4, <2>5, <3>1, <3>2
  <2>10. ram'[slot] = AsWord(n, ram'[Entry(d)].lo)
    <3>1. slot # Entry(d)
      BY <1>6, <1>7, <1>8
    <3> QED
      BY <1>2, <1>6, <1>7, <2>1, <2>5, <3>1
  <2>11. k + 1 \in 1 .. n + 2 /\ k + 1 = n + 2
    BY <1>5, <1>11
  <2>12. AtPacket(d, packet, F, k + 1)'
    <3>1. slot' = slot /\ r' = r /\ used' = used /\ stage' = stage
      BY <2>6 DEF Frame, slot, r
    <3> QED
      BY <1>3, <2>6, <2>7, <2>8, <2>9, <2>10, <3>1 DEF AtPacket, n, slot, r
  <2>13. F \in SUBSET (1 .. used')
    BY <2>6 DEF Frame
  <2> QED
    BY <2>7, <2>11, <2>12, <2>13 DEF DriverInv, Places, n
<1>12. CASE k = n + 2
  <2>1. PICK w : w = AsWord(0, slot)
    OBVIOUS
  <2>2. w \in D!Word
    <3>1. slot \in Nat /\ slot < 2^24
      BY <1>6, RamType
    <3> QED
      BY <2>1, <3>1, WordType
  <2>3. Store32(At(Entry(d)), w) /\ Advances(r, k)
    <3>1. r[k] = Store(Entry(d), w)
      BY <1>1, <1>12, <2>1
    <3> QED
      BY <1>1, <1>3, <1>9, <3>1, DoesStore
  <2>4. ram' = [ram EXCEPT ![Entry(d)] = w] /\ UNCHANGED <<mChannels, xfer, running>> /\ GpuKept
    BY <1>2, <1>7, <2>3, StoreRamEffect
  <2>5. Frame /\ todo' = <<>>
    BY <1>1, <1>12, <2>3, AtTheEnd DEF Advances
  <2>6. Machine' /\ Calm' /\ GpuIdle'
    BY <1>3, <1>7, <2>2, <2>4, <2>5, MachineStored, CalmUntouched DEF GpuKept, GpuIdle
  <2>7. Holds(slot, packet) /\ ram[slot].lo = ram[Entry(d)].lo
    <3>1. \A j \in 1 .. n : ram[slot + 4 * j] = Words[packet][j]
      BY <1>4, <1>5, <1>12
    <3> QED
      BY <1>4, <1>12, <3>1 DEF Holds, AsWord, n
  <2>8. Built(F \cup {used})'
    BY <1>2, <1>3, <2>1, <2>4, <2>5, <2>7, BuiltLinked DEF Frame, slot
  <2>9. F \cup {used} \in SUBSET (1 .. used')
    BY <1>2, <2>5 DEF Frame
  <2>10. Building'
    BY <2>8, <2>9 DEF Building
  <2> QED
    BY <1>3, <2>5, <2>6, <2>10 DEF DriverInv, Places, AtRest, Frame
<1> QED
  BY <1>5, <1>9, <1>10, <1>11, <1>12

LEMMA PacketTransferStep ==
    ASSUME NEW d, NEW packet, NEW F, NEW k, AtPacket(d, packet, F, k), DmaStep
    PROVE  FALSE
BY DEF AtPacket, Calm, DmaStep, Transfer
-----------------------------------------------------------------------------
(* LoadImage.                                                              *)
LEMMA BuildingKept ==
    ASSUME Machine, Building, ram' = ram, used' = used
    PROVE  Building'
<1>1. PICK F \in SUBSET (1 .. used) : Built(F)
  BY DEF Building
<1>2. used \in Nat /\ used <= used'
  BY DEF Machine
<1>3. Built(F)' /\ F \in SUBSET (1 .. used')
  BY <1>1, <1>2, BuiltUntouched
<1> QED
  BY <1>3 DEF Building

(* The three words of the command, each to GP0. *)
LEMMA ImageCommandStep ==
    ASSUME segment \in {0, 4, 5}, NEW n \in Nat \ {0}, NEW k \in 1 .. 3, ImagePort(n, k),
           NEW w, Store32(At(GP0), w),
           k = 1 => w = AsWord(\ha0, 0),
           k = 3 => n = G!ImageWords(AsCommand(w))
    PROVE  UNCHANGED <<mChannels, ram, xfer, running>> /\ ImagePort(n, k + 1)'
<1> DEFINE c == AsCommand(w)
<1>1. PICK a0 : a0 = \ha0
  OBVIOUS
<1>2. G!Length(a0) = 3 /\ a0 \in G!MethodOps /\ a0 # \he1
  BY <1>1, LengthOfSetting DEF G!MethodOps
<1>3. k = 1 => c.op = a0
  BY <1>1 DEF AsCommand, AsWord
<1>4. /\ k = 1 => mGp0WordsRemaining = 0
      /\ k \in {2, 3} => mGp0CommandMethod = a0 /\ mGp0WordsRemaining = 4 - k
      /\ mGp0Mode = "Command"
  BY <1>1 DEF ImagePort, GpuIdle
<1>5. k = 3 => n = G!ImageWords(c)
  OBVIOUS
<1> HIDE DEF c
<1>6. G!Method(c) = a0 /\ G!Left(c) = 3 - k
  <2>1. CASE k = 1
    BY <1>2, <1>3, <1>4, <2>1 DEF G!Method, G!Left, G!Fresh
  <2>2. CASE k \in {2, 3}
    BY <1>4, <2>2 DEF G!Method, G!Left, G!Fresh
  <2> QED
    BY <2>1, <2>2
<1>7. ~G!Gp0Panics(c)
  <2>1. G!Known(c)
    BY <1>2, <1>3, <1>4 DEF G!Known, G!Fresh
  <2> QED
    BY <1>2, <1>6, <2>1 DEF G!Gp0Panics, G!TextureDepthPanics
<1>8. G!Gp0Step(c) /\ UNCHANGED <<mChannels, ram, xfer, running>>
  BY <1>7, StoreGp0Effect DEF c
<1>9. CASE k \in {1, 2}
  <2>1. G!Left(c) \in Nat \ {0}
    BY <1>6, <1>9
  <2>2. mGp0WordsRemaining' = 3 - k /\ mGp0CommandMethod' = a0 /\ mGp0Mode' = "Command"
    BY <1>4, <1>6, <1>8, <2>1, Gp0Collect
  <2>3. k + 1 \in {2, 3} /\ 4 - (k + 1) = 3 - k
    BY <1>9
  <2> QED
    BY <1>1, <1>8, <2>2, <2>3 DEF ImagePort
<1>10. CASE k = 3
  <2>1. G!Left(c) = 0
    BY <1>6, <1>10
  <2>2. mGp0WordsRemaining' = n /\ mGp0Mode' = "ImageLoad"
    BY <1>1, <1>4, <1>5, <1>6, <1>8, <1>10, <2>1, Gp0Run
  <2>3. k + 1 = 4
    BY <1>10
  <2> QED
    BY <1>8, <2>2, <2>3 DEF ImagePort
<1> QED
  BY <1>9, <1>10

LEMMA ImagePortKept ==
    ASSUME NEW n \in Nat, NEW k \in 4 .. n + 6, ImagePort(n, k), GpuKept
    PROVE  ImagePort(n, k + 1)'
BY DEF ImagePort, GpuKept

LEMMA PixelStep ==
    ASSUME Machine, Calm, Building, NEW image \in Images, NEW j \in 1 .. Len(image.pixels),
           Store32(At(ImageBuffer + 4 * (j - 1)), image.pixels[j]), Frame
    PROVE  Machine' /\ Calm' /\ Building' /\ GpuKept
<1>1. PICK a : a = ImageBuffer + 4 * (j - 1)
  OBVIOUS
<1>2. PICK w : w = image.pixels[j]
  OBVIOUS
<1>3. a \in PixelCells(image) /\ a \in D!Cell /\ a \notin Table /\ w \in D!Word
  BY <1>1, <1>2, PixelType
<1>4. segment \in {0, 4, 5}
  BY DEF Machine
<1>5. Store32(At(a), w)
  BY <1>1, <1>2
<1>6. ram' = [ram EXCEPT ![a] = w] /\ UNCHANGED <<mChannels, xfer, running>> /\ GpuKept
  BY <1>3, <1>4, <1>5, StoreRamEffect
<1>7. Machine' /\ Calm'
  BY <1>3, <1>6, MachineStored, CalmUntouched
<1>8. PICK F \in SUBSET (1 .. used) : Built(F)
  BY DEF Building
<1>9. \A m \in F, packet \in Packets : a \notin SlotCells(m, packet)
  <2>1. F \subseteq 1 .. Len(Slots)
    BY LayoutAssumption DEF Machine
  <2> QED
    BY <1>3, <2>1, SlotType
<1>10. used' = used
  BY DEF Frame
<1>11. Built(F)' /\ F \in SUBSET (1 .. used')
  BY <1>3, <1>6, <1>8, <1>9, <1>10, BuiltStored
<1> QED
  BY <1>6, <1>7, <1>11 DEF Building

LEMMA ImagePlaces ==
    ASSUME NEW n \in Nat, NEW k \in 1 .. n + 8
    PROVE  \/ k \in 1 .. 3 \/ k \in 4 .. n + 3 \/ k = n + 4 \/ k = n + 5 \/ k = n + 6
           \/ k = n + 7 \/ k = n + 8
OBVIOUS

LEMMA ImageStep ==
    ASSUME Machine, NEW image \in Images, NEW k \in 1 .. Len(image.pixels) + 8,
           AtImage(image, k), Do
    PROVE  DriverInv'
<1> DEFINE n == Len(image.pixels)
           r == LoadImage(image)
<1>1. /\ IsRoutine(r) /\ Len(r) = n + 8
      /\ r[1] = Store(GP0, AsWord(\ha0, 0))
      /\ r[2] = Store(GP0, Zero)
      /\ r[3] = Store(GP0, image.size)
      /\ \A j \in 1 .. n : r[3 + j] = Store(ImageBuffer + 4 * (j - 1), image.pixels[j])
  <2>1. IsRoutine(r) /\ Len(r) = n + 8
    BY ImageRoutine
  <2>2. r[1] = Store(GP0, AsWord(\ha0, 0)) /\ r[2] = Store(GP0, Zero) /\ r[3] = Store(GP0, image.size)
    BY ImageRoutine
  <2>3. \A j \in 1 .. n : r[3 + j] = Store(ImageBuffer + 4 * (j - 1), image.pixels[j])
    BY ImageRoutine, Zenon
  <2> QED
    BY <2>1, <2>2, <2>3
<1>2. /\ r[n + 4] = GpuReady
      /\ r[n + 5] = Store(DmaAddress(2, 0), Pointer(ImageBuffer))
      /\ r[n + 6] = Store(DmaAddress(2, 4), AsWord(0, 2^16 + n))
      /\ r[n + 7] = Store(DmaAddress(2, 8), AsWord(\h01, \h000201))
      /\ r[n + 8] = DmaDone(2)
  BY ImageRoutine
<1>3. segment \in {0, 4, 5} /\ used \in Nat
  BY DEF Machine
<1>4. /\ todo = Rest(r, k) /\ stage = "build" /\ Building /\ ImagePort(n, k)
      /\ k = n + 7 => mChannels[2].block = [size |-> n, count |-> 1]
  BY DEF AtImage
<1>5. Calm /\ (k = n + 8 => GpuIdle)
  <2>1. UploadLoop => xfer # D!Idle
    BY DEF UploadLoop, D!Idle
  <2>2. xfer = D!Idle
    BY DEF Do, Store32
  <2> QED
    BY <2>1, <2>2 DEF AtImage
<1>6. n \in Nat \ {0} /\ n < 2^16 /\ n = G!ImageWords(AsCommand(image.size))
  BY PixelType
<1>7. (LoadImage(image)' = r) = TRUE \/ segment' # segment
  BY SameRoutines
<1> HIDE DEF n, r
<1>8. k \in 1 .. Len(r) /\ k \in 1 .. n + 8
  BY <1>1 DEF n
(* The next place is reached when the devices are ready for it. *)
<1>9. ASSUME Advances(r, k), k + 1 <= n + 8, Machine', Building', ImagePort(n, k + 1)',
             k + 1 = n + 7 => mChannels'[2].block = [size |-> n, count |-> 1],
             \/ Calm' /\ (k + 1 = n + 8 => GpuIdle')
             \/ k + 1 = n + 8 /\ UploadLoop'
      PROVE  DriverInv'
  <2>1. todo' = Rest(r, k + 1) /\ segment' = segment /\ stage' = "build"
    BY <1>4, <1>9 DEF Advances, Frame
  <2>2. LoadImage(image)' = r
    BY <1>7, <2>1
  <2>3. AtImage(image, k + 1)'
    BY <1>9, <2>1, <2>2 DEF AtImage, n
  <2>4. k + 1 \in 1 .. Len(image.pixels) + 8
    BY <1>6, <1>8, <1>9 DEF n
  <2> QED
    BY <1>9, <2>3, <2>4 DEF DriverInv, Places
<1>10. CASE k \in 1 .. 3
  <2>1. PICK w : w = CASE k = 1 -> AsWord(\ha0, 0) [] k = 2 -> Zero [] k = 3 -> image.size
    OBVIOUS
  <2>2. r[k] = Store(GP0, w)
    <3>1. CASE k = 1
      BY <1>1, <2>1, <3>1
    <3>2. CASE k = 2
      BY <1>1, <2>1, <3>2
    <3>3. CASE k = 3
      BY <1>1, <2>1, <3>3
    <3> QED
      BY <1>10, <3>1, <3>2, <3>3
  <2>3. Store32(At(GP0), w) /\ Advances(r, k)
    BY <1>1, <1>4, <1>8, <2>2, DoesStore
  <2>4. (k = 1 => w = AsWord(\ha0, 0)) /\ (k = 3 => n = G!ImageWords(AsCommand(w)))
    BY <1>6, <2>1
  <2>5. UNCHANGED <<mChannels, ram, xfer, running>> /\ ImagePort(n, k + 1)'
    BY <1>3, <1>4, <1>6, <1>10, <2>3, <2>4, ImageCommandStep
  <2>6. Machine' /\ Calm' /\ Building'
    BY <1>4, <1>5, <2>3, <2>5, MachineUntouched, CalmUntouched, BuildingKept
       DEF Untouched, Advances, Frame
  <2>7. k + 1 <= n + 8 /\ k + 1 # n + 7 /\ k + 1 # n + 8
    BY <1>6, <1>10
  <2> QED
    BY <1>9, <2>3, <2>5, <2>6, <2>7
<1>11. CASE k \in 4 .. n + 3
  <2>1. PICK j \in 1 .. n : k = 3 + j
    <3>1. k - 3 \in 1 .. n /\ k = 3 + (k - 3)
      BY <1>6, <1>11
    <3> QED
      BY <3>1
  <2>2. PICK a : a = ImageBuffer + 4 * (j - 1)
    OBVIOUS
  <2>3. PICK w : w = image.pixels[j]
    OBVIOUS
  <2>4. r[k] = Store(a, w)
    BY <1>1, <2>1, <2>2, <2>3
  <2>5. Store32(At(a), w) /\ Advances(r, k) /\ Frame
    BY <1>1, <1>4, <1>8, <2>4, DoesStore DEF Advances
  <2>6. Machine' /\ Calm' /\ Building' /\ GpuKept
    BY <1>4, <1>5, <2>1, <2>2, <2>3, <2>5, PixelStep DEF n
  <2>7. k \in 4 .. n + 6 /\ k + 1 <= n + 8 /\ k + 1 # n + 7 /\ k + 1 # n + 8
    BY <1>6, <1>11
  <2>8. ImagePort(n, k + 1)'
    BY <1>4, <1>6, <2>6, <2>7, ImagePortKept
  <2> QED
    BY <1>9, <2>5, <2>6, <2>7, <2>8
<1>12. CASE k = n + 4
  <2>1. PICK op : op = GpuReady
    OBVIOUS
  <2>2. r[k] = op /\ Answered(op) /\ op.kind = "wait"
    BY <1>2, <1>3, <1>12, <2>1, GpuIsReady
  <2>3. Untouched /\ GpuKept /\ Advances(r, k) /\ Frame
    BY <1>1, <1>4, <1>8, <2>2, DoesWait DEF Untouched, Advances
  <2>4. Machine' /\ Calm' /\ Building'
    BY <1>4, <1>5, <2>3, MachineUntouched, CalmUntouched, BuildingKept DEF Untouched, Frame
  <2>5. k \in 4 .. n + 6 /\ k + 1 <= n + 8 /\ k + 1 # n + 7 /\ k + 1 # n + 8
    BY <1>6, <1>12
  <2>6. ImagePort(n, k + 1)'
    BY <1>4, <1>6, <2>3, <2>5, ImagePortKept
  <2> QED
    BY <1>9, <2>3, <2>4, <2>5, <2>6
<1>13. CASE k = n + 5
  <2>1. PICK a \in D!Cell : a = ImageBuffer
    <3>1. 1 \in 1 .. n /\ ImageBuffer + 4 * (1 - 1) = ImageBuffer
      BY <1>6, PixelType
    <3>2. ImageBuffer + 4 * (1 - 1) \in PixelCells(image)
      BY <3>1, PixelType DEF n
    <3> QED
      BY <3>1, <3>2, PixelType
  <2>2. PICK hi : Pointer(a) = AsWord(hi, a)
    BY DEF Pointer
  <2>3. r[k] = Store(DmaAddress(2, 0), AsWord(hi, a))
    BY <1>2, <1>13, <2>1, <2>2
  <2>4. Store32(At(DmaAddress(2, 0)), AsWord(hi, a)) /\ Advances(r, k) /\ Frame
    BY <1>1, <1>4, <1>8, <2>3, DoesStore DEF Advances
  <2>5. Machine' /\ Calm' /\ ram' = ram /\ GpuKept
    BY <1>5, <2>4, BaseStep
  <2>6. Building'
    BY <1>4, <2>4, <2>5, BuildingKept DEF Frame
  <2>7. k \in 4 .. n + 6 /\ k + 1 <= n + 8 /\ k + 1 # n + 7 /\ k + 1 # n + 8
    BY <1>6, <1>13
  <2>8. ImagePort(n, k + 1)'
    BY <1>4, <1>6, <2>5, <2>7, ImagePortKept
  <2> QED
    BY <1>9, <2>4, <2>5, <2>6, <2>7, <2>8
<1>14. CASE k = n + 6
  <2>1. PICK lo : lo = 2^16 + n
    OBVIOUS
  <2>2. r[k] = Store(DmaAddress(2, 4), AsWord(0, lo))
    BY <1>2, <1>14, <2>1
  <2>3. Store32(At(DmaAddress(2, 4)), AsWord(0, lo)) /\ Advances(r, k) /\ Frame
    BY <1>1, <1>4, <1>8, <2>2, DoesStore DEF Advances
  <2>4. PICK count \in {0, 1} : count = 1 /\ lo = count * 2^16 + n
    BY <1>6, <2>1
  <2>5. /\ Machine' /\ Calm' /\ mChannels'[2].block = [size |-> n, count |-> count]
        /\ ram' = ram /\ GpuKept
    BY <1>5, <1>6, <2>3, <2>4, BlockStep
  <2>6. Building'
    BY <1>4, <2>3, <2>5, BuildingKept DEF Frame
  <2>7. k \in 4 .. n + 6 /\ k + 1 <= n + 8 /\ k + 1 # n + 8
    BY <1>6, <1>14
  <2>8. ImagePort(n, k + 1)'
    BY <1>4, <1>6, <2>5, <2>7, ImagePortKept
  <2> QED
    BY <1>9, <2>3, <2>4, <2>5, <2>6, <2>7, <2>8
<1>15. CASE k = n + 7
  <2>1. PICK w : w = AsWord(\h01, \h000201)
    OBVIOUS
  <2>2. r[k] = Store(DmaAddress(2, 8), w)
    BY <1>2, <1>15, <2>1
  <2>3. Store32(At(DmaAddress(2, 8)), w) /\ Advances(r, k) /\ Frame
    BY <1>1, <1>4, <1>8, <2>2, DoesStore DEF Advances
  <2>4. {24, 9, 0} \subseteq Controls(w) /\ 10 \notin Bits(w)
    BY <2>1, ControlWords
  <2>5. 10 \notin Controls(w) /\ ~D!UnknownSync(Bits(w))
    BY <2>4 DEF Controls, D!UnknownSync
  <2>6. PICK c : c = [mChannels[2] EXCEPT !.control = Controls(w)]
    OBVIOUS
  <2>7. mChannels[2] \in ChannelType
    BY DEF Machine, Channels, D!Port
  <2>8. c.control = Controls(w) /\ c.block = [size |-> n, count |-> 1]
    BY <1>4, <1>15, <2>6, <2>7 DEF ChannelType
  <2>9. D!Active(c)
    BY <2>4, <2>8 DEF D!Active, D!Request
  <2>10. /\ Machine' /\ QuietBut({2})' /\ xfer' = D!DoDma(2, c) /\ mChannels'[2] = c
         /\ ram' = ram /\ GpuKept
    BY <1>5, <2>3, <2>5, <2>6, <2>9, ControlStep
  <2>11. xfer'.port = 2 /\ xfer'.loop = "block" /\ xfer'.remsz = n
    <3>1. 10 \notin c.control /\ D!TransferSize(c) = 1 * n
      BY <2>4, <2>5, <2>8 DEF D!TransferSize, D!Request
    <3> QED
      BY <1>6, <2>10, <3>1, DoDmaFields
  <2>12. mGp0Mode' = "ImageLoad" /\ mGp0WordsRemaining' = n
    BY <1>4, <1>6, <1>15, <2>10 DEF ImagePort, GpuKept
  <2>13. UploadLoop'
    BY <1>6, <2>4, <2>8, <2>10, <2>11, <2>12 DEF UploadLoop
  <2>14. Building'
    BY <1>4, <2>3, <2>10, BuildingKept DEF Frame
  <2>15. k + 1 = n + 8 /\ k + 1 <= n + 8 /\ k + 1 # n + 7 /\ ImagePort(n, k + 1)'
    BY <1>6, <1>15 DEF ImagePort
  <2> QED
    BY <1>9, <2>3, <2>10, <2>13, <2>14, <2>15
<1>16. CASE k = n + 8
  <2>1. PICK op : op = DmaDone(2)
    OBVIOUS
  <2>2. r[k] = op /\ Answered(op) /\ op.kind = "wait"
    BY <1>2, <1>3, <1>5, <1>16, <2>1, DoneIsSeen
  <2>3. Untouched /\ GpuKept /\ Advances(r, k) /\ Frame
    BY <1>1, <1>4, <1>8, <2>2, DoesWait DEF Untouched, Advances
  <2>4. Machine' /\ Calm' /\ Building'
    BY <1>4, <1>5, <2>3, MachineUntouched, CalmUntouched, BuildingKept DEF Untouched, Frame
  <2>5. todo' = <<>>
    BY <1>1, <1>16, <2>3, AtTheEnd DEF Advances
  <2>6. GpuIdle' /\ stage' = "build"
    BY <1>4, <1>5, <1>16, <2>3 DEF GpuKept, GpuIdle, Frame
  <2> QED
    BY <2>4, <2>5, <2>6 DEF DriverInv, Places, AtRest
<1>17. \/ k \in 1 .. 3 \/ k \in 4 .. n + 3 \/ k = n + 4 \/ k = n + 5 \/ k = n + 6
       \/ k = n + 7 \/ k = n + 8
  BY <1>6, <1>8, ImagePlaces
<1> QED
  BY <1>10, <1>11, <1>12, <1>13, <1>14, <1>15, <1>16, <1>17

(* A pixel leaves RAM and is counted by GP0 in one step. *)
LEMMA PixelSentStep ==
    ASSUME Machine, UploadLoop, xfer.remsz > 0, D!BlockToGpu, Gp0(ram[D!Mask(xfer.addr)]),
           UNCHANGED <<segment, used>>
    PROVE  Machine' /\ UploadLoop' /\ UNCHANGED <<mChannels, ram>>
<1>1. PICK w : w = AsCommand(ram[D!Mask(xfer.addr)])
  OBVIOUS
<1>2. /\ xfer.loop = "block" /\ xfer.port = 2 /\ xfer.remsz \in Nat \ {0}
      /\ mGp0WordsRemaining = xfer.remsz /\ mGp0Mode = "ImageLoad"
  BY DEF UploadLoop
<1>3. ~G!Gp0Panics(w) /\ G!Left(w) = xfer.remsz - 1
  BY <1>2 DEF G!Gp0Panics, G!Known, G!Fresh, G!Left
<1>4. G!Gp0Step(w) /\ running' = running
  BY <1>1, <1>3 DEF Gp0
<1>5. /\ mGp0WordsRemaining' = xfer.remsz - 1
      /\ mGp0Mode' = IF xfer.remsz - 1 = 0 THEN "Command" ELSE "ImageLoad"
  BY <1>2, <1>3, <1>4, Gp0Pixel
<1>6. PICK a : a = IF D!Decrement(D!Channel) THEN D!Back(xfer.addr) ELSE D!Forward(xfer.addr)
  OBVIOUS
<1>7. xfer \in Loops /\ xfer.addr \in Int
  BY DEF Machine, Loops
<1>8. a \in Int
  BY <1>6, <1>7, RamType DEF D!Back, D!Forward
<1>9. /\ xfer' = [xfer EXCEPT !.addr = a, !.remsz = xfer.remsz - 1]
      /\ UNCHANGED <<mChannels, ram>>
  BY <1>6 DEF D!BlockToGpu, D!NextBlock
<1>10. /\ xfer' \in Loops /\ xfer'.loop = "block" /\ xfer'.port = 2
       /\ xfer'.remsz = xfer.remsz - 1
  <2>1. PICK n \in Int : n = xfer.remsz - 1
    BY <1>2
  <2>2. PICK y : y = xfer'
    OBVIOUS
  <2>3. y = [xfer EXCEPT !.addr = a, !.remsz = n]
    BY <1>9, <2>1, <2>2
  <2>4. y \in Loops /\ y.loop = xfer.loop /\ y.port = xfer.port /\ y.remsz = n
    BY <1>7, <1>8, <2>3 DEF Loops
  <2> QED
    BY <1>2, <2>1, <2>2, <2>4
<1>11. Machine'
  BY <1>4, <1>9, <1>10 DEF Machine
<1>12. UploadLoop'
  <2>1. QuietBut({2})' /\ 0 \in mChannels'[2].control
    BY <1>9 DEF UploadLoop, QuietBut
  <2>2. xfer.remsz - 1 \in Nat
    BY <1>2
  <2> QED
    BY <1>5, <1>10, <2>1, <2>2 DEF UploadLoop
<1> QED
  BY <1>9, <1>11, <1>12

LEMMA ImageTransferStep ==
    ASSUME Machine, NEW image \in Images, NEW k \in 1 .. Len(image.pixels) + 8,
           AtImage(image, k), DmaStep
    PROVE  DriverInv'
<1> DEFINE n == Len(image.pixels)
<1>1. Transfer /\ UNCHANGED <<todo, stage, used, segment>> /\ xfer # D!Idle
  BY DEF DmaStep, Transfer
<1>2. k = n + 8 /\ UploadLoop
  BY <1>1 DEF AtImage, Calm
<1>3. D!FromRam(D!Channel) /\ xfer.loop = "block" /\ xfer.port = 2 /\ xfer.remsz \in Nat
  BY <1>2 DEF UploadLoop, D!FromRam, D!Channel
<1>4. ~D!Unhandled
  BY <1>3 DEF D!Unhandled, D!Gpu
<1>5. D!BlockToGpu \/ D!BlockDone
  <2>1. D!Move
    BY <1>1, <1>4, Moves
  <2> QED
    BY <1>3, <2>1 DEF D!Move, D!BlockToOtc, D!ListHeader, D!ListWord, D!ListNext, D!ListDone
<1>6. LoadImage(image)' = LoadImage(image)
  BY <1>1, SameRoutines
<1>7. ASSUME Machine', ram' = ram, UploadLoop' \/ (Calm' /\ GpuIdle')
      PROVE  DriverInv'
  <2>1. n \in Nat /\ n >= 1
    BY PixelType
  <2> HIDE DEF n
  <2>2. k \notin {1, 2, 3} /\ k \notin 4 .. n + 7 /\ k # n + 7
    BY <1>2, <2>1
  <2>3. ImagePort(n, k)'
    BY <2>2 DEF ImagePort
  <2>4. Building'
    BY <1>1, <1>7, BuildingKept DEF AtImage
  <2>5. AtImage(image, k)'
    BY <1>1, <1>2, <1>6, <1>7, <2>2, <2>3, <2>4 DEF AtImage, n
  <2> QED
    BY <1>7, <2>5 DEF DriverInv, Places
<1>8. CASE D!BlockToGpu
  <2>1. xfer.remsz > 0 /\ gp0' = <<ram[D!Mask(xfer.addr)]>>
    BY <1>8 DEF D!BlockToGpu
  <2>2. Gp0(ram[D!Mask(xfer.addr)])
    BY <1>1, <1>4, <2>1, Moves
  <2> QED
    BY <1>1, <1>2, <1>7, <1>8, <2>1, <2>2, PixelSentStep
<1>9. CASE D!BlockDone
  <2>1. D!Finish /\ xfer.remsz = 0 /\ gp0' = <<>> /\ ram' = ram
    BY <1>9 DEF D!BlockDone, D!Finish
  <2>2. GpuKept /\ running' = running
    BY <1>1, <1>4, <2>1, Moves
  <2>3. Machine' /\ Calm'
    BY <1>1, <1>2, <1>3, <2>1, <2>2, FinishEffect DEF UploadLoop
  <2>4. GpuIdle'
    BY <1>2, <2>1, <2>2 DEF UploadLoop, GpuKept, GpuIdle
  <2> QED
    BY <1>7, <2>1, <2>3, <2>4
<1> QED
  BY <1>5, <1>8, <1>9
-----------------------------------------------------------------------------
(* DrawTable.                                                              *)
LEMMA HeadType ==
    ASSUME Machine, NEW F \in SUBSET (1 .. used), NEW a \in Heads(F)
    PROVE  a \in D!Cell /\ a \in Nat /\ a % 2 = 0
<1>1. F \subseteq 1 .. Len(Slots)
  BY LayoutAssumption DEF Machine
<1>2. a \in D!Cell
  BY <1>1, EntryType, LayoutAssumption DEF Heads
<1>3. a \in Nat /\ a % 4 = 0
  BY <1>2, RamType
<1> QED
  BY <1>2, <1>3

LEMMA DrawStep ==
    ASSUME Machine, NEW k \in 1 .. 6, AtDraw(k), Do
    PROVE  DriverInv'
<1>0. /\ segment \in {0, 4, 5} /\ todo = Rest(DrawTable, k) /\ stage = "clear"
      /\ k <= 4 => Building
      /\ k > 2 => mChannels[2].base = Entry(Depths - 1)
  BY DEF Machine, AtDraw
<1>1. IsRoutine(DrawTable) /\ k \in 1 .. Len(DrawTable) /\ Len(DrawTable) = 6
  BY RoutineSizes
<1>2. Calm /\ GpuIdle
  <2>1. WalkingLoop => xfer # D!Idle
    BY DEF WalkingLoop, AtHeader, AtWords, D!Idle
  <2>2. xfer = D!Idle
    BY DEF Do, Store32
  <2> QED
    BY <2>1, <2>2 DEF AtDraw
<1>3. ASSUME Advances(DrawTable, k), k < 6, Machine',
             k < 4 => Building',
             k >= 2 => mChannels'[2].base = Entry(Depths - 1),
             (Calm' /\ GpuIdle') \/ (k = 4 /\ WalkingLoop')
      PROVE  DriverInv'
  <2>1. todo' = Rest(DrawTable, k + 1) /\ segment' = segment /\ stage' = "clear"
    BY <1>0, <1>3 DEF Advances, Frame
  <2>2. DrawTable' = DrawTable
    BY <2>1, SameRoutines
  <2>3. /\ k + 1 \in 1 .. 6 /\ (k + 1 <= 4 => k < 4) /\ (k + 1 > 2 => k >= 2)
        /\ (k = 4 => k + 1 = 5)
    BY <1>3
  <2>4. AtDraw(k + 1)'
    BY <1>3, <2>1, <2>2, <2>3 DEF AtDraw
  <2> QED
    BY <1>3, <2>3, <2>4 DEF DriverInv, Places
<1>4. Entry(Depths - 1) \in D!Cell /\ Entry(Depths - 1) \in Table
  <2>1. Depths - 1 \in 0 .. Depths - 1
    BY EntryType
  <2> QED
    BY <2>1, EntryType
<1>5. CASE k = 1
  <2>1. PICK op : op = GpuReady
    OBVIOUS
  <2>2. DrawTable[k] = op /\ Answered(op) /\ op.kind = "wait"
    <3>1. DrawTable[k] = op
      BY <1>5, <2>1, DrawRoutine
    <3> QED
      BY <1>0, <2>1, <3>1, GpuIsReady
  <2>3. Untouched /\ GpuKept /\ Advances(DrawTable, k) /\ Frame
    BY <1>0, <1>1, <2>2, DoesWait DEF Untouched, Advances
  <2>4. Machine' /\ Calm' /\ GpuIdle'
    BY <1>2, <2>3, MachineUntouched, CalmUntouched DEF Untouched, GpuKept, GpuIdle
  <2>5. Building'
    BY <1>0, <1>5, <2>3, BuildingKept DEF Untouched, Frame
  <2> QED
    BY <1>3, <1>5, <2>3, <2>4, <2>5
<1>6. CASE k = 2
  <2>1. PICK a \in D!Cell : a = Entry(Depths - 1)
    BY <1>4
  <2>2. PICK hi : Pointer(a) = AsWord(hi, a)
    BY DEF Pointer
  <2>3. DrawTable[k] = Store(DmaAddress(2, 0), AsWord(hi, a))
    BY <1>6, <2>1, <2>2, DrawRoutine
  <2>4. Store32(At(DmaAddress(2, 0)), AsWord(hi, a)) /\ Advances(DrawTable, k) /\ Frame
    BY <1>0, <1>1, <2>3, DoesStore DEF Advances
  <2>5. Machine' /\ Calm' /\ mChannels'[2].base = a /\ ram' = ram /\ GpuKept
    BY <1>2, <2>4, BaseStep
  <2>6. Building' /\ GpuIdle'
    BY <1>0, <1>2, <1>6, <2>4, <2>5, BuildingKept DEF Frame, GpuKept, GpuIdle
  <2> QED
    BY <1>3, <1>6, <2>1, <2>4, <2>5, <2>6
<1>7. CASE k = 3
  <2>1. PICK count \in {0, 1} : count = 0
    OBVIOUS
  <2>2. PICK n \in Nat : n = 0 /\ n < 2^16 /\ n = count * 2^16 + n
    BY <2>1
  <2>3. DrawTable[k] = Store(DmaAddress(2, 4), AsWord(0, n))
    BY <1>7, <2>2, DrawRoutine DEF Zero
  <2>4. Store32(At(DmaAddress(2, 4)), AsWord(0, n)) /\ Advances(DrawTable, k) /\ Frame
    BY <1>0, <1>1, <2>3, DoesStore DEF Advances
  <2>5. /\ Machine' /\ Calm' /\ mChannels'[2].base = mChannels[2].base /\ ram' = ram /\ GpuKept
    BY <1>2, <2>2, <2>4, BlockStep
  <2>6. Building' /\ GpuIdle'
    BY <1>0, <1>2, <1>7, <2>4, <2>5, BuildingKept DEF Frame, GpuKept, GpuIdle
  <2>7. mChannels'[2].base = Entry(Depths - 1)
    BY <1>0, <1>7, <2>5
  <2> QED
    BY <1>3, <1>7, <2>4, <2>5, <2>6, <2>7
<1>8. CASE k = 4
  <2>1. PICK w : w = AsWord(\h01, \h000401)
    OBVIOUS
  <2>2. DrawTable[k] = Store(DmaAddress(2, 8), w)
    BY <1>8, <2>1, DrawRoutine
  <2>3. Store32(At(DmaAddress(2, 8)), w) /\ Advances(DrawTable, k) /\ Frame
    BY <1>0, <1>1, <2>2, DoesStore DEF Advances
  <2>4. {24, 10, 0} \subseteq Controls(w) /\ ~D!UnknownSync(Bits(w))
    BY <2>1, ControlWords DEF D!UnknownSync
  <2>5. PICK c : c = [mChannels[2] EXCEPT !.control = Controls(w)]
    OBVIOUS
  <2>6. mChannels[2] \in ChannelType
    BY DEF Machine, Channels, D!Port
  <2>7. c.control = Controls(w) /\ c.base = Entry(Depths - 1)
    BY <1>0, <1>8, <2>5, <2>6 DEF ChannelType
  <2>8. D!Active(c) /\ 10 \in c.control
    BY <2>4, <2>7 DEF D!Active, D!LinkedList
  <2>9. /\ Machine' /\ QuietBut({2})' /\ xfer' = D!DoDma(2, c) /\ mChannels'[2] = c
        /\ ram' = ram /\ GpuKept
    BY <1>2, <2>3, <2>4, <2>5, <2>8, ControlStep
  <2>10. xfer'.port = 2 /\ xfer'.loop = "header" /\ xfer'.addr = Entry(Depths - 1)
    BY <1>4, <2>7, <2>8, <2>9, DoDmaFields, CellMasks
  <2>11. Building' /\ GpuIdle'
    BY <1>0, <1>2, <1>8, <2>3, <2>9, BuildingKept DEF Frame, GpuKept, GpuIdle
  <2>12. WalkingLoop'
    <3>1. PICK F \in SUBSET (1 .. used') : Built(F)'
      BY <2>11 DEF Building
    <3>2. AtHeader(F)'
      BY <1>4, <2>10, <2>11 DEF AtHeader, Heads, Table
    <3> QED
      BY <2>4, <2>7, <2>9, <2>10, <3>1, <3>2 DEF WalkingLoop
  <2>13. mChannels'[2].base = Entry(Depths - 1)
    BY <2>7, <2>9
  <2> QED
    BY <1>3, <1>8, <2>3, <2>9, <2>12, <2>13
<1>9. CASE k = 5
  <2>1. PICK op : op = DmaDone(2)
    OBVIOUS
  <2>2. DrawTable[k] = op /\ Answered(op) /\ op.kind = "wait"
    <3>1. DrawTable[k] = op
      BY <1>9, <2>1, DrawRoutine
    <3> QED
      BY <1>0, <1>2, <2>1, <3>1, DoneIsSeen
  <2>3. Untouched /\ GpuKept /\ Advances(DrawTable, k) /\ Frame
    BY <1>0, <1>1, <2>2, DoesWait DEF Untouched, Advances
  <2>4. Machine' /\ Calm' /\ GpuIdle'
    BY <1>2, <2>3, MachineUntouched, CalmUntouched DEF Untouched, GpuKept, GpuIdle
  <2>5. mChannels'[2].base = Entry(Depths - 1)
    BY <1>0, <1>9, <2>3 DEF Untouched
  <2> QED
    BY <1>3, <1>9, <2>3, <2>4, <2>5
<1>10. CASE k = 6
  <2>1. PICK w : w = AsWord(\he5, 0)
    OBVIOUS
  <2>2. PICK c : c = AsCommand(w)
    OBVIOUS
  <2>3. DrawTable[k] = Store(GP0, w)
    BY <1>10, <2>1, DrawRoutine
  <2>4. Store32(At(GP0), w) /\ Advances(DrawTable, k)
    BY <1>0, <1>1, <2>3, DoesStore
  <2>5. PICK op \in {\he5} : c.op = op
    BY <2>1, <2>2 DEF AsCommand, AsWord
  <2>6. G!Length(op) = 1 /\ op \in G!MethodOps /\ op # \he1 /\ op # \ha0
    BY <2>5 DEF G!Length, G!MethodOps
  <2>7. G!Method(c) = op /\ G!Left(c) = 0 /\ G!Fresh
    BY <1>2, <2>5, <2>6 DEF GpuIdle, G!Method, G!Left, G!Fresh
  <2>8. ~G!Gp0Panics(c)
    BY <2>5, <2>6, <2>7 DEF G!Gp0Panics, G!Known, G!TextureDepthPanics
  <2>9. G!Gp0Step(c) /\ Untouched
    BY <1>0, <2>2, <2>4, <2>8, StoreGp0Effect DEF Untouched
  <2>10. GpuIdle'
    BY <1>2, <2>6, <2>7, <2>9, Gp0Run DEF GpuIdle
  <2>11. Frame /\ todo' = <<>>
    BY <1>1, <1>10, <2>4, AtTheEnd DEF Advances
  <2>12. Machine' /\ Calm'
    BY <1>2, <2>9, <2>11, MachineUntouched, CalmUntouched DEF Untouched
  <2> QED
    BY <1>0, <2>10, <2>11, <2>12 DEF DriverInv, Places, AtRest, Frame
<1> QED
  BY <1>5, <1>6, <1>7, <1>8, <1>9, <1>10

LEMMA FramedKept ==
    ASSUME NEW packet, NEW j, Framed(packet, j), GpuKept
    PROVE  Framed(packet, j)'
BY DEF Framed, Partial, GpuKept

LEMMA HeaderStep ==
    ASSUME Machine, NEW F \in SUBSET (1 .. used), Built(F), AtHeader(F), xfer.port = 2,
           D!ListHeader, GpuKept, running' = running, UNCHANGED <<segment, used>>
    PROVE  Machine' /\ AtWords(F)' /\ xfer'.port = 2 /\ UNCHANGED <<mChannels, ram>>
<1>1. PICK a \in Heads(F) : a = xfer.addr
  BY DEF AtHeader
<1>2. a \in D!Cell
  BY <1>1, HeadType
<1>3. PICK h \in D!Word : h = ram[a]
  BY <1>2 DEF Machine
<1>4. h.hi \in 0 .. 255
  BY <1>3, WordFields
<1>5. PICK n \in Nat : n = h.hi
  BY <1>4
<1>6. xfer \in Loops
  BY DEF Machine
<1>7. PICK y : y = xfer'
  OBVIOUS
<1>8. y = [xfer EXCEPT !.loop = "packet", !.header = h, !.remsz = n]
      /\ UNCHANGED <<mChannels, ram>>
  BY <1>1, <1>3, <1>5, <1>7 DEF D!ListHeader
<1>9. /\ y \in Loops /\ y.loop = "packet" /\ y.port = xfer.port
      /\ y.addr = xfer.addr /\ y.remsz = n /\ y.header = h
  <2>1. y \in Loops
    <3>1. y = [loop |-> "packet", port |-> xfer.port, addr |-> xfer.addr, remsz |-> n,
               header |-> h]
      BY <1>6, <1>8 DEF Loops
    <3>2. xfer.port \in D!Port /\ xfer.addr \in Int
      BY <1>6 DEF Loops
    <3> QED
      BY <1>3, <3>1, <3>2, LoopType
  <2>2. y.loop = "packet"
    BY <1>6, <1>8 DEF Loops
  <2>3. y.port = xfer.port
    BY <1>6, <1>8 DEF Loops
  <2>4. y.addr = xfer.addr
    BY <1>6, <1>8 DEF Loops
  <2>5. y.remsz = n
    BY <1>6, <1>8 DEF Loops
  <2>6. y.header = h
    BY <1>6, <1>8 DEF Loops
  <2> QED
    BY <2>1, <2>2, <2>3, <2>4, <2>5, <2>6
<1>10. Machine'
  BY <1>7, <1>8, <1>9 DEF Machine
<1>11. h.lo \in Heads(F) \cup Ends
  BY <1>1, <1>3 DEF Built, Links, Heads
<1>12. GpuIdle
  BY DEF AtHeader
<1>13. (n = 0 /\ GpuIdle') \/ \E m \in F, packet \in Packets : InPacket(m, packet)'
  <2>1. CASE a \in Table
    <3>1. n = 0
      BY <1>3, <1>5, <2>1 DEF Built
    <3> QED
      BY <1>12, <3>1 DEF GpuIdle, GpuKept
  <2>2. CASE a \notin Table
    <3>1. PICK m \in F : a = Slots[m]
      BY <1>1, <2>2 DEF Heads
    <3>2. PICK packet \in Packets : Holds(Slots[m], packet)
      BY DEF Built
    <3>3. n = Len(Words[packet])
      BY <1>3, <1>5, <3>1, <3>2 DEF Holds
    <3>4. Framed(packet, 0)'
      BY <1>12, FramedFirst, FramedKept
    <3>5. Holds(Slots[m], packet)'
      BY <1>8, <3>2 DEF Holds
    <3>6. n - n = 0 /\ Slots[m] + 4 * (n - n) = Slots[m]
      BY <1>2, <3>1, RamType
    <3>7. InPacket(m, packet)'
      BY <1>1, <1>7, <1>9, <3>1, <3>3, <3>4, <3>5, <3>6 DEF InPacket
    <3> QED
      BY <3>7
  <2> QED
    BY <2>1, <2>2
<1>14. AtWords(F)'
  <2>1. Heads(F)' = Heads(F) /\ Ends' = Ends
    BY DEF Heads, Table, Ends
  <2> QED
    BY <1>5, <1>7, <1>9, <1>11, <1>13, <2>1 DEF AtWords
<1> QED
  BY <1>7, <1>8, <1>9, <1>10, <1>14

LEMMA WordStep ==
    ASSUME Machine, NEW F \in SUBSET (1 .. used), Built(F), AtWords(F), xfer.port = 2,
           xfer.remsz > 0, D!ListWord, Gp0(ram[D!Forward(xfer.addr)]),
           UNCHANGED <<segment, used>>
    PROVE  Machine' /\ AtWords(F)' /\ xfer'.port = 2 /\ UNCHANGED <<mChannels, ram>>
<1>1. PICK m \in F, packet \in Packets : InPacket(m, packet)
  BY DEF AtWords
<1>2. PICK n \in Nat : n = Len(Words[packet])
  BY WordsType
<1>3. PICK left \in Nat \ {0} : left = xfer.remsz /\ left <= n
  BY <1>1, <1>2 DEF AtWords, InPacket
<1>4. PICK j \in Nat : j = n - left /\ j < n /\ n - (left - 1) = j + 1
  BY <1>3
<1>5. Holds(Slots[m], packet) /\ xfer.addr = Slots[m] + 4 * j /\ Framed(packet, j)
  BY <1>1, <1>2, <1>3, <1>4 DEF InPacket
<1>6. PICK a : a = Slots[m] + 4 * (j + 1)
  OBVIOUS
<1>7. m \in 1 .. Len(Slots)
  BY LayoutAssumption DEF Machine
<1>8. j + 1 \in 1 .. n
  BY <1>4
<1>9. a \in D!Cell /\ a < RAM_SIZE /\ a = xfer.addr + 4
  <2>1. a \in SlotCells(m, packet)
    BY <1>2, <1>6, <1>7, <1>8, SlotType
  <2>2. a \in D!Cell /\ Slots[m] \in Nat
    BY <1>7, <2>1, SlotType, RamType
  <2> QED
    BY <1>5, <1>6, <2>2, RamType
<1>10. D!Forward(xfer.addr) = a
  BY <1>9 DEF D!Forward
<1>11. ram[a] = Words[packet][j + 1]
  BY <1>2, <1>5, <1>6, <1>8 DEF Holds
<1>12. PICK w : w = AsCommand(ram[a])
  OBVIOUS
<1>13. ~G!Gp0Panics(w) /\ (G!Gp0Step(w) => Framed(packet, j + 1)')
  BY <1>2, <1>4, <1>5, <1>11, <1>12, FramedStep
<1>14. G!Gp0Step(w) /\ running' = running
  BY <1>10, <1>12, <1>13 DEF Gp0
<1>15. PICK y : y = xfer'
  OBVIOUS
<1>16. PICK n1 \in Nat : n1 = left - 1
  BY <1>3
<1>17. y = [xfer EXCEPT !.addr = a, !.remsz = n1] /\ UNCHANGED <<mChannels, ram>>
  BY <1>3, <1>10, <1>15, <1>16 DEF D!ListWord
<1>18. xfer \in Loops /\ a \in Int /\ xfer.loop = "packet"
  BY <1>9, RamType DEF Machine, AtWords
<1>19. /\ y \in Loops /\ y.loop = "packet" /\ y.port = xfer.port
       /\ y.addr = a /\ y.remsz = n1 /\ y.header = xfer.header
  <2>1. y \in Loops
    <3>1. y = [loop |-> "packet", port |-> xfer.port, addr |-> a, remsz |-> n1,
               header |-> xfer.header]
      BY <1>17, <1>18 DEF Loops
    <3>2. xfer.port \in D!Port /\ xfer.header \in D!Word
      BY <1>18 DEF Loops
    <3> QED
      BY <1>18, <3>1, <3>2, LoopType
  <2>2. y.loop = "packet"
    BY <1>17, <1>18 DEF Loops
  <2>3. y.port = xfer.port
    BY <1>17, <1>18 DEF Loops
  <2>4. y.addr = a
    BY <1>17, <1>18 DEF Loops
  <2>5. y.remsz = n1
    BY <1>17, <1>18 DEF Loops
  <2>6. y.header = xfer.header
    BY <1>17, <1>18 DEF Loops
  <2> QED
    BY <2>1, <2>2, <2>3, <2>4, <2>5, <2>6
<1>20. Machine'
  BY <1>14, <1>15, <1>17, <1>19 DEF Machine
<1>21. InPacket(m, packet)'
  <2>1. Holds(Slots[m], packet)'
    BY <1>5, <1>17 DEF Holds
  <2>2. n - n1 = j + 1 /\ n1 <= n
    BY <1>3, <1>4, <1>16
  <2> QED
    BY <1>2, <1>6, <1>13, <1>14, <1>15, <1>19, <2>1, <2>2 DEF InPacket
<1>22. AtWords(F)'
  <2>1. Heads(F)' = Heads(F) /\ Ends' = Ends
    BY DEF Heads, Table, Ends
  <2>2. xfer.header.lo \in Heads(F) \cup Ends
    BY DEF AtWords
  <2> QED
    BY <1>15, <1>16, <1>19, <1>21, <2>1, <2>2 DEF AtWords
<1> QED
  BY <1>15, <1>17, <1>19, <1>20, <1>22

(* After the words of a packet all commands are complete. *)
LEMMA WordsEnd ==
    ASSUME NEW F, AtWords(F), xfer.remsz = 0
    PROVE  GpuIdle
<1>1. ASSUME NEW m \in F, NEW packet \in Packets, InPacket(m, packet) PROVE GpuIdle
  <2>1. PICK n \in Nat : n = Len(Words[packet])
    BY WordsType
  <2>2. Framed(packet, n - 0) /\ n - 0 = n
    BY <1>1, <2>1 DEF InPacket
  <2> QED
    BY <2>1, <2>2, FramedLast
<1> QED
  BY <1>1 DEF AtWords

LEMMA NextStep ==
    ASSUME Machine, NEW F \in SUBSET (1 .. used), AtWords(F), xfer.port = 2,
           D!ListNext, GpuKept, running' = running, UNCHANGED <<segment, used>>
    PROVE  Machine' /\ AtHeader(F)' /\ xfer'.port = 2 /\ UNCHANGED <<mChannels, ram>>
<1>1. xfer.remsz = 0 /\ xfer.loop = "packet" /\ xfer.header.lo % 2 # 1
  BY DEF D!ListNext, D!EndOfTable
<1>2. GpuIdle
  BY <1>1, WordsEnd
<1>3. PICK a : a = xfer.header.lo
  OBVIOUS
<1>4. a \in Heads(F)
  <2>1. \A e \in Ends : e % 2 = 1
    BY DEF Ends
  <2> QED
    BY <1>1, <1>3, <2>1 DEF AtWords
<1>5. a \in D!Cell /\ a \in Int /\ D!Mask(a) = a
  BY <1>4, HeadType, CellMasks
<1>6. PICK y : y = xfer'
  OBVIOUS
<1>7. y = [xfer EXCEPT !.loop = "header", !.addr = a] /\ UNCHANGED <<mChannels, ram>>
  BY <1>3, <1>5, <1>6 DEF D!ListNext
<1>8. xfer \in Loops
  BY DEF Machine
<1>9. y \in Loops /\ y.loop = "header" /\ y.addr = a /\ y.port = xfer.port
  BY <1>5, <1>7, <1>8 DEF Loops
<1>10. Machine'
  BY <1>6, <1>7, <1>9 DEF Machine
<1>11. GpuIdle'
  BY <1>2 DEF GpuIdle, GpuKept
<1>12. AtHeader(F)'
  <2>1. Heads(F)' = Heads(F)
    BY DEF Heads, Table
  <2> QED
    BY <1>4, <1>6, <1>9, <1>11, <2>1 DEF AtHeader
<1> QED
  BY <1>6, <1>7, <1>9, <1>10, <1>12

LEMMA DrawTransferStep ==
    ASSUME Machine, NEW k \in 1 .. 6, AtDraw(k), DmaStep
    PROVE  DriverInv'
<1>1. Transfer /\ UNCHANGED <<todo, stage, used, segment>> /\ xfer # D!Idle
  BY DEF DmaStep, Transfer
<1>2. k = 5 /\ WalkingLoop
  BY <1>1 DEF AtDraw, Calm
<1>3. PICK F \in SUBSET (1 .. used) : Built(F) /\ (AtHeader(F) \/ AtWords(F))
  BY <1>2 DEF WalkingLoop
<1>4. D!FromRam(D!Channel) /\ xfer.loop \in {"header", "packet"} /\ xfer.port = 2
  BY <1>2, <1>3 DEF WalkingLoop, AtHeader, AtWords, D!FromRam, D!Channel
<1>5. ~D!Unhandled
  BY <1>4 DEF D!Unhandled, D!Gpu
<1>6. D!ListHeader \/ D!ListWord \/ D!ListNext \/ D!ListDone
  <2>1. D!Move
    BY <1>1, <1>5, Moves
  <2> QED
    BY <1>4, <2>1 DEF D!Move, D!BlockToGpu, D!BlockToOtc, D!BlockDone
<1>7. DrawTable' = DrawTable
  BY <1>1, SameRoutines
<1>8. ASSUME gp0' = <<>> PROVE GpuKept /\ running' = running
  BY <1>1, <1>5, <1>8, Moves
<1>9. used \in Nat /\ used' = used /\ used <= used' /\ used' \in Nat
  BY <1>1 DEF Machine
<1>10. ASSUME UNCHANGED <<mChannels, ram>>, xfer'.port = 2, Machine',
              AtHeader(F)' \/ AtWords(F)'
       PROVE  DriverInv'
  <2>1. Built(F)' /\ F \in SUBSET (1 .. used')
    BY <1>3, <1>9, <1>10, BuiltUntouched
  <2>2. WalkingLoop'
    BY <1>2, <1>10, <2>1 DEF WalkingLoop, QuietBut
  <2>3. AtDraw(k)'
    BY <1>1, <1>2, <1>7, <1>10, <2>2 DEF AtDraw
  <2> QED
    BY <1>10, <2>3 DEF DriverInv, Places
<1>11. CASE D!ListHeader
  <2>1. gp0' = <<>> /\ AtHeader(F)
    BY <1>3, <1>11 DEF D!ListHeader, AtWords
  <2> QED
    BY <1>1, <1>3, <1>4, <1>8, <1>10, <1>11, <2>1, HeaderStep
<1>12. CASE D!ListWord
  <2>1. xfer.remsz > 0 /\ gp0' = <<ram[D!Forward(xfer.addr)]>> /\ AtWords(F)
    BY <1>3, <1>12 DEF D!ListWord, AtHeader
  <2>2. Gp0(ram[D!Forward(xfer.addr)])
    BY <1>1, <1>5, <2>1, Moves
  <2> QED
    BY <1>1, <1>3, <1>4, <1>10, <1>12, <2>1, <2>2, WordStep
<1>13. CASE D!ListNext
  <2>1. gp0' = <<>> /\ AtWords(F)
    BY <1>3, <1>13 DEF D!ListNext, AtHeader
  <2> QED
    BY <1>1, <1>3, <1>4, <1>8, <1>10, <1>13, <2>1, NextStep
<1>14. CASE D!ListDone
  <2>1. D!Finish /\ xfer.remsz = 0 /\ AtWords(F)
    BY <1>3, <1>14 DEF D!ListDone, AtHeader
  <2>2. gp0' = <<>>
    BY <2>1 DEF D!Finish
  <2>3. GpuKept /\ running' = running /\ GpuIdle
    BY <1>8, <2>1, <2>2, WordsEnd
  <2>4. Machine' /\ Calm'
    BY <1>1, <1>2, <1>4, <2>1, <2>3, FinishEffect DEF WalkingLoop
  <2>5. GpuIdle'
    BY <2>3 DEF GpuIdle, GpuKept
  <2>6. mChannels'[2].base = Entry(Depths - 1)
    <3>1. 2 \in D!Port /\ mChannels \in [D!Port -> ChannelType]
      BY DEF D!Port, Machine, Channels
    <3>2. PICK c : c = D!Done(mChannels[2])
      OBVIOUS
    <3>3. mChannels' = [mChannels EXCEPT ![2] = c]
      BY <1>4, <2>1, <3>2 DEF D!Finish, D!Channel
    <3>4. c.base = mChannels[2].base
      BY <3>1, <3>2 DEF ChannelType, D!Done
    <3> QED
      BY <1>2, <3>1, <3>3, <3>4 DEF AtDraw
  <2>7. AtDraw(k)'
    BY <1>1, <1>2, <1>7, <2>4, <2>5, <2>6 DEF AtDraw
  <2> QED
    BY <2>4, <2>7 DEF DriverInv, Places
<1> QED
  BY <1>6, <1>11, <1>12, <1>13, <1>14
-----------------------------------------------------------------------------
(* The invariant.                                                          *)
LEMMA InitPlaces ==
    ASSUME Init
    PROVE  DriverInv
<1>1. /\ mChannels = [p \in D!Port |-> D!Reset] /\ xfer = D!Idle
      /\ ram = [a \in D!Cell |-> [hi |-> \hca, lo |-> \hcacaca % 2^24]]
  BY DEF Init, SystemInit, D!Init, D!Boot
<1>2. GpuIdle
  BY DEF Init, SystemInit, G!Init, GpuIdle
<1>3. running = TRUE /\ todo = SetUp /\ stage = "clear" /\ used = 0 /\ segment \in Segments
  BY DEF Init, SystemInit
<1>4. PICK c : c = D!Reset
  OBVIOUS
<1>5. c \in ChannelType /\ 24 \notin c.control
  BY <1>4 DEF D!Reset, ChannelType
<1>6. mChannels \in Channels /\ QuietBut({})
  BY <1>1, <1>4, <1>5 DEF Channels, QuietBut
<1>7. PICK w : w = AsWord(\hca, \hcacaca % 2^24)
  OBVIOUS
<1>8. w \in D!Word
  <2>1. \hcacaca % 2^24 \in Nat /\ \hcacaca % 2^24 < 2^24
    OBVIOUS
  <2> QED
    BY <1>7, <2>1, WordType
<1>9. ram = [a \in D!Cell |-> w]
  BY <1>1, <1>7 DEF AsWord
<1>10. ram \in [D!Cell -> D!Word]
  BY <1>8, <1>9
<1>11. Len(Slots) \in Nat
  BY LayoutAssumption
<1>12. Machine
  BY <1>1, <1>3, <1>6, <1>10, <1>11, NoLoop, DriverAssumption DEF Machine
<1>13. todo = Rest(SetUp, 1)
  BY <1>3, AtTheStart, RoutineSizes
<1>14. AtSetUp(1) /\ 1 \in 1 .. 5
  BY <1>1, <1>2, <1>3, <1>6, <1>13 DEF AtSetUp, Calm
<1> QED
  BY <1>12, <1>14 DEF DriverInv, Places

LEMMA StutteringStep ==
    ASSUME DriverInv, UNCHANGED vars
    PROVE  DriverInv'
<1>1. /\ UNCHANGED <<mChannels, ram, xfer, running, mGp0WordsRemaining, mGp0Mode>>
      /\ UNCHANGED <<mGp0CommandMethod, todo, stage, used, segment>>
  BY DEF vars, systemVars, dmaVars, gpuVars
<1>2. Machine /\ Machine' /\ GpuKept
  BY <1>1, MachineUntouched DEF DriverInv, Untouched, Frame, GpuKept
<1>3. /\ ClearTable' = ClearTable /\ DrawTable' = DrawTable
      /\ \A image : LoadImage(image)' = LoadImage(image)
  BY <1>1, SameRoutines
<1>4. \A F : Built(F) => Built(F)'
  BY <1>1, <1>2, BuiltUntouched DEF Machine
<1>5. Building => Building'
  BY <1>1, <1>4 DEF Building
<1>6. (Calm => Calm') /\ (GpuIdle => GpuIdle')
  BY <1>1, CalmUntouched DEF GpuIdle
<1>7. CASE AtRest
  BY <1>1, <1>2, <1>5, <1>6, <1>7 DEF AtRest, DriverInv, Places
<1>8. ASSUME NEW k \in 1 .. 5, AtSetUp(k) PROVE DriverInv'
  BY <1>1, <1>2, <1>6, <1>8 DEF AtSetUp, DriverInv, Places
<1>9. ASSUME NEW k \in 1 .. 4, AtClear(k) PROVE DriverInv'
  <2>1. ClearingLoop => ClearingLoop'
    BY <1>1 DEF ClearingLoop, QuietBut, Cleared
  <2>2. AtClear(k)'
    BY <1>1, <1>3, <1>4, <1>6, <1>9, <2>1 DEF AtClear
  <2> QED
    BY <1>2, <2>2 DEF DriverInv, Places
<1>10. ASSUME NEW d \in 0 .. Depths - 1, NEW packet \in Packets, NEW F \in SUBSET (1 .. used),
              NEW k \in 1 .. Len(Words[packet]) + 2, AtPacket(d, packet, F, k)
       PROVE  DriverInv'
  <2>1. AtPacket(d, packet, F, k)'
    BY <1>1, <1>4, <1>6, <1>10 DEF AtPacket
  <2> QED
    BY <1>1, <1>2, <2>1 DEF DriverInv, Places
<1>11. ASSUME NEW image \in Images, NEW k \in 1 .. Len(image.pixels) + 8, AtImage(image, k)
       PROVE  DriverInv'
  <2>1. UploadLoop => UploadLoop'
    BY <1>1 DEF UploadLoop, QuietBut
  <2>2. ImagePort(Len(image.pixels), k)'
    BY <1>1, <1>6, <1>11 DEF AtImage, ImagePort
  <2>3. AtImage(image, k)'
    BY <1>1, <1>3, <1>5, <1>6, <1>11, <2>1, <2>2 DEF AtImage
  <2> QED
    BY <1>2, <2>3 DEF DriverInv, Places
<1>12. ASSUME NEW k \in 1 .. 6, AtDraw(k) PROVE DriverInv'
  <2>1. ASSUME NEW F, AtHeader(F) PROVE AtHeader(F)'
    BY <1>1, <1>6, <2>1 DEF AtHeader, Heads, Table
  <2>2. ASSUME NEW F, AtWords(F) PROVE AtWords(F)'
    <3>1. \A m, packet : InPacket(m, packet) => InPacket(m, packet)'
      BY <1>1, <1>2, FramedKept DEF InPacket, Holds
    <3> QED
      BY <1>1, <1>6, <2>2, <3>1 DEF AtWords, Heads, Table, Ends
  <2>3. WalkingLoop => WalkingLoop'
    BY <1>1, <1>4, <2>1, <2>2 DEF WalkingLoop, QuietBut
  <2>4. AtDraw(k)'
    BY <1>1, <1>3, <1>5, <1>6, <1>12, <2>3 DEF AtDraw
  <2> QED
    BY <1>2, <2>4 DEF DriverInv, Places
<1> QED
  BY <1>7, <1>8, <1>9, <1>10, <1>11, <1>12 DEF DriverInv, Places

LEMMA NextPlaces ==
    ASSUME DriverInv, [Next]_vars
    PROVE  DriverInv'
<1>1. Machine /\ Places
  BY DEF DriverInv
<1>2. CASE NewPicture
  BY <1>1, <1>2, OnlyAtRest, NewPictureStep DEF NewPicture, Call
<1>3. CASE ShowPicture
  BY <1>1, <1>3, OnlyAtRest, ShowPictureStep DEF ShowPicture, Call
<1>4. ASSUME NEW d \in 0 .. Depths - 1, NEW packet \in Packets, InsertPacket(d, packet)
      PROVE  DriverInv'
  BY <1>1, <1>4, OnlyAtRest, InsertPacketStep DEF InsertPacket, Call
<1>5. ASSUME NEW image \in Images, UploadImage(image)
      PROVE  DriverInv'
  BY <1>1, <1>5, OnlyAtRest, UploadImageStep DEF UploadImage, Call
<1>6. CASE Do
  <2>1. CASE AtRest
    BY <1>6, <2>1 DEF Do, AtRest
  <2>2. ASSUME NEW k \in 1 .. 5, AtSetUp(k) PROVE DriverInv'
    BY <1>1, <1>6, <2>2, SetUpStep
  <2>3. ASSUME NEW k \in 1 .. 4, AtClear(k) PROVE DriverInv'
    BY <1>1, <1>6, <2>3, ClearStep
  <2>4. ASSUME NEW d \in 0 .. Depths - 1, NEW packet \in Packets, NEW F \in SUBSET (1 .. used),
               NEW k \in 1 .. Len(Words[packet]) + 2, AtPacket(d, packet, F, k)
        PROVE  DriverInv'
    BY <1>1, <1>6, <2>4, PacketStep
  <2>5. ASSUME NEW image \in Images, NEW k \in 1 .. Len(image.pixels) + 8, AtImage(image, k)
        PROVE  DriverInv'
    BY <1>1, <1>6, <2>5, ImageStep
  <2>6. ASSUME NEW k \in 1 .. 6, AtDraw(k) PROVE DriverInv'
    BY <1>1, <1>6, <2>6, DrawStep
  <2> QED
    BY <1>1, <2>1, <2>2, <2>3, <2>4, <2>5, <2>6 DEF Places
<1>7. CASE DmaStep
  <2>0. xfer # D!Idle
    BY <1>7 DEF DmaStep, Transfer
  <2>1. CASE AtRest
    BY <2>0, <2>1 DEF Calm, AtRest
  <2>2. ASSUME NEW k \in 1 .. 5, AtSetUp(k) PROVE DriverInv'
    BY <2>0, <2>2 DEF Calm, AtSetUp
  <2>3. ASSUME NEW k \in 1 .. 4, AtClear(k) PROVE DriverInv'
    BY <1>1, <1>7, <2>3, ClearTransferStep
  <2>4. ASSUME NEW d \in 0 .. Depths - 1, NEW packet \in Packets, NEW F \in SUBSET (1 .. used),
               NEW k \in 1 .. Len(Words[packet]) + 2, AtPacket(d, packet, F, k)
        PROVE  DriverInv'
    BY <1>7, <2>4, PacketTransferStep
  <2>5. ASSUME NEW image \in Images, NEW k \in 1 .. Len(image.pixels) + 8, AtImage(image, k)
        PROVE  DriverInv'
    BY <1>1, <1>7, <2>5, ImageTransferStep
  <2>6. ASSUME NEW k \in 1 .. 6, AtDraw(k) PROVE DriverInv'
    BY <1>1, <1>7, <2>6, DrawTransferStep
  <2> QED
    BY <1>1, <2>1, <2>2, <2>3, <2>4, <2>5, <2>6 DEF Places
<1>8. CASE UNCHANGED vars
  BY <1>8, StutteringStep
<1> QED
  BY <1>2, <1>3, <1>4, <1>5, <1>6, <1>7, <1>8 DEF Next

(* The inductive invariant: in every state the program is at an operation  *)
(* of one of its routines, and RAM, channel, loop and port are what that   *)
(* operation needs.                                                        *)
THEOREM DriverInvCorrect == Spec => []DriverInv
<1>1. Init => DriverInv
  BY InitPlaces
<1>2. DriverInv /\ [Next]_vars => DriverInv'
  BY NextPlaces
<1> QED
  BY <1>1, <1>2, PTL DEF Spec

(* A program that keeps to the rules never dies of a panic, whatever the   *)
(* table, the packets, the images and the segments: every address of       *)
(* bus.cpp, register of dma.cpp, transfer and command of gpu.cpp that it   *)
(* uses is there.                                                          *)
THEOREM NeverPanicsCorrect == Spec => []NeverPanics
<1>1. DriverInv => NeverPanics
  BY DEF DriverInv, Machine, NeverPanics
<1> QED
  BY <1>1, DriverInvCorrect, PTL

LEMMA WaitsAreAnswered ==
    ASSUME DriverInv, xfer = D!Idle, todo # <<>>, Head(todo).kind = "wait"
    PROVE  Answered(Head(todo))
<1>1. segment \in {0, 4, 5} /\ Places
  BY DEF DriverInv, Machine
<1>2. \A at, word : Head(todo) # Store(at, word)
  BY DEF Store
<1>3. \A at, hi, from : Head(todo) # Link(at, hi, from)
  BY DEF Link
<1>4. ASSUME NEW k \in 1 .. 5, AtSetUp(k) PROVE FALSE
  <2>1. Head(todo) = SetUp[k]
    BY <1>4, RoutineSizes, AtOperation DEF AtSetUp
  <2>2. k = 1 \/ k = 2 \/ k = 3 \/ k = 4 \/ k = 5
    OBVIOUS
  <2>3. k # 1 /\ k # 3
    BY <1>2, <2>1, SetUpRoutine
  <2>4. k # 2 /\ k # 4 /\ k # 5
    BY <1>2, <2>1, SetUpRoutine
  <2> QED
    BY <2>2, <2>3, <2>4
<1>5. ASSUME NEW k \in 1 .. 4, AtClear(k) PROVE Answered(Head(todo))
  <2>1. Head(todo) = ClearTable[k]
    BY <1>5, RoutineSizes, AtOperation DEF AtClear
  <2>2. k = 1 \/ k = 2 \/ k = 3 \/ k = 4
    OBVIOUS
  <2>3. k = 4
    BY <1>2, <2>1, <2>2, ClearRoutine
  <2>4. Calm
    BY <1>5 DEF AtClear, ClearingLoop, D!Idle
  <2> QED
    BY <1>1, <2>1, <2>3, <2>4, ClearRoutine, DoneIsSeen
<1>6. ASSUME NEW d, NEW packet \in Packets, NEW F, NEW k \in 1 .. Len(Words[packet]) + 2,
             AtPacket(d, packet, F, k)
      PROVE  FALSE
  <2>1. PICK r : r = AddPacket(Slots[used], d, packet)
    OBVIOUS
  <2>2. PICK n \in Nat : n = Len(Words[packet])
    BY WordsType
  <2>3. /\ IsRoutine(r) /\ Len(r) = n + 2
        /\ \A i \in 1 .. n : r[i] = Store(Slots[used] + 4 + 4 * (i - 1), Words[packet][i])
        /\ r[n + 1] = Link(Slots[used], n, Entry(d))
        /\ r[n + 2] = Store(Entry(d), AsWord(0, Slots[used]))
    BY <2>1, <2>2, PacketRoutine
  <2>4. Head(todo) = r[k]
    BY <1>6, <2>1, <2>2, <2>3, AtOperation DEF AtPacket
  <2>5. k \in 1 .. n \/ k = n + 1 \/ k = n + 2
    BY <2>2
  <2>6. k \notin 1 .. n
    BY <1>2, <2>3, <2>4
  <2>7. k # n + 1
    BY <1>3, <2>3, <2>4
  <2>8. k # n + 2
    BY <1>2, <2>3, <2>4
  <2> QED
    BY <2>5, <2>6, <2>7, <2>8
<1>7. ASSUME NEW image \in Images, NEW k \in 1 .. Len(image.pixels) + 8, AtImage(image, k)
      PROVE  Answered(Head(todo))
  <2> DEFINE n == Len(image.pixels)
             r == LoadImage(image)
  <2>1. /\ IsRoutine(r) /\ Len(r) = n + 8
        /\ r[1] = Store(GP0, AsWord(\ha0, 0)) /\ r[2] = Store(GP0, Zero)
        /\ r[3] = Store(GP0, image.size)
    BY ImageRoutine
  <2>2. \A i \in 1 .. n : r[3 + i] = Store(ImageBuffer + 4 * (i - 1), image.pixels[i])
    BY ImageRoutine, Zenon
  <2>3. /\ r[n + 4] = GpuReady
        /\ r[n + 5] = Store(DmaAddress(2, 0), Pointer(ImageBuffer))
        /\ r[n + 6] = Store(DmaAddress(2, 4), AsWord(0, 2^16 + n))
        /\ r[n + 7] = Store(DmaAddress(2, 8), AsWord(\h01, \h000201))
        /\ r[n + 8] = DmaDone(2)
    BY ImageRoutine
  <2>4. Head(todo) = r[k]
    BY <1>7, <2>1, AtOperation DEF AtImage
  <2>5. n \in Nat
    BY ImageAssumption
  <2>6. Calm \/ UploadLoop
    BY <1>7 DEF AtImage
  <2> HIDE DEF n, r
  <2>7. k \in 1 .. 3 \/ k - 3 \in 1 .. n \/ k = n + 4 \/ k \in n + 5 .. n + 7 \/ k = n + 8
    BY <2>5 DEF n
  <2>8. CASE k \in 1 .. 3
    <3>1. k = 1 \/ k = 2 \/ k = 3
      BY <2>8
    <3> QED
      BY <1>2, <2>1, <2>4, <3>1
  <2>9. CASE k - 3 \in 1 .. n
    <3>1. PICK i \in 1 .. n : k = 3 + i
      BY <2>9
    <3>2. Head(todo) = Store(ImageBuffer + 4 * (i - 1), image.pixels[i])
      BY <2>2, <2>4, <3>1
    <3> QED
      BY <1>2, <3>2
  <2>10. CASE k = n + 4
    BY <1>1, <2>3, <2>4, <2>10, GpuIsReady
  <2>11. CASE k \in n + 5 .. n + 7
    <3>1. k = n + 5 \/ k = n + 6 \/ k = n + 7
      BY <2>11, <2>5
    <3> QED
      BY <1>2, <2>3, <2>4, <3>1
  <2>12. CASE k = n + 8
    <3>1. Calm
      BY <2>6 DEF UploadLoop, D!Idle
    <3> QED
      BY <1>1, <2>3, <2>4, <2>12, <3>1, DoneIsSeen
  <2> QED
    BY <2>7, <2>8, <2>9, <2>10, <2>11, <2>12
<1>8. ASSUME NEW k \in 1 .. 6, AtDraw(k) PROVE Answered(Head(todo))
  <2>1. Head(todo) = DrawTable[k]
    BY <1>8, RoutineSizes, AtOperation DEF AtDraw
  <2>2. k = 1 \/ k = 2 \/ k = 3 \/ k = 4 \/ k = 5 \/ k = 6
    OBVIOUS
  <2>3. k = 1 \/ k = 5
    BY <1>2, <2>1, <2>2, DrawRoutine
  <2>4. CASE k = 1
    BY <1>1, <2>1, <2>4, DrawRoutine, GpuIsReady
  <2>5. CASE k = 5
    <3>1. Calm
      BY <1>8 DEF AtDraw, WalkingLoop, AtHeader, AtWords, D!Idle
    <3> QED
      BY <1>1, <2>1, <2>5, <3>1, DrawRoutine, DoneIsSeen
  <2> QED
    BY <2>3, <2>4, <2>5
<1> QED
  BY <1>1, <1>4, <1>5, <1>6, <1>7, <1>8 DEF Places, AtRest

(* The devices are where the program believes them to be: GP0 expects      *)
(* nothing between two routines (the DMA sends what gp0ImageLoad counts),  *)
(* and a poll is answered at once, because the store that starts a         *)
(* transfer returns after done() and STATUS always shows the GPU ready.    *)
THEOREM DevicesAreReadyCorrect == Spec => []DevicesAreReady
<1>1. DriverInv => DevicesAreReady
  <2> SUFFICES ASSUME DriverInv PROVE DevicesAreReady
    OBVIOUS
  <2>1. CASE todo = <<>>
    BY <2>1, OnlyAtRest DEF DevicesAreReady, AtRest, GpuIdle
  <2>2. CASE todo # <<>>
    BY <2>2, WaitsAreAnswered DEF DevicesAreReady, Answered
  <2> QED
    BY <2>1, <2>2
<1> QED
  BY <1>1, DriverInvCorrect, PTL
=============================================================================

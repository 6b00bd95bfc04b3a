------------------------------ MODULE DmaProps ------------------------------
(***************************************************************************)
(* What the DMA transfers promise.  An observer remembers the RAM a        *)
(* transfer started with (before) and the words it has sent to the GPU     *)
(* (sent, at most MaxSent: a circular list never stops sending).           *)
(***************************************************************************)
EXTENDS Dma

CONSTANT MaxSent

VARIABLES before, sent
obsVars == <<vars, before, sent>>

Starts == xfer = Idle /\ xfer' # Idle
Observe == /\ before' = IF Starts THEN ram ELSE before
           /\ sent' = IF Starts THEN <<>> ELSE sent \o gp0'
           /\ Len(sent') <= MaxSent

ObservedInit == Init /\ before = ram /\ sent = <<>>
ObservedSpec == ObservedInit /\ [][Next /\ Observe]_obsVars
ObservedFairSpec == ObservedSpec /\ WF_obsVars(Transfer /\ Observe)

Ends(loop) == xfer.loop = loop /\ xfer' = Idle

(* The k-th cell of a block transfer, counted from 0, and their number. *)
Size(c) == c.block.size * (IF Request(c) THEN c.block.count ELSE 1)
Entry(c, k) == LET step == IF Decrement(c) THEN -4 ELSE 4
                   at == (c.base + step * k) % RAMSIZE
               IN at - (at % 4)
Window(c) == {Entry(c, k) : k \in 0 .. Size(c) - 1}
-----------------------------------------------------------------------------
(* Every way to start a channel is noticed: between two CPU stores no      *)
(* channel is left started, whatever the order its registers were written  *)
(* in (setDmaReg tests active() after each of them, done() clears it).     *)
NothingLeftStarted ==
    xfer = Idle /\ running => \A p \in Port : ~Active(mChannels[p])

(* Clearing an ordering table that fits in RAM links its entries from the  *)
(* base downwards, across the end of RAM too, and marks the last one       *)
(* (bus.cpp, the Otc case of doDmaBlock).                                  *)
OrderingTable ==
    [][LET c == mChannels[xfer.port]  n == Size(c)
       IN Ends("block") /\ xfer.port = Otc /\ Decrement(c) /\ c.base % 4 = 0
            /\ 4 * n <= RAMSIZE
          => \A k \in 0 .. n - 1 :
                ram[Entry(c, k)] = IF k = n - 1 THEN EndMarker
                                   ELSE [hi |-> 0, lo |-> Entry(c, k + 1)]]_obsVars

(* A block transfer changes no RAM outside the words it was told to move,  *)
(* and none at all on the way to the GPU, which gets them all, in order.   *)
BlockIsExact ==
    [][LET c == mChannels[xfer.port]
       IN Ends("block") =>
            /\ \A a \in Cell \ Window(c) : ram[a] = before[a]
            /\ xfer.port = Gpu =>
                  /\ ram = before
                  /\ Len(sent) = Size(c)
                  /\ \A k \in 1 .. Len(sent) : sent[k] = ram[Entry(c, k - 1)]]_obsVars

(* The words of the packet at a cell.                                      *)
Packet(a) == [k \in 1 .. ram[a].hi |-> ram[Mask(a + 4 * k)]]
Last(a) == ram[a].lo = LOW - 1

GoesOn(a) == ~Last(a) /\ ram[a].lo \in Cell

(* The cells where a list of at most n links begins, and its words.        *)
Links == RAMSIZE \div 4
Ending[n \in 0 .. Links] ==
    {a \in Cell : Last(a) \/ (n > 0 /\ GoesOn(a) /\ ram[a].lo \in Ending[n - 1])}
Listed[n \in 0 .. Links] ==
    [a \in Cell |-> IF n > 0 /\ GoesOn(a) THEN Packet(a) \o Listed[n - 1][ram[a].lo]
                                          ELSE Packet(a)]
WellFormed(first) == first \in Ending[Links]
ListFrom(first) == Listed[Links][first]

(* A linked list that ends in 0xffffff and links cells of RAM is sent to   *)
(* the GPU whole and in order, headers left out (doDmaLinkedList).         *)
ListIsExact ==
    [][LET first == Mask(mChannels[Gpu].base)
       IN Ends("packet") /\ WellFormed(first) => sent = ListFrom(first)]_obsVars

(* The emulator does not hang in a transfer: a block ends, and so does a   *)
(* list that is not circular, unless the program panics.                   *)
TransferEnds ==
    (\/ xfer.loop = "block"
     \/ xfer.loop = "header" /\ WellFormed(Mask(mChannels[xfer.port].base)))
    ~> (xfer = Idle \/ ~running)
-----------------------------------------------------------------------------
(* A comment that the code does not meet. *)

(* bus.cpp: the end-of-table marker "is usually 0xffffff but mednafen only *)
(* checks for the MSB": a header with bit 23 set is the last one.          *)
MarkerEndsList == [][ListNext => xfer.header.lo < LOW \div 2]_obsVars
=============================================================================

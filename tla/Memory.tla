------------------------------- MODULE Memory -------------------------------
(***************************************************************************)
(* The loads and stores of the bus (bus.cpp) in RAM (ram.cpp), the BIOS    *)
(* ROM (bios.cpp) and whatever else the memory map has.                    *)
(*                                                                         *)
(* One action is one call of Bus::load8 .. store32.  A value of n bytes is *)
(* a function on 0 .. n-1, the least significant byte at 0.  Behind the    *)
(* registers of the DMA and the GPU are the modules Dma and Gpu; here a    *)
(* load of theirs returns any word.                                        *)
(***************************************************************************)
EXTENDS MemoryMap, Sequences

CONSTANTS
    BYTE,                    \* 2^8: the values of a byte
    Addresses,               \* the addresses the CPU uses
    Values,                  \* ... and the words it stores, whole or the low part of
    Images,                  \* what the buffer of the BIOS may hold
    MaxOps                   \* bound on mOps

Byte == 0 .. BYTE - 1
Width == {1, 2, 4}
Bytes(width) == [0 .. width - 1 -> Byte]

ASSUME SizeAssumption ==
    /\ BYTE \in Nat /\ BYTE >= 2
    /\ MaxOps \in Nat

ASSUME AccessAssumption ==
    /\ Addresses \subseteq Address
    /\ Values \subseteq Bytes(4)
    /\ Images \subseteq [0 .. BIOS_SIZE - 1 -> Byte]
    /\ Base1 \in Bytes(4) /\ Base2 \in Bytes(4)
-----------------------------------------------------------------------------
VARIABLES
    mRam,       \* Ram::mData
    mBuffer,    \* Bios::mBuffer
    access,     \* observed: the last access and the device that answered it
    mOps,
    running     \* FALSE once panic has called exit

vars == <<mRam, mBuffer, access, mOps, running>>

Access == UNION {[kind : {"load", "store", "panic"}, width : {n}, addr : Address,
                  val : Bytes(n), device : Device \cup {Nowhere}] : n \in Width}

NoAccess == [kind |-> "load", width |-> 1, addr |-> [seg |-> 7, low |-> 0],
             val |-> [i \in 0 .. 0 |-> 0], device |-> Nowhere]

TypeOK ==
    /\ mRam \in [0 .. RAM_SIZE - 1 -> Byte]
    /\ mBuffer \in [0 .. BIOS_SIZE - 1 -> Byte]
    /\ access.kind \in {"load", "store", "panic"}
    /\ access.width \in Width /\ access.addr \in Address
    /\ access.val \in Bytes(access.width)
    /\ access.device \in Device \cup {Nowhere}
    /\ mOps \in 0 .. MaxOps
    /\ running \in BOOLEAN

FillVariant == \hca - 256
(* The garbage Ram::Ram fills RAM with, read as uint8_t. *)
Fill == \hca % BYTE

Init ==
    /\ mRam = [c \in 0 .. RAM_SIZE - 1 |-> Fill]
    /\ mBuffer \in Images
    /\ access = NoAccess
    /\ mOps = 0 /\ running = TRUE
-----------------------------------------------------------------------------
(* What memory gives at an offset; behind its end, anything. *)
Read(memory, size, offset, width) ==
    {val \in Bytes(width) :
        \A i \in 0 .. width - 1 : offset + i < size => val[i] = memory[offset + i]}

StoreBytesVariant(memory, offset, width, val) ==
    [c \in DOMAIN memory |-> IF offset <= c /\ c < offset + width
                             THEN val[width - 1 - (c - offset)] ELSE memory[c]]
StoreBytes(memory, offset, width, val) ==
    [c \in DOMAIN memory |-> IF offset <= c /\ c < offset + width
                             THEN val[c - offset] ELSE memory[c]]

Answers(d, offset, width) ==
    CASE d = "RAM"  -> Read(mRam, RAM_SIZE, offset, width)
      [] d = "BIOS" -> Read(mBuffer, BIOS_SIZE, offset, width)
      [] d \in {"DMA", "GPU"} -> Bytes(width)
      [] d = "EXPANSION_1" -> {[i \in 0 .. width - 1 |-> BYTE - 1]}
      [] OTHER -> {[i \in 0 .. width - 1 |-> 0]}

Accesses(kind, width, a, val, d) ==
    /\ mOps' = mOps + 1
    /\ access' = [kind |-> kind, width |-> width, addr |-> a, val |-> val, device |-> d]
    /\ UNCHANGED mBuffer

(* Of the loads of the CPU only LHU has its address checked. *)
Load(width, a) ==
    LET d == Target("load", width, a)
    IN  /\ d # Nowhere
        /\ \E val \in Answers(d, Offset(d, a), width) :
              /\ ~Refuses("load", d, Offset(d, a), val)
              /\ Accesses("load", width, a, val, d)
        /\ UNCHANGED <<mRam, running>>

(* The CPU stores words and halfwords to aligned addresses only. *)
Store(width, a, val) ==
    LET d == Target("store", width, a)
    IN  /\ a.low % width = 0
        /\ d # Nowhere /\ ~Refuses("store", d, Offset(d, a), val)
        /\ Accesses("store", width, a, val, d)
        /\ mRam' = IF d = "RAM" THEN StoreBytes(mRam, Offset(d, a), width, val)
                                ELSE mRam
        /\ UNCHANGED running

(* An access that nothing answers. *)
Panic(kind, width, a, val) ==
    LET d == Target(kind, width, a)
    IN  /\ kind = "store" => a.low % width = 0
        /\ d = Nowhere \/ Refuses(kind, d, Offset(d, a), val)
        /\ Accesses("panic", width, a, val, d)
        /\ running' = FALSE
        /\ UNCHANGED mRam

LowPart(word, width) == [i \in 0 .. width - 1 |-> word[i]]

Next ==
    /\ running /\ mOps < MaxOps
    /\ \E a \in Addresses, width \in Width :
          \/ Load(width, a)
          \/ \E word \in Values : Store(width, a, LowPart(word, width))
          \/ Panic("load", width, a, [i \in 0 .. width - 1 |-> 0])
          \/ \E word \in Values : Panic("store", width, a, LowPart(word, width))

Spec == Init /\ [][Next]_vars
-----------------------------------------------------------------------------
(* No address belongs to two devices, whichever of the six functions asks  *)
(* and in whatever order it tests the twelve ranges, which are typed in by *)
(* hand (map.cpp:14-39): loads and stores of every width meet at the same  *)
(* device.                                                                 *)
OneDevice ==
    \A d \in Device :
        Contains(MaskRegion(access.addr), Map[d]) =>
            access.device \in {d, Nowhere}

(* contains() looks at the first byte only (map.hpp:29-32), and RAM is a   *)
(* heap block: the alignment that the CPU checks must keep the last byte   *)
(* of every store in the range as well.                                    *)
StoresStayInside ==
    access.kind = "store" =>
        LET r == Map[access.device] IN
        Offset(access.device, access.addr) \in 0 .. r.size - access.width

(* A program never dies of an access to RAM, of any width and in any of    *)
(* the three segments RAM is seen in (map.hpp:10-20).                      *)
RamAnswers ==
    ~running => ~(access.addr.seg \in {0, 4, 5} /\ access.addr.low < RAM_SIZE)

(* RAM is one little endian array in all segments and widths (FlatMemory). *)
Flat == INSTANCE FlatMemory WITH Size <- RAM_SIZE, cells <- mRam
FlatRam == Flat!Spec
=============================================================================

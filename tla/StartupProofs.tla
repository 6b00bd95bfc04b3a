--------------------------- MODULE StartupProofs ---------------------------
(***************************************************************************)
(* Proofs about the life of the process, for any keys and any batch:       *)
(* OpenGL is never called without a context, faults are reported, programs *)
(* run on a complete machine, what is left at exit, and that the input     *)
(* follows the user.                                                       *)
(***************************************************************************)
EXTENDS Startup, TLAPS

-----------------------------------------------------------------------------
(* The inductive invariant: what is there at each stage of main().         *)

BeforeGlad == {"signals", "ram", "bios", "glfw", "window"}
BeforeCompile == BeforeGlad \cup {"glad", "vertex"}
Compiled == {"bind", "buffers"}
Running == {"load", "run", "poll", "renderer"}
Down == {"close", "free", "exited"}

MemoryStage ==
    /\ pc = "bios" => heap = {"ram"}
    /\ pc \in {"signals", "ram"} => heap = {}
    /\ pc \notin {"signals", "ram", "bios", "handling"} \cup Ended => heap = Buffers
    /\ pc = "exited" => heap = {}

WindowStage ==
    /\ pc \in BeforeGlad => ~context
    /\ pc = "glad" => (context => glfw /\ mNativeWindow)
    /\ pc \in {"vertex", "fragment", "link"} \cup Compiled \cup Running =>
          glfw /\ mNativeWindow /\ context /\ loaded
    /\ pc \in Down => ~glfw

Outcomes == {"vertex", "fragment", "link", "linked"}

GraphicsStage ==
    /\ pc \in BeforeCompile => objects = {} /\ mProgramId = Zero
    /\ pc = "fragment" => objects = {"program", "vertex"} /\ mProgramId = Zero
    /\ pc = "link" => objects = {"program"} \cup Shaders /\ mProgramId = Zero
    /\ pc \in Compiled \cup Running => outcome \in Outcomes
    /\ pc \in Compiled => objects = Lost \cup IF outcome = "linked" THEN {"program"} ELSE {}
    /\ pc \in Running =>
          objects = Lost \cup {"vao", "vbo"} \cup
                       IF outcome = "linked" THEN {"program"} ELSE {}
    /\ pc \in Compiled \cup Running =>
          mProgramId = IF outcome = "linked" THEN Named ELSE Invalid
    /\ pc \in Down \cup {"terminate"} => objects = Lost /\ mProgramId = Invalid

HandlerStage == pc \notin {"signals", "panicked", "killed"} => handler

IInv ==
    /\ pc \in Stages
    /\ HandlerStage
    /\ MemoryStage
    /\ WindowStage
    /\ GraphicsStage
-----------------------------------------------------------------------------
LEMMA Initially == Init => IInv
BY DEF Init, IInv, HandlerStage, Ended, MemoryStage, WindowStage, GraphicsStage, Stages, BeforeGlad,
       BeforeCompile, Compiled, Running, Down, Zero, Named, Buffers

(* The constructors and the start of GLFW. *)
LEMMA StartStep ==
    ASSUME IInv, MakeRam \/ MakeBios \/ InitGlfw \/ InitWindow \/ LoadGl
    PROVE  IInv'
<1> USE DEF IInv, HandlerStage, Ended, Stages, BeforeGlad, BeforeCompile, Compiled, Running, Down,
            Step, Panic, memory, window, graphics, Zero, Named, Invalid
<1>1. pc' \in Stages /\ HandlerStage'
  BY DEF MakeRam, MakeBios, Malloc, InitGlfw, InitWindow, LoadGl
<1>2. MemoryStage'
  BY DEF MemoryStage, MakeRam, MakeBios, Malloc, InitGlfw, InitWindow, LoadGl, Buffers
<1>3. WindowStage'
  BY DEF WindowStage, MakeRam, MakeBios, Malloc, InitGlfw, InitWindow, LoadGl
<1>4. GraphicsStage'
  BY DEF GraphicsStage, MakeRam, MakeBios, Malloc, InitGlfw, InitWindow, LoadGl
<1>5. QED
  BY <1>1, <1>2, <1>3, <1>4

(* compileAndLink and the buffers of the renderer. *)
LEMMA CompileStep ==
    ASSUME IInv, CompileVertex \/ CompileFragment \/ Link \/ Bind \/ MakeBuffers
    PROVE  IInv'
<1> USE DEF IInv, HandlerStage, Ended, Stages, BeforeGlad, BeforeCompile, Compiled, Running, Down, Step,
            Graphics, memory, window, graphics, Zero, Named, Invalid
<1>1. pc' \in Stages /\ HandlerStage'
  BY DEF CompileVertex, CompileFragment, Link, Bind, MakeBuffers
<1>2. MemoryStage'
  BY DEF MemoryStage, CompileVertex, CompileFragment, Link, Bind, MakeBuffers
<1>3. WindowStage'
  BY DEF WindowStage, CompileVertex, CompileFragment, Link, Bind, MakeBuffers
<1>4. GraphicsStage'
  <2> USE DEF GraphicsStage, Lost, Outcomes, Shaders
  <2>1. CASE CompileVertex
    BY <2>1 DEF CompileVertex, Failed, DestroyProgram
  <2>2. CASE CompileFragment
    BY <2>2 DEF CompileFragment, Failed, DestroyProgram
  <2>3. CASE Link
    BY <2>3 DEF Link, Linked, LinkId
  <2>4. CASE Bind
    BY <2>4 DEF Bind
  <2>5. CASE MakeBuffers
    BY <2>5 DEF MakeBuffers
  <2>6. QED
    BY <2>1, <2>2, <2>3, <2>4, <2>5
<1>5. QED
  BY <1>1, <1>2, <1>3, <1>4

(* The handler, the main loop and the user touch neither memory nor window *)
(* nor objects.                                                            *)
LEMMA RunStep ==
    ASSUME IInv, \/ SetupSigAct \/ CritErrHdlr \/ LoadBios \/ Instruction \/ Display
                 \/ Poll \/ Look \/ User \/ Fault
    PROVE  IInv'
<1> USE DEF IInv, HandlerStage, Ended, Stages, BeforeGlad, BeforeCompile, Compiled,
            Running, Down, Step, Panic, Everything, memory, window, graphics
<1>1. pc' \in Stages /\ HandlerStage'
  BY DEF SetupSigAct, CritErrHdlr, LoadBios, Instruction, Display, Poll, Look, User, Fault
<1>2. MemoryStage'
  BY DEF MemoryStage, SetupSigAct, CritErrHdlr, LoadBios, Instruction, Display, Poll,
         Look, User, Fault
<1>3. WindowStage'
  BY DEF WindowStage, SetupSigAct, CritErrHdlr, LoadBios, Instruction, Display, Poll,
         Look, User, Fault
<1>4. GraphicsStage'
  BY DEF GraphicsStage, Lost, SetupSigAct, CritErrHdlr, LoadBios, Instruction, Display,
         Poll, Look, User, Fault
<1>5. QED
  BY <1>1, <1>2, <1>3, <1>4

(* The destructors. *)
LEMMA ExitStep ==
    ASSUME IInv, DestroyRenderer \/ Terminate \/ DestroyWindow \/ FreeBuffers
    PROVE  IInv'
<1> USE DEF IInv, HandlerStage, Ended, Stages, BeforeGlad, BeforeCompile, Compiled, Running, Down, Step,
            memory, window, graphics, Named, Invalid
<1>1. pc' \in Stages /\ HandlerStage'
  BY DEF DestroyRenderer, Terminate, DestroyWindow, FreeBuffers
<1>2. MemoryStage'
  BY DEF MemoryStage, DestroyRenderer, Terminate, DestroyWindow, FreeBuffers, Freed, Buffers
<1>3. WindowStage'
  BY DEF WindowStage, DestroyRenderer, Terminate, DestroyWindow, FreeBuffers
<1>4. GraphicsStage'
  BY DEF GraphicsStage, Lost, Outcomes, DestroyRenderer, Terminate, DestroyWindow, FreeBuffers,
         DestroyedRenderer, DestroyProgram
<1>5. QED
  BY <1>1, <1>2, <1>3, <1>4

LEMMA Inductive == IInv /\ [Next]_vars => IInv'
<1> SUFFICES ASSUME IInv, [Next]_vars PROVE IInv'
  OBVIOUS
<1>1. CASE Next
  BY <1>1, StartStep, CompileStep, RunStep, ExitStep DEF Next, Main, CallsGl
<1>2. CASE UNCHANGED vars
  BY <1>2 DEF vars, memory, window, graphics, IInv, HandlerStage, MemoryStage, WindowStage,
              GraphicsStage, Lost
<1>3. QED
  BY <1>1, <1>2

LEMMA Always == Spec => []IInv
BY Initially, Inductive, PTL DEF Spec
-----------------------------------------------------------------------------
(* The input: what the callbacks will have after the events that wait is   *)
(* what the user has left.                                                 *)

Arrives(what, now, wanted) ==
    \/ now = wanted /\ \A n \in DOMAIN events : events[n].what # what
    \/ \E n \in DOMAIN events : events[n] = Event(what, wanted) /\ Last(n)

InputInv ==
    /\ \A id \in KnownButtons : IsDown(id) <=> id \in held
    /\ \A id \in KnownKeys : IsDown(id) => id \in held
    /\ Arrives("resize", viewport, size)
    /\ Arrives("move", cursor, pointer)

TypedInput == TypeOK /\ InputInv

(* The parts of TypeOK but for the input. *)
PlaceType == pc \in Stages /\ count \in 0 .. Batch
FlagType ==
    /\ handler \in BOOLEAN
    /\ glfw \in BOOLEAN /\ mNativeWindow \in BOOLEAN
    /\ context \in BOOLEAN /\ loaded \in BOOLEAN
StoreType ==
    /\ heap \subseteq Buffers /\ image \in {"garbage", "bios"}
    /\ objects \subseteq Objects
    /\ mProgramId \in {Zero, Named, Invalid}
    /\ outcome \in {"none", "vertex", "fragment", "link", "linked"}

LEMMA LatestArrives ==
    ASSUME TypeOK, NEW what, NEW now, NEW wanted \in Sizes \cup Places,
           Arrives(what, now, wanted)
    PROVE  Latest(what, now) = wanted
<1>1. CASE \A n \in DOMAIN events : events[n].what # what
  BY <1>1 DEF Latest, Arrives, Event
<1>2. CASE ~\A n \in DOMAIN events : events[n].what # what
  <2>1. PICK n \in DOMAIN events : events[n] = Event(what, wanted) /\ Last(n)
    BY <1>2 DEF Arrives
  <2>2. ASSUME NEW id, NEW m \in DOMAIN events, events[m] = Event(what, id), Last(m)
        PROVE  id = wanted
    <3>1. m \in 1 .. Len(events) /\ n \in 1 .. Len(events)
      BY DEF TypeOK
    <3>2. ~(m < n) /\ ~(n < m)
      BY <2>1, <2>2, <3>1 DEF Last, Event
    <3>3. m = n
      BY <3>1, <3>2
    <3>4. QED
      BY <2>1, <2>2, <3>3 DEF Event
  <2>3. \A id : (\E m \in DOMAIN events : events[m] = Event(what, id) /\ Last(m))
                  <=> id = wanted
    BY <2>1, <2>2
  <2>4. QED
    BY <1>2, <2>3 DEF Latest
<1>3. QED
  BY <1>1, <1>2

LEMMA Appended ==
    ASSUME TypeOK, NEW e \in Events, events' = Append(events, e)
    PROVE  /\ events' \in Seq(Events) /\ events' # <<>>
           /\ Len(events') = Len(events) + 1
           /\ DOMAIN events = 1 .. Len(events)
           /\ DOMAIN events' = 1 .. Len(events) + 1
           /\ events'[Len(events) + 1] = e
           /\ \A k \in DOMAIN events : events'[k] = events[k]
BY DEF TypeOK

LEMMA DownAfter ==
    ASSUME TypeOK, NEW e \in Events, events' = Append(events, e), UNCHANGED pressed,
           NEW id
    PROVE  IsDown(id)' <=> /\ id \in KnownKeys \cup KnownButtons
                           /\ IF e.id = id THEN e = Event("press", id) ELSE IsDown(id)
<1>1. PICK last \in Nat : last = Len(events) + 1
  BY DEF TypeOK
<1>2. /\ Len(events') = last /\ Len(events) \in Nat
      /\ DOMAIN events = 1 .. Len(events) /\ DOMAIN events' = 1 .. last
      /\ events'[last] = e
      /\ \A k \in 1 .. Len(events) : events'[k] = events[k]
  BY <1>1, Appended DEF TypeOK
<1>3. CASE e.id = id
  <2>1. \A n \in DOMAIN events' : LastOf(n)' /\ events'[n].id = id => n = last
    BY <1>2, <1>1, <1>3 DEF LastOf
  <2>2. LastOf(last)'
    BY <1>2, <1>1 DEF LastOf
  <2>3. \A n : Event("press", id).id = id
    BY DEF Event
  <2>4. (\E n \in DOMAIN events' : events'[n] = Event("press", id) /\ LastOf(n)')
           <=> e = Event("press", id)
    BY <1>2, <1>1, <2>1, <2>2, <2>3
  <2>5. ~\A n \in DOMAIN events' : events'[n].id # id
    BY <1>2, <1>1, <1>3
  <2>6. QED
    BY <1>3, <2>4, <2>5 DEF IsDown
<1>4. CASE e.id # id
  <2>1. (\A n \in DOMAIN events' : events'[n].id # id)
           <=> \A n \in DOMAIN events : events[n].id # id
    BY <1>2, <1>1, <1>4
  <2>2. \A n \in DOMAIN events : events[n].id = id => (LastOf(n)' <=> LastOf(n))
    BY <1>2, <1>1, <1>4 DEF LastOf
  <2>3. (\E n \in DOMAIN events' : events'[n] = Event("press", id) /\ LastOf(n)')
           <=> \E n \in DOMAIN events : events[n] = Event("press", id) /\ LastOf(n)
    BY <1>2, <1>1, <1>4, <2>2 DEF Event
  <2>4. QED
    BY <1>4, <2>1, <2>3 DEF IsDown
<1>5. QED
  BY <1>3, <1>4

LEMMA ArrivesAfter ==
    ASSUME TypeOK, NEW e \in Events, events' = Append(events, e),
           NEW what, NEW now, NEW wanted, NEW wanted2,
           IF e.what = what THEN e = Event(what, wanted2)
           ELSE wanted2 = wanted /\ Arrives(what, now, wanted)
    PROVE  \/ now = wanted2 /\ \A n \in DOMAIN events' : events'[n].what # what
           \/ \E n \in DOMAIN events' : events'[n] = Event(what, wanted2) /\ Last(n)'
<1>1. PICK last \in Nat : last = Len(events) + 1
  BY DEF TypeOK
<1>2. /\ Len(events') = last /\ Len(events) \in Nat
      /\ DOMAIN events = 1 .. Len(events) /\ DOMAIN events' = 1 .. last
      /\ events'[last] = e
      /\ \A k \in 1 .. Len(events) : events'[k] = events[k]
  BY <1>1, Appended DEF TypeOK
<1>3. CASE e.what = what
  <2>1. Last(last)'
    BY <1>2, <1>1 DEF Last
  <2>2. QED
    BY <1>2, <1>1, <1>3, <2>1
<1>4. CASE e.what # what
  <2>1. CASE now = wanted /\ \A n \in DOMAIN events : events[n].what # what
    BY <1>2, <1>1, <1>4, <2>1
  <2>2. CASE \E n \in DOMAIN events : events[n] = Event(what, wanted) /\ Last(n)
    <3>1. PICK n \in DOMAIN events : events[n] = Event(what, wanted) /\ Last(n)
      BY <2>2
    <3>2. Last(n)' /\ n \in DOMAIN events' /\ events'[n] = Event(what, wanted)
      BY <1>2, <1>1, <1>4, <3>1 DEF Last, Event
    <3>3. QED
      BY <1>4, <3>2
  <2>3. QED
    BY <1>4, <2>1, <2>2 DEF Arrives
<1>5. QED
  BY <1>3, <1>4

LEMMA InputInitially == Init => TypedInput
<1> SUFFICES ASSUME Init PROVE TypedInput
  OBVIOUS
<1>1. TypeOK
  <2>1. PlaceType
    BY InputAssumption DEF Init, PlaceType, Stages
  <2>2. FlagType
    BY DEF Init, FlagType
  <2>3. StoreType
    BY DEF Init, StoreType, Zero
  <2>4. events \in Seq(Events) /\ Len(events) <= MaxEvents
    BY InputAssumption DEF Init
  <2>5. QED
    BY <2>1, <2>2, <2>3, <2>4, InputAssumption DEF Init, TypeOK, PlaceType, FlagType, StoreType
<1>2. InputInv
  <2>1. events = <<>> /\ pressed = {} /\ held = {} /\ viewport = size /\ cursor = pointer
    BY DEF Init
  <2>2. DOMAIN events = {}
    BY <2>1
  <2>3. QED
    BY <2>1, <2>2 DEF InputInv, Arrives, IsDown
<1>3. QED
  BY <1>1, <1>2 DEF TypedInput

(* A poll leaves what would have arrived. *)
LEMMA PollInput ==
    ASSUME TypedInput, PollEvents
    PROVE  /\ InputInv'
           /\ pressed' \subseteq KnownKeys \cup KnownButtons
           /\ viewport' = size /\ cursor' = pointer
           /\ closing' \in BOOLEAN /\ events' \in Seq(Events) /\ Len(events') = 0
<1> USE DEF TypedInput
<1>1. events' = <<>> /\ UNCHANGED <<held, size, pointer>>
  BY DEF PollEvents, user
<1>2. viewport' = size /\ cursor' = pointer
  BY LatestArrives DEF PollEvents, InputInv, TypeOK
<1>3. \A id \in KnownKeys \cup KnownButtons : id \in pressed' <=> IsDown(id)
  BY InputAssumption DEF PollEvents
<1>4. \A id \in KnownKeys \cup KnownButtons : IsDown(id)' <=> id \in pressed'
  BY <1>1 DEF IsDown
<1>5. InputInv'
  BY <1>1, <1>2, <1>3, <1>4 DEF InputInv, Arrives
<1>6. pressed' \subseteq KnownKeys \cup KnownButtons
  BY DEF PollEvents, IsDown
<1>7. QED
  BY <1>1, <1>2, <1>5, <1>6 DEF PollEvents

(* A press, release, repeat, resize, move or close. *)
LEMMA UserInput ==
    ASSUME TypedInput, User
    PROVE  InputInv' /\ TypeOK' /\ events' # <<>>
<1> USE DEF TypedInput
<1>1. PICK e \in Events :
        /\ events' = Append(events, e)
        /\ \/ \E id \in (Keys \cup Buttons) \ held :
                 e = Event("press", id) /\ held' = held \cup {id} /\ UNCHANGED <<size, pointer>>
           \/ \E id \in held :
                 e = Event("release", id) /\ held' = held \ {id} /\ UNCHANGED <<size, pointer>>
           \/ \E id \in held \cap Keys : e = Event("repeat", id) /\ UNCHANGED user
           \/ \E s \in Sizes : e = Event("resize", s) /\ size' = s /\ UNCHANGED <<held, pointer>>
           \/ \E at \in Places : e = Event("move", at) /\ pointer' = at /\ UNCHANGED <<held, size>>
           \/ e = Event("close", "window") /\ UNCHANGED user
  BY DEF User, Press, Release, Repeat, Resize, Move, Close, Post, Events, Event, TypeOK
<1>0. TypeOK /\ e \in Events /\ events' = Append(events, e)
  BY <1>1
<1>2. UNCHANGED <<closing, pressed, viewport, cursor>> /\ Len(events) < MaxEvents
      /\ UNCHANGED <<pc, handler, memory, window, graphics, count>>
  BY DEF User, callbacks
<1>3. events' \in Seq(Events) /\ events' # <<>> /\ Len(events') <= MaxEvents
  <2>1. Len(events) \in Nat /\ MaxEvents \in Nat
    BY InputAssumption DEF TypeOK
  <2>2. QED
    BY <1>1, <1>2, <2>1, Appended
<1>4. TypeOK'
  BY <1>1, <1>2, <1>3 DEF TypeOK, memory, window, graphics, user
<1>5. \A id \in KnownButtons : IsDown(id)' <=> id \in held'
  <2> TAKE id \in KnownButtons
  <2>1. IsDown(id)' <=> IF e.id = id THEN e = Event("press", id) ELSE IsDown(id)
    BY <1>1, <1>2, DownAfter
  <2>2. IsDown(id) <=> id \in held
    BY DEF InputInv
  <2>3. QED
    BY <1>1, <2>1, <2>2, InputAssumption DEF Event, user
<1>6. \A id \in KnownKeys : IsDown(id)' => id \in held'
  <2> TAKE id \in KnownKeys
  <2>1. IsDown(id)' <=> IF e.id = id THEN e = Event("press", id) ELSE IsDown(id)
    BY <1>1, <1>2, DownAfter
  <2>2. IsDown(id) => id \in held
    BY DEF InputInv
  <2>3. QED
    BY <1>1, <2>1, <2>2, InputAssumption DEF Event, user
<1>7. Arrives("resize", viewport, size)'
  <2>1. IF e.what = "resize" THEN e = Event("resize", size')
        ELSE size' = size /\ Arrives("resize", viewport, size)
    BY <1>1 DEF Event, user, InputInv
  <2>2. \/ viewport = size' /\ \A n \in DOMAIN events' : events'[n].what # "resize"
        \/ \E n \in DOMAIN events' : events'[n] = Event("resize", size') /\ Last(n)'
    BY <1>0, <2>1, ArrivesAfter DEF Last
  <2>3. QED
    BY <1>2, <2>2 DEF Arrives
<1>8. Arrives("move", cursor, pointer)'
  <2>1. IF e.what = "move" THEN e = Event("move", pointer')
        ELSE pointer' = pointer /\ Arrives("move", cursor, pointer)
    BY <1>1 DEF Event, user, InputInv
  <2>2. \/ cursor = pointer' /\ \A n \in DOMAIN events' : events'[n].what # "move"
        \/ \E n \in DOMAIN events' : events'[n] = Event("move", pointer') /\ Last(n)'
    BY <1>0, <2>1, ArrivesAfter DEF Last
  <2>3. QED
    BY <1>2, <2>2 DEF Arrives
<1>9. QED
  BY <1>3, <1>4, <1>5, <1>6, <1>7, <1>8 DEF InputInv

(* All other steps leave the input alone. *)
LEMMA OtherInput == TypedInput /\ UNCHANGED input /\ PlaceType' /\ FlagType' /\ StoreType' => TypedInput'
<1> SUFFICES ASSUME TypedInput, UNCHANGED input, PlaceType', FlagType', StoreType' PROVE TypedInput'
  OBVIOUS
<1> USE DEF input, callbacks, user
<1>1. InputInv'
  BY DEF TypedInput, InputInv, Arrives, IsDown, Last, LastOf
<1>2. TypeOK'
  BY DEF TypedInput, TypeOK, PlaceType, FlagType, StoreType
<1>3. QED
  BY <1>1, <1>2 DEF TypedInput

LEMMA InputStep == TypedInput /\ [Next]_vars => TypedInput'
<1> SUFFICES ASSUME TypedInput, [Next]_vars PROVE TypedInput'
  OBVIOUS
<1> USE DEF memory, window, graphics, input, callbacks, user
<1>1. CASE User
  BY <1>1, UserInput DEF TypedInput
<1>2. CASE Poll \/ Display
  <2>1. PollEvents
    BY <1>2 DEF Poll, Display
  <2>2. TypeOK'
    <3>1. pc' \in Stages /\ UNCHANGED <<handler, memory, window, graphics>>
      BY <1>2 DEF Poll, Display, Step, Stages
    <3>2. count' \in 0 .. Batch
      BY <1>2, InputAssumption DEF Poll, Display, TypedInput, TypeOK
    <3>3. UNCHANGED user
      BY <2>1 DEF PollEvents
    <3>4. Len(events') <= MaxEvents
      BY <2>1, PollInput, InputAssumption
    <3>5. QED
      BY <2>1, <3>1, <3>2, <3>3, <3>4, PollInput DEF TypedInput, TypeOK
  <2>3. QED
    BY <2>1, <2>2, PollInput DEF TypedInput
<1>3. CASE SetupSigAct \/ CritErrHdlr \/ Fault
  <2>1. PlaceType'
    BY <1>3, InputAssumption
       DEF SetupSigAct, CritErrHdlr, Fault, Everything, Step, TypedInput, TypeOK, PlaceType, Stages, Ended
  <2>3. FlagType'
    BY <1>3 DEF SetupSigAct, CritErrHdlr, Fault, Everything, Step, TypedInput, TypeOK, FlagType
  <2>4. StoreType'
    BY <1>3 DEF SetupSigAct, CritErrHdlr, Fault, Everything, Step, TypedInput, TypeOK, StoreType
<2>2. UNCHANGED input
    BY <1>3 DEF SetupSigAct, CritErrHdlr, Fault, Everything
  <2>5. QED
    BY <2>1, <2>2, <2>3, <2>4, OtherInput
<1>4. CASE MakeRam \/ MakeBios \/ InitGlfw \/ InitWindow \/ LoadGl \/ LoadBios
  <2>1. PlaceType'
    BY <1>4, InputAssumption
       DEF MakeRam, MakeBios, Malloc, Panic, InitGlfw, InitWindow, LoadGl, LoadBios, Step, TypedInput, TypeOK, PlaceType, Stages, Ended
  <2>3. FlagType'
    BY <1>4 DEF MakeRam, MakeBios, Malloc, Panic, InitGlfw, InitWindow, LoadGl, LoadBios, Step, TypedInput, TypeOK, FlagType
  <2>4. StoreType'
    BY <1>4 DEF MakeRam, MakeBios, Malloc, Panic, InitGlfw, InitWindow, LoadGl, LoadBios, Step, TypedInput, TypeOK, StoreType, Buffers
<2>2. UNCHANGED input
    BY <1>4 DEF MakeRam, MakeBios, Malloc, Panic, InitGlfw, InitWindow, LoadGl, LoadBios
  <2>5. QED
    BY <2>1, <2>2, <2>3, <2>4, OtherInput
<1>5. CASE CompileVertex \/ CompileFragment \/ Link \/ Bind \/ MakeBuffers
  <2>1. PlaceType'
    BY <1>5, InputAssumption
       DEF CompileVertex, CompileFragment, Link, Bind, MakeBuffers, Graphics, Step, TypedInput, TypeOK, PlaceType, Stages, Ended
  <2>3. FlagType'
    BY <1>5 DEF CompileVertex, CompileFragment, Link, Bind, MakeBuffers, Graphics, Step, TypedInput, TypeOK, FlagType
  <2>4. StoreType'
    BY <1>5 DEF CompileVertex, CompileFragment, Link, Bind, MakeBuffers, Graphics, Step, TypedInput, TypeOK, StoreType, Failed, DestroyProgram, Linked, LinkId, Objects, Shaders, Invalid, Named, Zero
<2>2. UNCHANGED input
    BY <1>5 DEF CompileVertex, CompileFragment, Link, Bind, MakeBuffers, Graphics
  <2>5. QED
    BY <2>1, <2>2, <2>3, <2>4, OtherInput
<1>6. CASE Instruction \/ Look
  <2>1. PlaceType'
    BY <1>6, InputAssumption
       DEF Instruction, Look, Step, TypedInput, TypeOK, PlaceType, Stages, Ended
  <2>3. FlagType'
    BY <1>6 DEF Instruction, Look, Step, TypedInput, TypeOK, FlagType
  <2>4. StoreType'
    BY <1>6 DEF Instruction, Look, Step, TypedInput, TypeOK, StoreType
<2>2. UNCHANGED input
    BY <1>6 DEF Instruction, Look
  <2>5. QED
    BY <2>1, <2>2, <2>3, <2>4, OtherInput
<1>7. CASE DestroyRenderer \/ Terminate \/ DestroyWindow \/ FreeBuffers
  <2>1. PlaceType'
    BY <1>7, InputAssumption
       DEF DestroyRenderer, Terminate, DestroyWindow, FreeBuffers, Step, TypedInput, TypeOK, PlaceType, Stages, Ended
  <2>3. FlagType'
    BY <1>7 DEF DestroyRenderer, Terminate, DestroyWindow, FreeBuffers, Step, TypedInput, TypeOK, FlagType
  <2>4. StoreType'
    BY <1>7 DEF DestroyRenderer, Terminate, DestroyWindow, FreeBuffers, Step, TypedInput, TypeOK, StoreType, DestroyedRenderer, DestroyProgram, Freed, Invalid, Named, Zero
<2>2. UNCHANGED input
    BY <1>7 DEF DestroyRenderer, Terminate, DestroyWindow, FreeBuffers
  <2>5. QED
    BY <2>1, <2>2, <2>3, <2>4, OtherInput
<1>8. CASE UNCHANGED vars
  BY <1>8, OtherInput DEF vars, TypedInput, TypeOK, PlaceType, FlagType, StoreType
<1>9. QED
  BY <1>1, <1>2, <1>3, <1>4, <1>5, <1>6, <1>7, <1>8 DEF Next, Main, CallsGl

LEMMA InputAlways == Spec => []TypedInput
BY InputInitially, InputStep, PTL DEF Spec

(* Events are delivered by the polls of the main loop and of display(). *)
LEMMA DeliversInRun ==
    ASSUME TypeOK, Next, events # <<>>, events' = <<>>
    PROVE  pc = "run"
<1> USE DEF memory, window, graphics, input, callbacks, user, Everything
<1>1. CASE Poll \/ Display
  BY <1>1 DEF Poll, Display, Step
<1>2. CASE User
  <2>1. PICK what, id : events' = Append(events, Event(what, id))
    BY <1>2 DEF User, Press, Release, Repeat, Resize, Move, Close, Post
  <2>2. events \in Seq(Events)
    BY DEF TypeOK
  <2>3. Len(Append(events, Event(what, id))) = Len(events) + 1 /\ Len(events) \in Nat
    BY <2>2
  <2>4. QED
    BY <2>1, <2>3
<1>3. CASE ~(Poll \/ Display \/ User)
  <2>1. UNCHANGED events
    BY <1>3 DEF Next, Main, CallsGl, SetupSigAct, CritErrHdlr, Fault, MakeRam, MakeBios,
                Malloc, Panic, InitGlfw, InitWindow, LoadGl, LoadBios, Instruction, Look,
                CompileVertex, CompileFragment, Link, Bind, MakeBuffers, Graphics,
                DestroyRenderer, Terminate, DestroyWindow, FreeBuffers
  <2>2. QED
    BY <2>1
<1>4. QED
  BY <1>1, <1>2, <1>3
-----------------------------------------------------------------------------
(* The main loop runs with both memories, a window and the renderer's      *)
(* buffers, whatever failed before (bus.cpp:6, renderer.cpp:37).           *)
THEOREM RunsOnAMachineCorrect == Spec => []RunsOnAMachine
<1>1. IInv => RunsOnAMachine
  BY DEF IInv, MemoryStage, WindowStage, GraphicsStage, RunsOnAMachine, Running, Ended
<1>2. QED
  BY <1>1, Always, PTL

(* The destructors release everything but what compileAndLink has lost     *)
(* (renderer.cpp:23-35, ram.cpp:16, bios.cpp:15).                          *)
THEOREM ReleasedAtExitCorrect == Spec => []ReleasedAtExit
<1>1. IInv => ReleasedAtExit
  BY DEF IInv, MemoryStage, WindowStage, GraphicsStage, ReleasedAtExit, Lost, Down
<1>2. QED
  BY <1>1, Always, PTL

(* Every call of OpenGL, from compileAndLink to ~Renderer and in every     *)
(* poll that delivers events, finds a context and the function pointers of *)
(* GLAD (renderer.cpp:22-90, 129-148, window.cpp:54-60).                   *)
THEOREM GlHasContextCorrect == Spec => GlHasContext
<1>1. ASSUME IInv, TypeOK, Next, CallsGl \/ Delivers
      PROVE  context /\ loaded
  <2> USE DEF IInv, WindowStage, Compiled, Running, Step
  <2>1. CASE CallsGl
    BY <1>1, <2>1 DEF CallsGl, CompileVertex, CompileFragment, Link, Bind, MakeBuffers,
                      Display, DestroyRenderer
  <2>2. CASE Delivers
    <3>1. pc = "run"
      BY <1>1, <2>2, DeliversInRun DEF Delivers
    <3>2. QED
      BY <1>1, <3>1
  <2>3. QED
    BY <1>1, <2>1, <2>2
<1>2. IInv /\ TypeOK /\ [Next]_vars => [CallsGl \/ Delivers => context /\ loaded]_vars
  BY <1>1
<1>3. QED
  BY <1>2, Always, InputAlways, PTL DEF Spec, GlHasContext, TypedInput

(* After the handler is set up a fault leads into it, and main() does not  *)
(* go on without it (backtrace.cpp:63-157, main.cpp:19).                   *)
THEOREM FaultsAreReportedCorrect == Spec => FaultsAreReported
<1>1. ASSUME IInv, Next, pc' = "killed"
      PROVE  pc \in {"signals", "handling"}
  <2>1. CASE Fault
    BY <1>1, <2>1 DEF IInv, HandlerStage, Fault, Ended
  <2>2. CASE User
    BY <1>1, <2>2 DEF User, Ended
  <2>3. CASE Main
    BY <1>1, <2>3
       DEF Main, CallsGl, SetupSigAct, CritErrHdlr, MakeRam, MakeBios, Malloc, Panic,
           InitGlfw, InitWindow, LoadGl, LoadBios, Instruction, Display, Poll, Look,
           CompileVertex, CompileFragment, Link, Bind, MakeBuffers, DestroyRenderer,
           Terminate, DestroyWindow, FreeBuffers, Step
  <2>4. QED
    BY <1>1, <2>1, <2>2, <2>3 DEF Next
<1>2. IInv /\ [Next]_vars => [pc' = "killed" => pc \in {"signals", "handling"}]_vars
  BY <1>1
<1>3. QED
  BY <1>2, Always, PTL DEF Spec, FaultsAreReported

(* The variables keep their types, for every keyboard, mouse and window.   *)
THEOREM TypeCorrect == Spec => []TypeOK
BY InputAlways, PTL DEF TypedInput

(* Once the events are delivered, buttons (but the eighth), keys, the      *)
(* mouse and the viewport are what the user has left (input.cpp:13-33,     *)
(* window.cpp:54-60).                                                      *)
THEOREM InputFollowsCorrect == Spec => []InputFollows
<1>1. TypedInput => InputFollows
  <2> SUFFICES ASSUME TypedInput, events = <<>> PROVE InputFollows
    BY DEF InputFollows
  <2>1. \A id : IsDown(id) <=> id \in pressed /\ id \in KnownKeys \cup KnownButtons
    BY DEF IsDown
  <2>2. cursor = pointer /\ viewport = size
    BY DEF TypedInput, InputInv, Arrives
  <2>3. QED
    BY <2>1, <2>2, InputAssumption DEF TypedInput, TypeOK, InputInv, InputFollows
<1>2. QED
  BY <1>1, InputAlways, PTL
=============================================================================

------------------------------ MODULE Startup ------------------------------
(***************************************************************************)
(* The life of the process: the signal handler (backtrace.cpp), the        *)
(* constructors of the bus, the RAM, the BIOS and the GPU, the start of    *)
(* GLFW and OpenGL (window.cpp, shader.cpp, shaderProgram.cpp,             *)
(* renderer.cpp), the main loop with the events of the window (main.cpp,   *)
(* window.cpp, input.cpp), and the destructors in reverse order.           *)
(*                                                                         *)
(* Any step that can fail may fail, and any may fault.  GLFW and OpenGL    *)
(* are external: a window needs an initialised library, a function of      *)
(* OpenGL a current context.  What an instruction does is in the modules   *)
(* Cpu and System.                                                         *)
(***************************************************************************)
EXTENDS Naturals, Sequences

CONSTANTS
    Keys,               \* the keys of the keyboard ...
    KnownKeys,          \* ... and those below GLFW_KEY_LAST
    Buttons,            \* the buttons of the mouse ...
    KnownButtons,       \* ... and those below GLFW_MOUSE_BUTTON_LAST
    Sizes, DefaultSize, \* of the window: 1024 by 512 is the one it opens with
    Places, Origin,     \* of the mouse: (0, 0) until it has moved
    Batch,              \* 1000000: instructions between two looks at the window
    MaxEvents           \* bound on the events that wait

ASSUME InputAssumption ==
    /\ KnownKeys \subseteq Keys /\ KnownButtons \subseteq Buttons
    /\ Keys \cap Buttons = {}
    /\ DefaultSize \in Sizes /\ Origin \in Places
    /\ (Keys \cup Buttons) \cap (Sizes \cup Places \cup {"window"}) = {}
    /\ Batch \in Nat \ {0} /\ MaxEvents \in Nat

Shaders == {"vertex", "fragment"}
Objects == Shaders \cup {"program", "vao", "vbo"}
Buffers == {"ram", "bios"}

(* Values of ShaderProgram::mProgramId: 0 of a static, a name, UINT32_MAX. *)
Zero == "zero"
Named == "program"
Invalid == "invalid"

Event(what, id) == [what |-> what, id |-> id]
Events == [what : {"press", "repeat", "release"}, id : Keys \cup Buttons]
            \cup [what : {"resize"}, id : Sizes] \cup [what : {"move"}, id : Places]
            \cup [what : {"close"}, id : {"window"}]

VARIABLES
    pc,                 \* where main() is
    handler,            \* crit_err_hdlr is the action of SIGSEGV
    heap,               \* the buffers that malloc has given out
    image,              \* what mBuffer of the BIOS holds
    glfw,               \* the library is initialised
    mNativeWindow,      \* TRUE for a window, FALSE for nullptr
    context,            \* the window's context is current
    loaded,             \* the function pointers of GLAD are set
    objects,            \* the OpenGL objects that exist
    mProgramId,
    outcome,            \* observed: the step of compileAndLink that failed
    count,              \* i of main()
    closing,            \* GLFW's close flag of the window
    pressed,            \* keyPressedData and mouseButtonPressedData
    viewport,           \* mWidth and mHeight, and what glViewport was told
    cursor,             \* mouseX and mouseY
    events,             \* the events glfwPollEvents has not delivered
    held,               \* what the user holds down
    size,               \* the window as the user has left it
    pointer             \* where the user has moved the mouse

memory == <<heap, image>>
window == <<glfw, mNativeWindow, context, loaded>>
graphics == <<objects, mProgramId, outcome>>
callbacks == <<closing, pressed, viewport, cursor>>
user == <<held, size, pointer>>
input == <<callbacks, events, user>>
vars == <<pc, handler, memory, window, graphics, count, input>>

Ended == {"exited", "panicked", "killed"}
Stages == {"signals", "ram", "bios", "glfw", "window", "glad", "vertex", "fragment",
           "link", "bind", "buffers", "load", "run", "poll", "renderer", "terminate",
           "close", "free", "handling"} \cup Ended

TypeOK ==
    /\ pc \in Stages /\ handler \in BOOLEAN
    /\ heap \subseteq Buffers /\ image \in {"garbage", "bios"}
    /\ glfw \in BOOLEAN /\ mNativeWindow \in BOOLEAN
    /\ context \in BOOLEAN /\ loaded \in BOOLEAN
    /\ objects \subseteq Objects
    /\ mProgramId \in {Zero, Named, Invalid}
    /\ outcome \in {"none", "vertex", "fragment", "link", "linked"}
    /\ count \in 0 .. Batch
    /\ closing \in BOOLEAN
    /\ pressed \subseteq KnownKeys \cup KnownButtons
    /\ viewport \in Sizes /\ cursor \in Places
    /\ events \in Seq(Events) /\ Len(events) <= MaxEvents
    /\ held \subseteq Keys \cup Buttons /\ size \in Sizes /\ pointer \in Places

Init ==
    /\ pc = "signals" /\ handler = FALSE
    /\ heap = {} /\ image = "garbage"
    /\ glfw = FALSE /\ mNativeWindow = FALSE /\ context = FALSE /\ loaded = FALSE
    /\ objects = {} /\ mProgramId = Zero /\ outcome = "none"
    /\ count = 0
    /\ closing = FALSE /\ pressed = {} /\ events = <<>> /\ held = {}
    /\ viewport = DefaultSize /\ size = DefaultSize
    /\ cursor = Origin /\ pointer = Origin

Step(from, to) == pc = from /\ pc' = to /\ UNCHANGED handler

(* panic: exit() runs no destructor of main()'s variables. *)
Panic(from) == Step(from, "panicked") /\ UNCHANGED <<memory, window, graphics, count, input>>
-----------------------------------------------------------------------------
(* backtrace.cpp *)
Everything == <<memory, window, graphics, count, input>>

SetupSigActVariant ==
    /\ pc = "signals" /\ pc' = "ram"
    /\ handler' \in BOOLEAN
    /\ UNCHANGED Everything
(* setupSigAct: without a handler the process does not start. *)
SetupSigAct ==
    /\ pc = "signals"
    /\ \/ pc' = "ram" /\ handler' = TRUE
       \/ pc' = "panicked" /\ UNCHANGED handler
    /\ UNCHANGED Everything

(* An access the machine refuses: a fault of main(), of GLFW, of a driver. *)
Fault ==
    /\ pc \notin Ended \cup {"handling"}
    /\ pc' = IF handler THEN "handling" ELSE "killed"
    /\ UNCHANGED <<handler, Everything>>

(* crit_err_hdlr prints the calls and exits.  SIGSEGV is blocked in it: a  *)
(* fault on the way is the end.                                            *)
CritErrHdlr ==
    /\ pc = "handling"
    /\ pc' \in {"panicked", "killed"}
    /\ UNCHANGED <<handler, Everything>>
-----------------------------------------------------------------------------
MallocVariant(buffer, from, to) ==
    /\ Step(from, to)
    /\ heap' \in {heap, heap \cup {buffer}}
    /\ UNCHANGED <<image, window, graphics, count, input>>
(* The constructors of the members of the bus. *)
Malloc(buffer, from, to) ==
    \/ /\ Step(from, to)
       /\ heap' = heap \cup {buffer}
       /\ UNCHANGED <<image, window, graphics, count, input>>
    \/ Panic(from)

MakeRam  == Malloc("ram", "ram", "bios")
MakeBios == Malloc("bios", "bios", "glfw")

(* Renderer::init does not look at the result of glfwInit. *)
InitGlfw ==
    /\ Step("glfw", "window")
    /\ glfw' \in BOOLEAN
    /\ UNCHANGED <<memory, mNativeWindow, context, loaded, graphics, count, input>>

(* Window::init; renderer.cpp goes on without a window. *)
InitWindow ==
    /\ Step("window", "glad")
    /\ \/ /\ glfw
          /\ mNativeWindow' = TRUE /\ context' = TRUE
          /\ UNCHANGED glfw
       \/ glfw' = FALSE /\ UNCHANGED <<mNativeWindow, context>>
    /\ UNCHANGED <<memory, loaded, graphics, count, input>>

LoadGlVariant ==
    /\ Step("glad", "vertex")
    /\ loaded' = context
    /\ UNCHANGED <<memory, glfw, mNativeWindow, context, graphics, count, input>>
(* GLAD finds no function without a context; its failure ends the process. *)
LoadGl ==
    \/ /\ Step("glad", "vertex")
       /\ context
       /\ loaded' = TRUE
       /\ UNCHANGED <<memory, glfw, mNativeWindow, context, graphics, count, input>>
    \/ /\ Step("glad", "panicked")
       /\ glfw' = FALSE /\ context' = FALSE
       /\ UNCHANGED <<memory, mNativeWindow, loaded, graphics, count, input>>
-----------------------------------------------------------------------------
(* compileAndLink. *)
Graphics == UNCHANGED <<memory, window, count, input>>

(* ShaderProgram::destroy *)
DestroyProgram(objs, id) == IF id = Named THEN objs \ {"program"} ELSE objs

(* A failed step: Renderer::init destroys what mProgramId names, and says  *)
(* "exiting early", but goes on.                                           *)
Failed(shader, objs) ==
    /\ objects' = DestroyProgram(objs, mProgramId)
    /\ mProgramId' = Invalid
    /\ outcome' = shader

(* The program is there before its first shader; no failure but that of    *)
(* the link deletes it.                                                    *)
CompileVertex ==
    /\ Graphics
    /\ \/ /\ Step("vertex", "fragment")
          /\ objects' = objects \cup {"program", "vertex"}
          /\ UNCHANGED <<mProgramId, outcome>>
       \/ /\ Step("vertex", "bind")
          /\ Failed("vertex", objects \cup {"program"})

CompileFragment ==
    /\ Graphics
    /\ \/ /\ Step("fragment", "link")
          /\ objects' = objects \cup {"fragment"}
          /\ UNCHANGED <<mProgramId, outcome>>
       \/ /\ Step("fragment", "bind")
          /\ Failed("fragment", objects)

(* Both shaders are destroyed. *)
Linked == objects \ Shaders

LinkId(success) == IF success THEN Named ELSE Invalid

Link ==
    /\ Graphics
    /\ Step("link", "bind")
    /\ \E success \in BOOLEAN :
          /\ objects' = IF success THEN Linked ELSE Linked \ {"program"}
          /\ mProgramId' = LinkId(success)
          /\ outcome' = IF success THEN "linked" ELSE "link"

(* glUseProgram of whatever mProgramId is. *)
Bind ==
    /\ Graphics
    /\ Step("bind", "buffers")
    /\ UNCHANGED graphics

MakeBuffers ==
    /\ Graphics
    /\ Step("buffers", "load")
    /\ objects' = objects \cup {"vao", "vbo"}
    /\ UNCHANGED <<mProgramId, outcome>>

(* Bus::Bus: a file that is not there ends the process in check(); one of  *)
(* another size leaves the buffer as malloc gave it, and is accepted.      *)
LoadBios ==
    \/ /\ Step("load", "run")
       /\ image' \in {"garbage", "bios"}
       /\ UNCHANGED <<heap, window, graphics, count, input>>
    \/ Panic("load")
-----------------------------------------------------------------------------
(* main() and the events of the window. *)

Last(n) == \A k \in n + 1 .. Len(events) : events[k].what # events[n].what
LastOf(n) == \A k \in n + 1 .. Len(events) : events[k].id # events[n].id

IsDownVariant(id) ==
    /\ id \in KnownKeys \cup KnownButtons
    /\ \E n \in DOMAIN events : events[n] = Event("press", id)
IsDownUnchecked(id) ==
    id \in Keys \cup Buttons /\ \E n \in DOMAIN events : events[n].id = id
(* keyCallback and mouseButtonCallback, for all events of a poll: down is  *)
(* what was pressed, and neither released nor repeated since.  The arrays  *)
(* end before the last key and the eighth button: these stay up.           *)
IsDown(id) ==
    /\ id \in KnownKeys \cup KnownButtons
    /\ \/ id \in pressed /\ \A n \in DOMAIN events : events[n].id # id
       \/ \E n \in DOMAIN events : events[n] = Event("press", id) /\ LastOf(n)

(* resizeCallback, which calls glViewport, and mouseCallback.  The scroll  *)
(* callback is never installed.                                            *)
Latest(what, now) ==
    IF \A n \in DOMAIN events : events[n].what # what THEN now
    ELSE CHOOSE id \in Sizes \cup Places :
            \E n \in DOMAIN events : events[n] = Event(what, id) /\ Last(n)

(* glfwPollEvents *)
PollEvents ==
    /\ pressed' = {id \in Keys \cup Buttons : IsDown(id)}
    /\ viewport' = Latest("resize", viewport)
    /\ cursor' = Latest("move", cursor)
    /\ closing' = (closing \/ \E n \in DOMAIN events : events[n].what = "close")
    /\ events' = <<>>
    /\ UNCHANGED user

Instruction ==
    /\ count < Batch
    /\ \/ Step("run", "run") /\ count' = count + 1
       \/ Step("run", "panicked") /\ UNCHANGED count
    /\ UNCHANGED <<memory, window, graphics, input>>

(* An instruction that makes the GPU display: Renderer::display polls too. *)
Display ==
    /\ count < Batch
    /\ Step("run", "run") /\ count' = count + 1
    /\ PollEvents
    /\ UNCHANGED <<memory, window, graphics>>

Poll ==
    /\ count = Batch
    /\ Step("run", "poll")
    /\ PollEvents
    /\ count' = 0
    /\ UNCHANGED <<memory, window, graphics>>

ShouldCloseVariant == ~mNativeWindow
(* Window::shouldClose; nothing sets mShouldClose. *)
ShouldClose == ~mNativeWindow \/ closing

Look ==
    /\ Step("poll", IF ShouldClose THEN "renderer" ELSE "run")
    /\ UNCHANGED <<memory, window, graphics, count, input>>

(* The user.  Only a window has events. *)
Post(what, id) == events' = Append(events, Event(what, id))
Press(id) ==
    Post("press", id) /\ held' = held \cup {id} /\ UNCHANGED <<size, pointer>>
Release(id) ==
    Post("release", id) /\ held' = held \ {id} /\ UNCHANGED <<size, pointer>>
Repeat(id) == Post("repeat", id) /\ UNCHANGED user
Resize(s) == Post("resize", s) /\ size' = s /\ UNCHANGED <<held, pointer>>
Move(at) == Post("move", at) /\ pointer' = at /\ UNCHANGED <<held, size>>
Close == Post("close", "window") /\ UNCHANGED user

User ==
    /\ mNativeWindow /\ glfw /\ pc \notin Ended
    /\ Len(events) < MaxEvents
    /\ \/ \E id \in (Keys \cup Buttons) \ held : Press(id)
       \/ \E id \in held : Release(id)
       \/ \E id \in held \cap Keys : Repeat(id)
       \/ \E s \in Sizes : Resize(s)
       \/ \E at \in Places : Move(at)
       \/ Close
    /\ UNCHANGED <<pc, handler, memory, window, graphics, count, callbacks>>
-----------------------------------------------------------------------------
DestroyRendererVariant == objects \ {"vao", "vbo"}
DestroyedRenderer == DestroyProgram(objects, mProgramId) \ {"vao", "vbo"}

(* ~Renderer: the objects of OpenGL first ... *)
DestroyRenderer ==
    /\ Step("renderer", "terminate")
    /\ objects' = DestroyedRenderer
    /\ mProgramId' = Invalid
    /\ UNCHANGED <<memory, window, outcome, count, input>>

(* ... then glfwTerminate, which takes the window and its context along. *)
Terminate ==
    /\ Step("terminate", "close")
    /\ glfw' = FALSE /\ context' = FALSE
    /\ UNCHANGED <<memory, mNativeWindow, loaded, graphics, count, input>>

(* ~Window: glfwDestroyWindow does nothing any more: the library is down. *)
DestroyWindow ==
    /\ Step("close", "free")
    /\ UNCHANGED <<memory, window, graphics, count, input>>

(* ~Bios and ~Ram *)
Freed == heap \ {"bios", "ram"}

FreeBuffers ==
    /\ Step("free", "exited")
    /\ heap' = Freed
    /\ UNCHANGED <<image, window, graphics, count, input>>

CallsGl ==
    \/ CompileVertex \/ CompileFragment \/ Link \/ Bind \/ MakeBuffers
    \/ Display \/ DestroyRenderer

Main ==
    \/ SetupSigAct \/ CritErrHdlr
    \/ MakeRam \/ MakeBios \/ InitGlfw \/ InitWindow \/ LoadGl
    \/ CallsGl \/ LoadBios
    \/ Instruction \/ Poll \/ Look
    \/ Terminate \/ DestroyWindow \/ FreeBuffers

Next == Main \/ User \/ Fault

Spec == Init /\ [][Next]_vars

(* main() is the only thread and waits for nothing. *)
FairSpec == Spec /\ WF_vars(Main)
-----------------------------------------------------------------------------
(* OpenGL is called through the pointers of GLAD and with a context,       *)
(* whichever steps before have failed: renderer.cpp:38-47 gives up after   *)
(* GLAD only, which must cover a failed glfwInit and a missing window, and *)
(* the destructor must come before glfwTerminate (renderer.cpp:22-34).     *)
(* Events call it as well: resizeCallback, in every poll (window.cpp:59).  *)
Delivers == events # <<>> /\ events' = <<>>
GlHasContext == [][CallsGl \/ Delivers => context /\ loaded]_vars

(* Whatever main() is doing, once it has set up its handler no fault ends  *)
(* the process without a report, unless it is in the report itself         *)
(* (backtrace.cpp:63-72, 145-157): main() must not go on without it.       *)
FaultsAreReported == [][pc' = "killed" => pc \in {"signals", "handling"}]_vars

(* What a failed compileAndLink loses: the program that no variable names, *)
(* and the vertex shader that was ready.                                   *)
Lost ==
    CASE outcome = "vertex" -> {"program"}
      [] outcome = "fragment" -> {"program", "vertex"}
      [] OTHER -> {}

(* Programs run on a machine that is there: both memories, the window and  *)
(* the buffers of the renderer, whatever has failed before.                *)
RunsOnAMachine ==
    pc \in {"run", "poll"} =>
        /\ heap = Buffers
        /\ mNativeWindow /\ glfw /\ context
        /\ {"vao", "vbo"} \subseteq objects

(* At a normal exit nothing is left but what a failed compileAndLink has   *)
(* lost (shaderProgram.cpp:19-32, renderer.cpp:22-35): "Always detach      *)
(* shaders after a successful link and destroy them since we don't need    *)
(* them anymore" (shaderProgram.cpp:63).                                   *)
ReleasedAtExit ==
    pc = "exited" =>
        /\ heap = {} /\ ~glfw
        /\ objects \subseteq Lost

(* Once all events are delivered the callbacks have what the user left:    *)
(* the buttons that are down are those he holds, but for the eighth, which *)
(* is GLFW_MOUSE_BUTTON_LAST and never recorded; a key is down only if he  *)
(* holds it (a repeat marks a key that is still held as released, and the  *)
(* last key is not recorded either); the mouse is where he moved it and    *)
(* the viewport is the window (input.cpp:13-33, window.cpp:54-60).         *)
InputFollows ==
    events = <<>> =>
        /\ pressed \cap Buttons = held \cap KnownButtons
        /\ pressed \cap Keys \subseteq held
        /\ cursor = pointer /\ viewport = size

(* A user who closes the window gets rid of it: main() looks at it every   *)
(* Batch instructions, and events wait until then (main.cpp:24-31).        *)
Asked == \E n \in DOMAIN events : events[n].what = "close"
CloseEnds == Asked ~> pc \in Ended
=============================================================================

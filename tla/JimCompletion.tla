--------------------------- MODULE JimCompletion ---------------------------
(***************************************************************************)
(* How a command's completion travels back through the interpreter: the    *)
(* return codes of Jim_EvalObj and JimCallProcedure, [return -level],      *)
(* [tailcall], [catch] with its signals, and jim::defer.                   *)
(*                                                                         *)
(* Three pieces of interpreter-wide state are shared by everything that is *)
(* being unwound: returnCode and returnLevel (the [return] in flight),     *)
(* sigmask with signal_level (the signal in flight), and the tailcallObj   *)
(* and tailcallCmd a callee leaves in its caller's frame.  A script is     *)
(* abstracted to the commands it may invoke next; `code' is "run" while    *)
(* the innermost script is about to invoke one, and otherwise the code     *)
(* that script has just finished with.                                     *)
(***************************************************************************)
EXTENDS Integers, Sequences, FiniteSets

CONSTANTS
    MaxEvalDepth,       \* interp.maxEvalDepth: nested command invocations
    MaxCallFrameDepth,  \* interp.maxCallFrameDepth: call frame levels
    Levels,             \* the levels scripts pass to [return -level]
    MaxDefers,          \* bound: defer scripts registered at one time
    MaxOthers,          \* bound: commands other than procedures in the stack
    Targets,            \* the commands scripts pass to [tailcall]
    ReturnCodes,        \* the codes scripts pass to [return -code]
    Scripts             \* the commands scripts use

ASSUME BoundsAssumption ==
    /\ MaxEvalDepth \in Nat \ {0} /\ MaxCallFrameDepth \in Nat \ {0}
    /\ Levels \subseteq Nat /\ MaxDefers \in Nat /\ MaxOthers \in Nat

Codes == {"ok", "err", "return", "break", "continue", "eval", "signal"}
Names == {"plain", "error", "break", "continue", "return", "tailcall", "defer",
          "throw", "proc", "catch", "loop", "uplevel", "namespace", "source"}

ASSUME InputsAssumption == Targets \cup Scripts \subseteq Names /\ ReturnCodes \subseteq Codes

VARIABLES
    stack,        \* the commands being executed, innermost last
    frames,       \* the call frames, allocated and freed in stack order
    framePtr,     \* interp.framePtr
    code,
    returnCode,   \* interp.returnCode
    returnLevel,  \* interp.returnLevel
    sigmask,      \* a handled signal has occurred (interp.sigmask # 0)
    signalLevel,  \* interp.signal_level
    aim           \* history: where the [return] in flight has to end

vars == <<stack, frames, framePtr, code, returnCode, returnLevel, sigmask,
          signalLevel, aim>>

None == "none"
NoAim == [at |-> 0, code |-> "ok", spoiled |-> FALSE]

\* A command being executed.  A procedure goes through three phases: its
\* body, its defer scripts, and the tailcall it left in its parent's frame.
Activation == [kind: {"base", "proc", "catch", "loop", "uplevel", "namespace",
                      "source"},
               phase: {"body", "defer", "tail"},
               caller: Nat \ {0},   \* the frame to return to
               ignore: SUBSET Codes,\* catch: the codes it passes through
               left: Nat,           \* defer scripts not yet started
               kept: Codes,         \* the body's code while they run
               list: Names \cup {None}, \* the tailcall being evaluated
               keptAim: [at: Nat, code: Codes, spoiled: BOOLEAN]]

CallFrame == [parent: Nat, level: Nat, defers: Nat,
              tailcallObj: Names \cup {None}, tailcallCmd: Names \cup {None},
              namespace: BOOLEAN,   \* made by [namespace eval]
              stray: BOOLEAN]       \* history: its tailcall came from such a frame

Running(kind) == [kind |-> kind, phase |-> "body", caller |-> framePtr,
                  ignore |-> {}, left |-> 0, kept |-> "ok", list |-> None,
                  keptAim |-> NoAim]

NewFrame(parent, ns) == [parent |-> parent, level |-> frames[parent].level + 1,
                         defers |-> 0, tailcallObj |-> None, tailcallCmd |-> None,
                         namespace |-> ns, stray |-> FALSE]

Frame == frames[framePtr]
Depth == Len(stack)
Top == stack[Depth]
Pop == SubSeq(stack, 1, Depth - 1)
Below == stack[Depth - 1]
SetTop(act) == [stack EXCEPT ![Depth] = act]

----------------------------------------------------------------------------
(* Where a [return] has to end, stated on the commands being executed.     *)

\* A procedure or a sourced file uses up one level, unless its body is over.
Counts(act) == act.kind = "source" \/ (act.kind = "proc" /\ act.phase # "tail")

\* The number of levels used up in s from the innermost command down to number i.
LevelsTo(s, i) == Cardinality({j \in i .. Len(s) : Counts(s[j])})

\* The command in s that a return of `level' levels ends, 0 for none: [source]
\* ends every [return].
Target(s, level) ==
    LET ends == {i \in 1 .. Len(s) : Counts(s[i])
                    /\ (LevelsTo(s, i) = level \/ s[i].kind = "source")}
    IN  IF ends = {} THEN 0 ELSE CHOOSE i \in ends : \A j \in ends : j <= i

Aim(s, level, c) == [at |-> Target(s, IF level = 0 THEN 1 ELSE level), code |-> c,
                     spoiled |-> FALSE]

----------------------------------------------------------------------------
(* Jim_EvalObj: what becomes of the code a command returned.               *)

SignalPending == sigmask' /\ signalLevel' > 0

\* The code of the script in act once a command in it has returned c: the check
\* for a signal comes after the command.  JimEvalObjList, which evaluates a
\* tailcall, is no script and does not check.
AfterCommandUnchecked(act, c) == \* mutant: only [catch] checks for a signal
    IF act.phase # "tail" /\ c = "ok" THEN "run" ELSE c

AfterCommand(act, c) ==
    IF act.phase = "tail" THEN c
    ELSE IF SignalPending THEN "signal"
    ELSE IF c = "ok" THEN "run"
    ELSE c

Quiet == UNCHANGED <<sigmask, signalLevel>>

----------------------------------------------------------------------------
(* JimInvokeCommand                                                        *)

\* The innermost script, or the tailcall of a procedure that has ended,
\* invokes a command; it is `name' that runs.
Invokes(name) ==
    /\ code = "run"
    /\ IF Frame.tailcallCmd # None THEN name = Frame.tailcallCmd
       ELSE IF Top.phase = "tail" THEN name = Top.list
       ELSE name \in Scripts

\* The frames once the command has been looked up.
Used(f) == [[f EXCEPT !.stray = @ /\ f.tailcallObj # None] EXCEPT !.tailcallCmd = None]
LookedUp == [frames EXCEPT ![framePtr] = Used(@)]

TooDeep == Depth - 1 = MaxEvalDepth

Deferred == LET n[i \in 0 .. Len(frames)] ==
                  IF i = 0 THEN 0 ELSE n[i - 1] + frames[i].defers
            IN  n[Len(frames)]
Others == Cardinality({i \in 2 .. Depth : stack[i].kind # "proc"})

\* A command that ends at once with code c.
Ends(c) == code' = AfterCommand(Top, c)

\* Any invocation beyond maxEvalDepth: "Infinite eval recursion".
RecursionLimit ==
    /\ code = "run" /\ TooDeep
    /\ Quiet
    /\ frames' = LookedUp
    /\ Ends("err")
    /\ UNCHANGED <<stack, framePtr, returnCode, returnLevel, aim>>

\* A command that does not touch the state above, [error], [break], [continue].
PlainCode == [plain |-> "ok", error |-> "err", break |-> "break",
              continue |-> "continue"]

Plain(name) ==
    /\ Invokes(name) /\ ~TooDeep
    /\ Quiet
    /\ frames' = LookedUp
    /\ Ends(PlainCode[name])
    /\ UNCHANGED <<stack, framePtr, returnCode, returnLevel, aim>>

\* [signal throw]: sets the signal and returns JIM_SIGNAL, whoever listens.
Throw ==
    /\ Invokes("throw") /\ ~TooDeep
    /\ frames' = LookedUp
    /\ sigmask' = TRUE
    /\ code' = "signal"
    /\ UNCHANGED <<stack, framePtr, returnCode, returnLevel, signalLevel, aim>>

\* [return -level level -code c].  A [return] that waits for defer scripts to
\* finish shares returnCode and returnLevel with this one.
Return(level, c) ==
    /\ Invokes("return") /\ ~TooDeep
    /\ Quiet
    /\ frames' = LookedUp
    /\ returnCode' = c
    /\ returnLevel' = level
    /\ Ends("return")
    /\ stack' = [i \in 1 .. Depth |->
                   IF stack[i].phase = "defer" /\ stack[i].kept = "return"
                   THEN [stack[i] EXCEPT !.keptAim.spoiled = TRUE]
                   ELSE stack[i]]
    /\ aim' = IF code' = "return" THEN Aim(stack, level, c) ELSE NoAim
    /\ UNCHANGED framePtr

\* [defer script]: appended to jim::defer of the frame; those of the global
\* frame wait for the interpreter to be freed and are left out.
Defer ==
    /\ Invokes("defer") /\ ~TooDeep
    /\ Quiet
    /\ framePtr > 1 /\ Deferred < MaxDefers
    /\ frames' = [LookedUp EXCEPT ![framePtr].defers = @ + 1]
    /\ Ends("ok")
    /\ UNCHANGED <<stack, framePtr, returnCode, returnLevel, aim>>

\* [tailcall target]: the command and its list are left in the parent's frame.
\* At level 0 there is none: an error.
StashedOnce(f, target) == \* mutant: a command already stashed is kept
    [f EXCEPT !.tailcallObj = target,
              !.tailcallCmd = IF f.tailcallCmd = None THEN target ELSE @]

Stashed(f, target) ==
    [[[f EXCEPT !.tailcallObj = target] EXCEPT !.tailcallCmd = target]
        EXCEPT !.stray = Frame.namespace]

Tailcall(target) ==
    /\ Invokes("tailcall") /\ ~TooDeep
    /\ Quiet
    /\ IF Frame.level = 0
       THEN frames' = LookedUp /\ Ends("err")
       ELSE /\ frames' = [LookedUp EXCEPT ![Frame.parent] =
                            Stashed(@, target)]
            /\ Ends("eval")
    /\ UNCHANGED <<stack, framePtr, returnCode, returnLevel, aim>>

\* A command that evaluates a script is pushed; fs are the frames it runs with.
Begins(act, fs, fp) ==
    /\ stack' = Append(stack, act)
    /\ frames' = fs
    /\ framePtr' = fp
    /\ code' = "run"

PastLimit == Frame.level = MaxCallFrameDepth + 1 \* mutant
AtLimit == Frame.level = MaxCallFrameDepth

\* JimCallProcedure up to the body.  Wrong arguments are an error, an empty
\* body does nothing; too many nested calls are an error.
CallProc ==
    /\ Invokes("proc") /\ ~TooDeep
    /\ Quiet
    /\ \/ /\ \E c \in {"ok", "err"} : Ends(c)
          /\ frames' = LookedUp
          /\ UNCHANGED <<stack, framePtr>>
       \/ /\ ~AtLimit
          /\ Begins(Running("proc"), Append(LookedUp, NewFrame(framePtr, FALSE)),
                    Len(frames) + 1)
    /\ UNCHANGED <<returnCode, returnLevel, aim>>

\* Jim_EvalNamespace checks the level of the frame it has just made.
NamespaceEval ==
    /\ Invokes("namespace") /\ ~TooDeep /\ Others < MaxOthers
    /\ Quiet
    /\ IF Frame.level + 1 = MaxCallFrameDepth
       THEN Ends("err") /\ frames' = LookedUp /\ UNCHANGED <<stack, framePtr>>
       ELSE Begins(Running("namespace"),
                   Append(LookedUp, NewFrame(framePtr, TRUE)), Len(frames) + 1)
    /\ UNCHANGED <<returnCode, returnLevel, aim>>

\* [while], [for], [foreach], [source file].
Evaluate(kind) ==
    /\ Invokes(kind) /\ ~TooDeep /\ Others < MaxOthers
    /\ Quiet
    /\ Begins(Running(kind), LookedUp, framePtr)
    /\ UNCHANGED <<returnCode, returnLevel, aim>>

\* [uplevel 1 script]: an error at level 0, which has no parent.
Uplevel ==
    /\ Invokes("uplevel") /\ ~TooDeep /\ Others < MaxOthers
    /\ Quiet
    /\ IF Frame.level = 0
       THEN Ends("err") /\ frames' = LookedUp /\ UNCHANGED <<stack, framePtr>>
       ELSE Begins(Running("uplevel"), LookedUp, Frame.parent)
    /\ UNCHANGED <<returnCode, returnLevel, aim>>

\* [catch] with the options that matter to the codes it ignores.  With -signal
\* it raises signal_level, and a signal that is already there keeps the body
\* from being run.
CatchIgnores == {{"eval", "signal"}, {"signal"}, {"eval"}}

Catch(ignore) ==
    /\ Invokes("catch") /\ ~TooDeep /\ Others < MaxOthers
    /\ signalLevel' = signalLevel + IF "signal" \in ignore THEN 0 ELSE 1
    /\ UNCHANGED sigmask
    /\ code' = IF SignalPending THEN "signal" ELSE "run"
    /\ stack' = Append(stack, [Running("catch") EXCEPT !.ignore = ignore])
    /\ frames' = LookedUp
    /\ UNCHANGED <<framePtr, returnCode, returnLevel, aim>>

----------------------------------------------------------------------------
(* A script ends, and the command that evaluated it takes its code.        *)

\* The innermost script has no more commands.
ScriptEnds ==
    /\ code = "run" /\ Top.phase # "tail"
    /\ Quiet
    /\ code' = "ok"
    /\ UNCHANGED <<stack, frames, framePtr, returnCode, returnLevel, aim>>

Finished(kind) == code # "run" /\ Depth > 1 /\ Top.kind = kind

\* The innermost command returns c to the script that invoked it.
Returns(c) ==
    /\ stack' = Pop
    /\ code' = AfterCommand(Below, c)

\* The [return] in flight, if one is, goes on with the code just passed up.
AimAfter(a) == IF code' = "return" THEN a ELSE NoAim

LoopEnds ==
    /\ Finished("loop")
    /\ Quiet
    /\ \/ /\ code \in {"ok", "continue"}     \* the condition holds again
          /\ code' = "run" /\ UNCHANGED <<stack, aim>>
       \/ /\ Returns(IF code \in {"ok", "continue", "break"} THEN "ok" ELSE code)
          /\ aim' = AimAfter(aim)
    /\ UNCHANGED <<frames, framePtr, returnCode, returnLevel>>

NotRestored == framePtr \* mutant
SavedCallFrame == Top.caller

UplevelEnds ==
    /\ Finished("uplevel")
    /\ Quiet
    /\ framePtr' = SavedCallFrame
    /\ Returns(code)
    /\ aim' = AimAfter(aim)
    /\ UNCHANGED <<frames, returnCode, returnLevel>>

\* Its frame is freed, and no defer script of it is run.
NamespaceEnds ==
    /\ Finished("namespace")
    /\ Quiet
    /\ framePtr' = Frame.parent
    /\ frames' = SubSeq(frames, 1, framePtr - 1)
    /\ Returns(code)
    /\ aim' = AimAfter(aim)
    /\ UNCHANGED <<returnCode, returnLevel>>

Unlistened(caught) == IF caught THEN signalLevel - 1 ELSE signalLevel \* mutant
Listened(caught) == signalLevel - 1

\* The signal it has asked for is reported and forgotten.
CatchEnds ==
    /\ Finished("catch")
    /\ LET listens == "signal" \notin Top.ignore
           caught == code \notin Top.ignore
       IN  /\ signalLevel' = IF listens THEN Listened(caught) ELSE signalLevel
           /\ sigmask' = (sigmask /\ ~(listens /\ caught /\ code = "signal"))
           /\ Returns(IF caught THEN "ok" ELSE code)
    /\ aim' = NoAim
    /\ UNCHANGED <<frames, framePtr, returnCode, returnLevel>>

\* What JimCallProcedure and Jim_EvalFile make of c when the [return] in flight
\* has `level' levels left, and the state of [return] they leave behind.
LastLevelExactly(level) == level - 1 = 0 \* mutant: a level of 0 is missed
LastLevel(level) == level - 1 <= 0

Level(c, level) ==
    IF c # "return" THEN [code |-> c, returnCode |-> returnCode, returnLevel |-> level]
    ELSE IF LastLevel(level)
    THEN [code |-> returnCode, returnCode |-> "ok", returnLevel |-> 0]
    ELSE [code |-> "return", returnCode |-> returnCode, returnLevel |-> level - 1]

\* A procedure or [source] ends one level of the [return] in flight.
EndsLevel(c, level, a, absorbs) ==
    LET r == Level(c, level)
        res == IF absorbs /\ r.code = "return" THEN "ok" ELSE r.code
        landed == c = "return" /\ LastLevel(level)
    IN  /\ Returns(res)
        /\ returnCode' = r.returnCode
        /\ returnLevel' = r.returnLevel
        /\ aim' = IF code' # "return" THEN NoAim
                  ELSE IF landed THEN Aim(Pop, 0, "ok") ELSE a

SourceEnds ==
    /\ Finished("source")
    /\ Quiet
    /\ EndsLevel(code, returnLevel, aim, TRUE)
    /\ UNCHANGED <<frames, framePtr>>

ListDropped(f) == [f EXCEPT !.tailcallObj = None] \* mutant: not the command
Dropped(f) == [[[f EXCEPT !.tailcallObj = None] EXCEPT !.tailcallCmd = None]
                 EXCEPT !.stray = FALSE]

\* JimInvokeDefer has given the procedure's code c; its frame is freed and a
\* tailcall left in the parent frame is evaluated there, or dropped.
LeavesFrame(c, a) ==
    LET parent == Frame.parent
        left == SubSeq(frames, 1, framePtr - 1)
        pending == frames[parent].tailcallObj
    IN  /\ framePtr' = parent
        /\ IF pending = None
           THEN frames' = left /\ EndsLevel(c, returnLevel, a, FALSE)
           ELSE IF c = "eval"
           THEN /\ frames' = [left EXCEPT ![parent].tailcallObj = None]
                /\ stack' = SetTop([Top EXCEPT !.phase = "tail", !.list = pending])
                /\ code' = "run"
                /\ aim' = NoAim
                /\ UNCHANGED <<returnCode, returnLevel>>
           ELSE /\ frames' = [left EXCEPT ![parent] = Dropped(@)]
                /\ EndsLevel(c, returnLevel, a, FALSE)

\* The body has ended: its defer scripts run in reverse order, in its frame.
BodyEnds ==
    /\ Finished("proc") /\ Top.phase = "body"
    /\ Quiet
    /\ IF Frame.defers = 0
       THEN LeavesFrame(code, aim)
       ELSE /\ stack' = SetTop([Top EXCEPT !.phase = "defer", !.left = Frame.defers - 1,
                                           !.kept = code, !.keptAim = aim])
            /\ code' = "run"
            /\ aim' = NoAim
            /\ UNCHANGED <<frames, framePtr, returnCode, returnLevel>>

\* A defer script has ended: the next one, unless it failed.  A failure takes
\* the place of the body's code, an error excepted.
DeferEnds ==
    /\ Finished("proc") /\ Top.phase = "defer"
    /\ Quiet
    /\ IF code = "ok" /\ Top.left > 0
       THEN /\ stack' = SetTop([Top EXCEPT !.left = @ - 1])
            /\ code' = "run"
            /\ UNCHANGED <<frames, framePtr, returnCode, returnLevel, aim>>
       ELSE IF code = "ok" \/ Top.kept = "err"
       THEN LeavesFrame(Top.kept, Top.keptAim)
       ELSE LeavesFrame(code, aim)

\* The tailcall has ended.  Its own [return] goes up to the procedure's caller,
\* so it gets a level for the procedure that is ending here.
SameLevel(c) == returnLevel \* mutant
TailcallLevel(c) == returnLevel + IF c = "return" THEN 1 ELSE 0

TailcallEnds ==
    /\ Finished("proc") /\ Top.phase = "tail"
    /\ Quiet
    /\ LET level == TailcallLevel(code)
           again == Frame.tailcallObj
       IN  IF again # None /\ code = "eval"
           THEN /\ frames' = [frames EXCEPT ![framePtr].tailcallObj = None]
                /\ stack' = SetTop([Top EXCEPT !.list = again])
                /\ code' = "run"
                /\ UNCHANGED <<returnCode, returnLevel, aim>>
           ELSE /\ frames' = [frames EXCEPT ![framePtr] = Dropped(@)]
                /\ EndsLevel(code, level, aim, FALSE)
    /\ UNCHANGED framePtr

\* The application evaluates the next script, whatever became of the last.
NextScript ==
    /\ Depth = 1 /\ code # "run"
    /\ code' = "run"
    /\ aim' = NoAim
    /\ UNCHANGED <<stack, frames, framePtr, returnCode, returnLevel, sigmask,
                   signalLevel>>

\* signal_handler, between any two steps of the interpreter.
SignalArrives ==
    /\ ~sigmask
    /\ sigmask' = TRUE
    /\ UNCHANGED <<stack, frames, framePtr, code, returnCode, returnLevel,
                   signalLevel, aim>>

----------------------------------------------------------------------------
Init ==
    /\ frames = <<[parent |-> 0, level |-> 0, defers |-> 0, tailcallObj |-> None,
                   tailcallCmd |-> None, namespace |-> FALSE, stray |-> FALSE]>>
    /\ framePtr = 1
    /\ stack = <<[kind |-> "base", phase |-> "body", caller |-> 1, ignore |-> {},
                  left |-> 0, kept |-> "ok", list |-> None, keptAim |-> NoAim]>>
    /\ code = "run"
    /\ returnCode = "ok" /\ returnLevel = 0
    /\ sigmask = FALSE /\ signalLevel = 0
    /\ aim = NoAim

Invoke ==
    \/ RecursionLimit
    \/ \E name \in DOMAIN PlainCode : Plain(name)
    \/ Throw
    \/ \E level \in Levels, c \in ReturnCodes : Return(level, c)
    \/ Defer
    \/ \E target \in Targets : Tailcall(target)
    \/ CallProc
    \/ NamespaceEval
    \/ \E kind \in {"loop", "source"} : Evaluate(kind)
    \/ Uplevel
    \/ \E ignore \in CatchIgnores : Catch(ignore)

Unwind ==
    \/ ScriptEnds \/ LoopEnds \/ UplevelEnds \/ NamespaceEnds \/ CatchEnds
    \/ SourceEnds \/ BodyEnds \/ DeferEnds \/ TailcallEnds \/ NextScript

Interpret == Invoke \/ Unwind

Next == Interpret \/ SignalArrives

Spec == Init /\ [][Next]_vars /\ WF_vars(Interpret)

----------------------------------------------------------------------------
(* Type correctness: the records above, and the bounds the code enforces.   *)
TypeOK ==
    /\ stack \in Seq(Activation) /\ Depth \in 1 .. MaxEvalDepth + 1
    /\ frames \in Seq(CallFrame) /\ framePtr \in 1 .. Len(frames)
    /\ code \in Codes \cup {"run"}
    /\ returnCode \in Codes /\ returnLevel \in Nat
    /\ sigmask \in BOOLEAN /\ signalLevel \in 0 .. MaxEvalDepth
    /\ aim \in [at: Nat, code: Codes, spoiled: BOOLEAN]

\* JimCallProcedure, tailcalls in the parent frame: whatever a callee left
\* there is used or dropped before the caller goes on.  Only a tailcall made in
\* the frame of [namespace eval], which chains no tailcalls, can outlive it.
NoStrayTailcall ==
    \A f \in 1 .. Len(frames) :
        /\ frames[f].tailcallObj # None \/ frames[f].tailcallCmd # None
        /\ ~frames[f].stray
        => \E i \in 1 .. Depth : stack[i].kind = "proc" /\ stack[i].caller = f

\* The command resolved by [tailcall] is used for the list it was stashed with
\* and never for the command a script in that frame names; the exception is a
\* script that [uplevel] or a stray tailcall brings to the frame meanwhile.
TailcallIsItsOwn ==
    code = "run" =>
        \/ Top.phase = "tail" /\ Frame.tailcallCmd \in {None, Top.list}
        \/ Top.phase # "tail" /\ (\/ Frame.tailcallCmd = None
                                  \/ Frame.stray
                                  \/ \E i \in 1 .. Depth : stack[i].kind = "uplevel")

\* [return -level n -code c] ends n procedures, counted on the commands being
\* executed, and the last of them with code c: what is left in returnLevel and
\* returnCode always agrees with where the [return] has to end.  A [return] that
\* waited for defer scripts is excepted if one of them executed a [return].
ReturnEndsItsLevels ==
    code = "return" /\ ~aim.spoiled =>
        /\ returnCode = aim.code
        /\ aim.at = Target(stack, IF returnLevel = 0 THEN 1 ELSE returnLevel)

\* interp.framePtr is the frame of the innermost command again after every
\* unwinding, and the frames left are those of what is still being executed.
OwnsFrame(act) == act.kind = "namespace" \/ (act.kind = "proc" /\ act.phase # "tail")
Owners(i) == Cardinality({j \in 1 .. i : OwnsFrame(stack[j])})
FrameOf ==
    LET f[i \in 1 .. Depth] ==
            IF i = 1 THEN 1
            ELSE IF OwnsFrame(stack[i]) THEN 1 + Owners(i)
            ELSE IF stack[i].kind = "uplevel" THEN frames[f[i - 1]].parent
            ELSE f[i - 1]
    IN  f

FramesMatchCalls == framePtr = FrameOf[Depth] /\ Len(frames) = 1 + Owners(Depth)

\* The limit on nested call frames, [proc] and [namespace eval] together: both
\* compare with `==', one before and one after it makes its frame, so that a
\* frame beyond the limit lies in one that [namespace eval] made at the limit.
CallFrameLimit ==
    \A f \in 1 .. Len(frames) : frames[f].level > MaxCallFrameDepth =>
        \E g \in 1 .. f : frames[g].namespace /\ frames[g].level = MaxCallFrameDepth + 1

\* signal_level is the number of [catch -signal] in progress, on every way out.
SignalLevelExact ==
    signalLevel = Cardinality({i \in 1 .. Depth :
                      stack[i].kind = "catch" /\ "signal" \notin stack[i].ignore})

\* Jim_EvalObj checks for a signal after each command: one that is pending
\* inside [catch -signal] is caught there, and no recursion, defer script,
\* tailcall or loop goes on for ever in spite of it.  The exception is a loop
\* whose body invokes no command, such as [while 1 {}]: it never checks.
Pending == sigmask /\ signalLevel > 0
PendingSignalIsCaught == Pending ~> (~Pending \/ [](Top.kind = "loop"))
============================================================================

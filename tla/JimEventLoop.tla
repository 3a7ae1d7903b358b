---------------------------- MODULE JimEventLoop ----------------------------
(***************************************************************************)
(* The event loop extension: [after], [vwait] and [update], which run      *)
(* passes of Jim_ProcessEvents; timer scripts are run from a pass and may  *)
(* use all three again, so that passes nest.                               *)
(*                                                                         *)
(* Times are relative: a timer has the time to go until te->when, 0 once   *)
(* it is due (a new timer goes behind all due ones, however long they have *)
(* been due).  Ids count up without bound and are compared only with the   *)
(* maxId of the passes that are running; a timer has instead the number of *)
(* those passes that began before it was created: it is new to the passes  *)
(* 1..newTo, counted from the outermost.                                   *)
(*                                                                         *)
(* No configuration header defines HAVE_SELECT, so that the part of a pass *)
(* that waits for files and runs their handlers is not compiled.           *)
(***************************************************************************)
EXTENDS Integers, Sequences, FiniteSets, SequencesExt

CONSTANTS
    Vals,       \* values of the variable that [vwait] waits for
    MaxDelay,   \* bound: the delay of a timer
    MaxTimers,  \* bound: timers in the queue
    MaxPasses   \* bound: nested passes

Unset == "unset"
ASSUME LoopAssumption ==
    /\ Unset \notin Vals
    /\ MaxDelay \in Nat /\ MaxTimers \in Nat /\ MaxPasses \in Nat

VARIABLES
    queue,      \* timeEventHead: the timers in the order they are scanned
    stack,      \* what is running: scripts, and the loops of [vwait] and [update]
    value,      \* the variable [vwait] waits for
    files       \* the file handlers: "none", "idle", or "ready" to be read

vars == <<queue, stack, value, files>>

\* ripe and marked are history: the timer was due when a scan last started at
\* the head of the queue, and it is the one a liveness property watches.
Timer(us, newTo, marked) ==
    [togo |-> us, newTo |-> newTo, ripe |-> FALSE, marked |-> marked]

\* old: the value [vwait] began with; te: the position of the scan.
Main == [kind |-> "main", old |-> Unset, phase |-> "script", sleep |-> 0, te |-> 0,
         processed |-> FALSE]
Handler == [Main EXCEPT !.kind = "handler"]
Loop(kind) == [Main EXCEPT !.kind = kind, !.old = value, !.phase = "begin"]

Top == stack[Len(stack)]
Running == Top.phase = "script"
Passes == Cardinality({i \in DOMAIN stack : stack[i].phase # "script"})
At(phase) == Top.phase = phase
Becomes(activation) == stack' = Append(Front(stack), activation)

---------------------------------------------------------------------------
(* What scripts do *)

\* Jim_CreateTimeHandler: before the first timer that is due later.
PlaceAtTail(us) == Len(queue) + 1 \* mutant
Place(us) ==
    LET later == SelectInSeq(queue, LAMBDA t : us < t.togo)
    IN  IF later = 0 THEN Len(queue) + 1 ELSE later

\* [after us script] and [after idle script].
After(us, marked) ==
    /\ Running
    /\ Len(queue) < MaxTimers
    /\ marked => \A i \in DOMAIN queue : ~queue[i].marked
    /\ queue' = InsertAt(queue, Place(us), Timer(us, Passes, marked))
    /\ UNCHANGED <<stack, value, files>>

\* [after cancel], by id or by script; the timer whose script is running is
\* not in the queue any more.
Cancel(i) ==
    /\ Running
    /\ queue' = RemoveAt(queue, i)
    /\ UNCHANGED <<stack, value, files>>

SetVariable(v) ==
    /\ Running
    /\ value' = v
    /\ UNCHANGED <<queue, stack, files>>

\* Jim_CreateFileHandler and Jim_DeleteFileHandler; a file becomes ready.
FileHandler ==
    /\ Running
    /\ files' = IF files = "none" THEN "idle" ELSE "none"
    /\ UNCHANGED <<queue, stack, value>>
FileReady ==
    /\ files = "idle"
    /\ files' = "ready"
    /\ UNCHANGED <<queue, stack, value>>

Wait(kind) ==
    /\ Running
    /\ Passes < MaxPasses
    /\ stack' = Append(stack, Loop(kind))
    /\ UNCHANGED <<queue, value, files>>

\* [vwait] and [update].
Vwait == Wait("vwait")
Update == Wait("update")

---------------------------------------------------------------------------
(* Jim_ProcessEvents *)

\* The queue when the passes above the k-th end: a timer that is new to them
\* is new to the k passes that go on.
NeverAged(k) == queue \* mutant: maxId is taken once and for all
Aged(k) == [i \in DOMAIN queue |-> IF queue[i].newTo > k THEN [queue[i] EXCEPT !.newTo = k] ELSE queue[i]]
Ripened(q) == [i \in DOMAIN q |-> [q[i] EXCEPT !.ripe = q[i].togo = 0]]

\* [vwait] or [update] returns.
Leave ==
    /\ stack' = Front(stack)
    /\ queue' = Aged(Passes - 1)
    /\ UNCHANGED <<value, files>>

\* Nothing can happen: -1.
Hopeless == queue = <<>> /\ files = "none"
NothingToWaitFor == At("begin") /\ Hopeless /\ Leave

\* [vwait] sleeps until the timer at the head is due; [update], and a pass with
\* file handlers only, do not sleep.
BeginPass ==
    /\ At("begin")
    /\ ~Hopeless
    /\ LET us == IF Top.kind = "vwait" /\ queue # <<>> THEN Head(queue).togo ELSE 0
       IN  Becomes([Top EXCEPT !.phase = "sleep", !.sleep = us])
    /\ UNCHANGED <<queue, value, files>>

\* maxId is taken: no timer is new to this pass.
BeginScan ==
    /\ At("sleep")
    /\ Top.sleep = 0
    /\ Becomes([Top EXCEPT !.phase = "scan", !.te = 1])
    /\ queue' = Ripened(Aged(Passes - 1))
    /\ UNCHANGED <<value, files>>

Scanned == queue[Top.te]
AnyTimer(t) == FALSE \* mutant: maxId is not looked at
IsNew(t) == t.newTo >= Passes
Scanning == At("scan") /\ Top.te <= Len(queue)

Skip ==
    /\ Scanning
    /\ IsNew(Scanned) \/ Scanned.togo > 0
    /\ Becomes([Top EXCEPT !.te = @ + 1])
    /\ UNCHANGED <<queue, value, files>>

\* A timer is due: it leaves the queue, and its script runs.
Fire ==
    /\ Scanning
    /\ ~IsNew(Scanned)
    /\ Scanned.togo = 0
    /\ queue' = RemoveAt(queue, Top.te)
    /\ stack' = Append(stack, Handler)
    /\ UNCHANGED <<value, files>>

\* The script is over, with or without an error, and the scan is at the head
\* again.
ResumedInPlace(pass) == [pass EXCEPT !.processed = TRUE] \* mutant
Resumed(pass) == [pass EXCEPT !.te = 1, !.processed = TRUE]
HandlerEnds ==
    /\ Top.kind = "handler"
    /\ stack' = Append(SubSeq(stack, 1, Len(stack) - 2), Resumed(stack[Len(stack) - 1]))
    /\ queue' = Ripened(queue)
    /\ UNCHANGED <<value, files>>

\* The end of a pass: [vwait] goes on unless the variable has changed or a
\* signal was caught, [update] as long as there was something to do.
ChangedIfSet(old) == value # Unset /\ value # old \* mutant
Changed(old) == value # old
Again == IF Top.kind = "vwait" THEN ~Changed(Top.old) ELSE Top.processed
EndPass(signalled) ==
    /\ At("scan")
    /\ signalled => Top.kind = "vwait"
    /\ Top.te > Len(queue)
    /\ IF Again /\ ~signalled
       THEN /\ Becomes([Top EXCEPT !.phase = "begin", !.te = 0, !.processed = FALSE])
            /\ UNCHANGED <<queue, value, files>>
       ELSE Leave

\* The clock: a time in the past is as good as now.
DownPast(us) == us - 1 \* mutant
Down(us) == IF us > 0 THEN us - 1 ELSE 0
Tick ==
    /\ Top.sleep > 0 \/ \E i \in DOMAIN queue : queue[i].togo > 0
    /\ queue' = [i \in DOMAIN queue |-> [queue[i] EXCEPT !.togo = Down(@)]]
    /\ Becomes([Top EXCEPT !.sleep = Down(@)])
    /\ UNCHANGED <<value, files>>

---------------------------------------------------------------------------
Init ==
    /\ queue = <<>>
    /\ stack = <<Main>>
    /\ value \in Vals \cup {Unset}
    /\ files = "none"

Process == NothingToWaitFor \/ BeginPass \/ BeginScan \/ Skip \/ Fire \/ \E signalled \in BOOLEAN : EndPass(signalled)

Next ==
    \/ \E us \in 0..MaxDelay, marked \in BOOLEAN : After(us, marked)
    \/ \E i \in DOMAIN queue : Cancel(i)
    \/ \E v \in Vals \cup {Unset} : SetVariable(v)
    \/ FileHandler \/ FileReady
    \/ Vwait \/ Update
    \/ Process \/ HandlerEnds \/ Tick

Spec == Init /\ [][Next]_vars

\* The loops run, the clock goes on, every timer script ends, and the program
\* keeps coming back to [vwait].
FairSpec ==
    /\ Spec
    /\ WF_vars(Process)
    /\ WF_vars(Tick)
    /\ WF_vars(HandlerEnds)
    /\ WF_vars(Len(stack) = 1 /\ Vwait)

---------------------------------------------------------------------------
(* Properties *)

\* Types of the variables.
TypeOK ==
    /\ \A i \in DOMAIN queue :
          queue[i] \in [togo : 0..MaxDelay, newTo : 0..MaxPasses, ripe : BOOLEAN, marked : BOOLEAN]
    /\ \A i \in DOMAIN stack :
          stack[i] \in [kind : {"main", "handler", "vwait", "update"}, old : Vals \cup {Unset},
                        phase : {"script", "begin", "sleep", "scan"}, sleep : 0..MaxDelay,
                        te : 0..(MaxTimers + 1), processed : BOOLEAN]
    /\ value \in Vals \cup {Unset}
    /\ files \in {"none", "idle", "ready"}

\* "The nearest timer is always at the head of the list": whatever was added,
\* cancelled or run in between, a loop that sleeps is awake again when the
\* first timer of all is due.
SleepsUntilNearest == At("sleep") => \A i \in DOMAIN queue : Top.sleep <= queue[i].togo

\* The clock is read anew for each timer of a scan, so that a timer may become
\* due behind the scan, and a later one run before it; but a timer that was due
\* when the scan started at the head is not passed by, unless it was created in
\* this pass: timers run in the order of the queue, and a pass leaves none.
RunsInOrder ==
    At("scan") => \A i \in DOMAIN queue : i < Top.te /\ queue[i].ripe => IsNew(queue[i])

Marked == \E i \in DOMAIN queue : queue[i].marked
LastLoop == CHOOSE i \in DOMAIN stack :
    stack[i].phase # "script" /\ \A j \in (i + 1)..Len(stack) : stack[j].phase = "script"
Innermost == Passes = MaxPasses
InPass == Innermost /\ stack[LastLoop].phase = "scan"
Woken ==
    Innermost /\ stack[LastLoop].kind = "vwait" /\ value # stack[LastLoop].old

Ready == files = "ready" /\ Len(stack) > 1 /\ stack[2].kind = "vwait"

\* No timer is left behind: every timer is run or cancelled in the end, also if
\* scripts go on scheduling others without a delay, in nested loops.
TimerRuns == Marked ~> ~Marked

\* A pass whose scripts do not wait themselves comes to an end, "even in case
\* an [after 0] that continuously register itself".
PassEnds == InPass ~> ~InPass

\* "Stop the loop if the vwait-ed variable changed value": if it keeps another
\* value, the innermost [vwait] returns.
VwaitReturns == Woken ~> ~Woken

\* "Process every pending time event, then every pending file event": a [vwait]
\* that has a ready file serves it, or returns, or the handler is deleted.
FileServed == Ready ~> ~Ready
=============================================================================

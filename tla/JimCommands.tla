---------------------------- MODULE JimCommands ----------------------------
(***************************************************************************)
(* The command table of the Jim interpreter: definitions, the per-word     *)
(* lookup cache and its epoch, reference counts of Jim_Cmd, definitions    *)
(* pushed by [local], [upcall], and the namespaces names are resolved in.  *)
(*                                                                         *)
(* A command name is a record [abs, path]: path is its sequence of         *)
(* components ("a::x" is <<"a", "x">>) and abs says that it was written    *)
(* with a leading "::".  A key of the table and a namespace are paths; the *)
(* global namespace is the empty path.                                     *)
(***************************************************************************)
EXTENDS Integers, Sequences, FiniteSets

CONSTANTS
    Parts,        \* components of names
    Words,        \* command words of the scripts, one object each
    Namespaces,   \* namespaces scripts evaluate in
    CmdIds,       \* the Jim_Cmd structures that may be allocated
    InitTable,    \* the native commands registered at start: key -> CmdIds
    MaxDepth,     \* bound: nested activations
    MaxLocals,    \* bound: local commands of one frame
    MaxEpoch      \* bound: value of procEpoch

Nil == "nil"
Names == [abs : BOOLEAN, path : Seq(Parts)]

ASSUME WordsAssumption ==
    /\ Words \subseteq Names
    /\ \A w \in Words : w.path # <<>>
    /\ Namespaces \subseteq Seq(Parts)
    /\ <<>> \in Namespaces
ASSUME PoolAssumption ==
    /\ IsFiniteSet(CmdIds)
    /\ Nil \notin CmdIds
    /\ DOMAIN InitTable \subseteq Seq(Parts)
    /\ InitTable \in [DOMAIN InitTable -> CmdIds]
    /\ \A j, k \in DOMAIN InitTable : InitTable[j] = InitTable[k] => j = k
ASSUME BoundAssumption == MaxDepth \in Nat /\ MaxLocals \in Nat /\ MaxEpoch \in Nat

VARIABLES
    commands,   \* interp->commands: key -> Jim_Cmd
    cmd,        \* the Jim_Cmd structures; NoCmd when not allocated
    procEpoch,  \* interp->procEpoch
    cache,      \* the command internal representation of each word's object
    local,      \* interp->local
    frames,     \* call frames, the last one is interp->framePtr
    stack,      \* C activations that hold a command or restore something,
                \* each with the frame that was current when it began
    freeing     \* the frame JimFreeCallFrame is deleting the locals of

control == <<local, frames, stack, freeing>>
vars == <<commands, cmd, procEpoch, cache, local, frames, stack, freeing>>

NewCmd(proc, before, ns) ==
    [inUse |-> 1, prev |-> before, isproc |-> proc, upcall |-> 0, ns |-> ns]
NoCmd == [inUse |-> 0, prev |-> Nil, isproc |-> FALSE, upcall |-> 0, ns |-> <<>>]
NoCache == [cmd |-> Nil, ns |-> <<>>, epoch |-> -1]
NotFreeing == [on |-> FALSE, ns |-> <<>>, locals |-> <<>>, cmd |-> Nil]
Frame(ns) == [ns |-> ns, locals |-> <<>>]
Activation(kind, c) == [kind |-> kind, cmd |-> c, parent |-> Len(frames)]

CurNs == frames[Len(frames)].ns

---------------------------------------------------------------------------
(* Names *)

\* JimQualifyName: a name is relative to the namespace of the current frame
\* unless it starts with "::".
Qualify(ns, w) == IF w.abs THEN w.path ELSE ns \o w.path

\* The command a lookup without the cache finds: the namespace first, then
\* the global one.
Lookup(ns, w) ==
    IF Qualify(ns, w) \in DOMAIN commands THEN commands[Qualify(ns, w)]
    ELSE IF w.path \in DOMAIN commands THEN commands[w.path]
    ELSE Nil

CacheValid(w) == cache[w].epoch = procEpoch /\ cache[w].ns = CurNs

\* The command Jim_GetCommand starts from, and what it leaves in the word.
Cached(w) == IF CacheValid(w) THEN cache[w].cmd ELSE Lookup(CurNs, w)
Remembered(w) ==
    IF CacheValid(w) \/ Cached(w) = Nil THEN cache
    ELSE [cache EXCEPT ![w] = [cmd |-> Cached(w), ns |-> CurNs, epoch |-> procEpoch]]

---------------------------------------------------------------------------
(* Chains of pushed definitions *)

\* The longest run of definitions from c down its prevCmd chain that satisfy
\* P, as the least set closed under taking such a predecessor; and the
\* definition that ends it (Nil when the chain is exhausted).
Run(c, P(_)) ==
    IF ~P(c) THEN {}
    ELSE LET Closed(S) == c \in S /\ \A y \in S :
                 cmd[y].prev # Nil /\ P(cmd[y].prev) => cmd[y].prev \in S
         IN {x \in CmdIds : \A S \in SUBSET CmdIds : Closed(S) => x \in S}
AfterRun(c, P(_)) ==
    IF ~P(c) THEN c
    ELSE LET ends == {y \in Run(c, P) : cmd[y].prev \notin Run(c, P)}
         IN IF ends = {} THEN Nil ELSE cmd[CHOOSE y \in ends : TRUE].prev

InUpcall(c) == cmd[c].upcall > 0
LastUse(c) == cmd[c].inUse = 1

\* Jim_GetCommand: definitions in an upcall are skipped.
GetCommand(w) == IF Cached(w) = Nil THEN Nil ELSE AfterRun(Cached(w), InUpcall)

\* Mutant: the definition c was pushed over is not released with it.
DecrForgetsPushed(c) ==
    [cmd EXCEPT ![c] = IF LastUse(c) THEN NoCmd ELSE [@ EXCEPT !.inUse = @ - 1]]

\* JimDecrCmdRefCount(c): a structure whose last use goes away is freed and
\* releases the definition it was pushed over.
Decr(c) ==
    [x \in CmdIds |-> IF x \in Run(c, LastUse) THEN NoCmd
                      ELSE IF x = AfterRun(c, LastUse) THEN [cmd[x] EXCEPT !.inUse = @ - 1]
                      ELSE cmd[x]]

---------------------------------------------------------------------------
(* The table *)

Without(k) == [j \in DOMAIN commands \ {k} |-> commands[j]]
With(k, c) == [j \in DOMAIN commands \cup {k} |-> IF j = k THEN c ELSE commands[j]]

\* JimUpdateProcNamespace for a proc stored under k: a name with a "::" gives
\* the namespace, and the epoch moves when the last component is a global
\* command, which the proc now shadows.
NamedNs(k, ns) == IF Len(k) > 1 THEN SubSeq(k, 1, Len(k) - 1) ELSE ns
Shadows(k, keys) == Len(k) > 1 /\ <<k[Len(k)]>> \in keys

\* A definition is pushed over the old one when [local] is in force, and
\* replaces it otherwise.
PushesNever(k) == FALSE \* mutant: 'local' is not consulted
Pushes(k) == k \in DOMAIN commands /\ local > 0

\* The epoch moves when a definition was there before, and when a new proc
\* shadows a global command.
EpochIgnoresOld(k, proc) == procEpoch \* mutant: no update on redefinition
EpochAfterCreate(k, proc) ==
    procEpoch + (IF k \in DOMAIN commands THEN 1 ELSE 0)
              + (IF proc /\ Shadows(k, DOMAIN commands \cup {k}) THEN 1 ELSE 0)

\* JimCreateCommand(k, c) for the new structure c.
Create(k, c, proc) ==
    /\ cmd[c] = NoCmd
    /\ procEpoch + 2 <= MaxEpoch
    /\ commands' = With(k, c)
    /\ cmd' = [(IF k \in DOMAIN commands /\ ~Pushes(k) THEN Decr(commands[k]) ELSE cmd)
                  EXCEPT ![c] = NewCmd(proc, IF Pushes(k) THEN commands[k] ELSE Nil,
                                       IF proc THEN NamedNs(k, <<>>) ELSE <<>>)]
    /\ procEpoch' = EpochAfterCreate(k, proc)
    /\ UNCHANGED <<cache, control>>

Running == ~freeing.on

\* [proc w ...]
Proc(w) == Running /\ \E c \in CmdIds : Create(Qualify(CurNs, w), c, TRUE)

\* [alias w ...] and the commands an extension registers: the name is taken
\* as absolute in every namespace.
Alias(w) == Running /\ \E c \in CmdIds : Create(w.path, c, FALSE)

\* Mutant: the epoch does not move.
DeleteKeepsEpoch(w) ==
    LET k == Qualify(CurNs, w)
    IN  /\ Running
        /\ k \in DOMAIN commands
        /\ commands' = Without(k)
        /\ cmd' = Decr(commands[k])
        /\ UNCHANGED <<procEpoch, cache, control>>

\* [rename w ""]
Delete(w) ==
    LET k == Qualify(CurNs, w)
    IN  /\ Running
        /\ k \in DOMAIN commands
        /\ procEpoch < MaxEpoch
        /\ commands' = Without(k)
        /\ cmd' = Decr(commands[k])
        /\ procEpoch' = procEpoch + 1
        /\ UNCHANGED <<cache, control>>

\* A proc takes the namespace of its new name when that has one.
RenamedForgetsPushed(c, new) == [cmd EXCEPT ![c].prev = Nil] \* mutant
Renamed(c, new) ==
    IF cmd[c].isproc THEN [cmd EXCEPT ![c].ns = NamedNs(new, @)] ELSE cmd

\* [rename w v]: the new name is added before the old one is removed.
Rename(w, v) ==
    LET old == Qualify(CurNs, w)
        new == Qualify(CurNs, v)
        c == commands[old]
    IN  /\ Running
        /\ old \in DOMAIN commands
        /\ new \notin DOMAIN commands
        /\ procEpoch + 2 <= MaxEpoch
        /\ commands' = [j \in (DOMAIN commands \ {old}) \cup {new} |->
                            IF j = new THEN c ELSE commands[j]]
        /\ cmd' = Renamed(c, new)
        /\ procEpoch' = procEpoch + 1
                        + (IF cmd[c].isproc /\ Shadows(new, DOMAIN commands) THEN 1 ELSE 0)
        /\ UNCHANGED <<cache, control>>

---------------------------------------------------------------------------
(* Invocation *)

\* JimInvokeCommand of the resolved command c: it is held for the call, and
\* JimCallProcedure gives a proc a frame in its own namespace.
Enter(c, activations) ==
    /\ stack' = stack \o activations
    /\ frames' = IF cmd[c].isproc THEN Append(frames, Frame(cmd[c].ns)) ELSE frames
    /\ Len(stack') <= MaxDepth

Invoke(w) ==
    LET c == GetCommand(w)
    IN  /\ Running
        /\ c # Nil
        /\ Enter(c, <<Activation("call", c)>>)
        /\ cmd' = [cmd EXCEPT ![c].inUse = @ + 1]
        /\ cache' = Remembered(w)
        /\ UNCHANGED <<commands, procEpoch, local, freeing>>

\* [upcall w]: the definition is marked, so that invoking w runs the one it
\* was pushed over.
Upcall(w) ==
    LET c == GetCommand(w)
        target == AfterRun(cmd[c].prev, InUpcall)
        marked == [cmd EXCEPT ![c].upcall = @ + 1]
        held == [marked EXCEPT ![c].inUse = @ + 1]
    IN  /\ Running
        /\ c # Nil
        /\ cmd[c].isproc
        /\ cmd[c].prev # Nil
        /\ target # Nil
        /\ Enter(target, <<Activation("upcall", c), Activation("call", target)>>)
        /\ cmd' = [held EXCEPT ![target].inUse = @ + 1]
        /\ cache' = Remembered(w)
        /\ UNCHANGED <<commands, procEpoch, local, freeing>>

\* [namespace eval n ...], n being the canonical name.
NamespaceEval(n) ==
    /\ Running
    /\ Len(stack) < MaxDepth
    /\ frames' = Append(frames, Frame(n))
    /\ stack' = Append(stack, Activation("eval", Nil))
    /\ UNCHANGED <<commands, cmd, procEpoch, cache, local, freeing>>

\* [local ...] evaluates a command with 'local' in force.
LocalBegin ==
    /\ Running
    /\ Len(stack) < MaxDepth
    /\ local' = local + 1
    /\ stack' = Append(stack, Activation("local", Nil))
    /\ UNCHANGED <<commands, cmd, procEpoch, cache, frames, freeing>>

Top == stack[Len(stack)]
Pop(s) == SubSeq(s, 1, Len(s) - 1)
Ending(kind) == Running /\ stack # <<>> /\ Top.kind = kind

\* The end of [local]: when the command succeeded and its result names a
\* command, that name becomes a local command of the current frame.
LocalEnd(w) ==
    /\ Ending("local")
    /\ GetCommand(w) # Nil
    /\ Len(frames[Len(frames)].locals) < MaxLocals
    /\ local' = local - 1
    /\ stack' = Pop(stack)
    /\ frames' = [frames EXCEPT ![Len(frames)].locals = <<w>> \o @]
    /\ cache' = Remembered(w)
    /\ UNCHANGED <<commands, cmd, procEpoch, freeing>>

\* ... and when it failed, or its result is not a command.
LocalFail ==
    /\ Ending("local")
    /\ local' = local - 1
    /\ stack' = Pop(stack)
    /\ UNCHANGED <<commands, cmd, procEpoch, cache, frames, freeing>>

\* The end of [upcall].  The mark goes before the hold.
UpcallEnd ==
    /\ Ending("upcall")
    /\ cmd' = [x \in CmdIds |-> IF x = Top.cmd /\ Decr(Top.cmd)[x].inUse > 0
                                THEN [Decr(Top.cmd)[x] EXCEPT !.upcall = @ - 1]
                                ELSE Decr(Top.cmd)[x]]
    /\ stack' = Pop(stack)
    /\ UNCHANGED <<commands, procEpoch, cache, local, frames, freeing>>

\* A command returns.  A frame it ran in is unlinked first, so that
\* JimFreeCallFrame works with the caller's frame as the current one.
Return ==
    /\ Ending("call") \/ Ending("eval")
    /\ stack' = Pop(stack)
    /\ frames' = SubSeq(frames, 1, Top.parent)
    /\ LET f == IF Top.parent < Len(frames) THEN frames[Len(frames)] ELSE Frame(<<>>)
       IN  freeing' = [on |-> TRUE, ns |-> f.ns, locals |-> f.locals, cmd |-> Top.cmd]
    /\ UNCHANGED <<commands, cmd, procEpoch, cache, local>>

\* The table once the definition under k is gone: the one it was pushed over
\* is back, if there is one.
RestoredBlindly(k) == With(k, cmd[commands[k]].prev) \* mutant: prevCmd not tested
RestoredIfPushed(k) == \* mutant: a local command that hid nothing stays
    IF cmd[commands[k]].prev # Nil THEN With(k, cmd[commands[k]].prev) ELSE commands
Restored(k) ==
    IF cmd[commands[k]].prev # Nil THEN With(k, cmd[commands[k]].prev) ELSE Without(k)

\* One turn of the loop of JimDeleteLocalProcs: the definition under the name,
\* as the current frame qualifies it, gives way to the one it was pushed over.
DeleteLocal ==
    LET k == Qualify(CurNs, Head(freeing.locals))
        c == commands[k]
        unlinked == [cmd EXCEPT ![c].prev = Nil]
    IN  /\ freeing.on
        /\ freeing.locals # <<>>
        /\ freeing' = [freeing EXCEPT !.locals = Tail(@)]
        /\ IF k \notin DOMAIN commands THEN UNCHANGED <<commands, cmd, procEpoch>>
           ELSE /\ procEpoch < MaxEpoch
                /\ procEpoch' = procEpoch + 1
                /\ cmd' = [unlinked EXCEPT ![c] =
                              IF LastUse(c) THEN NoCmd
                              ELSE [unlinked[c] EXCEPT !.inUse = @ - 1]]
                /\ commands' = Restored(k)
        /\ UNCHANGED <<cache, local, frames, stack>>

\* JimInvokeCommand drops its hold on the command that returned.
EndReturn ==
    /\ freeing.on
    /\ freeing.locals = <<>>
    /\ freeing' = NotFreeing
    /\ cmd' = IF freeing.cmd = Nil THEN cmd ELSE Decr(freeing.cmd)
    /\ UNCHANGED <<commands, procEpoch, cache, local, frames, stack>>

---------------------------------------------------------------------------
Init ==
    /\ commands = InitTable
    /\ cmd = [c \in CmdIds |-> IF \E k \in DOMAIN InitTable : InitTable[k] = c
                               THEN NewCmd(FALSE, Nil, <<>>) ELSE NoCmd]
    /\ procEpoch = 0
    /\ cache = [w \in Words |-> NoCache]
    /\ local = 0
    /\ frames = <<Frame(<<>>)>>
    /\ stack = <<>>
    /\ freeing = NotFreeing

Next ==
    \/ \E w \in Words : Proc(w) \/ Alias(w) \/ Delete(w) \/ Invoke(w) \/ Upcall(w) \/ LocalEnd(w)
    \/ \E w, v \in Words : Rename(w, v)
    \/ \E n \in Namespaces : NamespaceEval(n)
    \/ LocalBegin \/ LocalFail \/ UpcallEnd \/ Return \/ DeleteLocal \/ EndReturn

Spec == Init /\ [][Next]_vars

---------------------------------------------------------------------------
(* Properties *)

CmdType == [inUse : Int, prev : CmdIds \cup {Nil}, isproc : BOOLEAN,
            upcall : Int, ns : Seq(Parts)]

\* Types of the variables.
TypeOK ==
    /\ DOMAIN commands \subseteq Seq(Parts)
    /\ commands \in [DOMAIN commands -> CmdIds]
    /\ cmd \in [CmdIds -> CmdType]
    /\ procEpoch \in Nat
    /\ cache \in [Words -> [cmd : CmdIds \cup {Nil}, ns : Seq(Parts), epoch : Int]]
    /\ local \in Int
    /\ frames \in Seq([ns : Seq(Parts), locals : Seq(Words)])
    /\ stack \in Seq([kind : {"call", "upcall", "eval", "local"}, cmd : CmdIds \cup {Nil},
                      parent : Nat])
    /\ freeing \in [on : BOOLEAN, ns : Seq(Parts), locals : Seq(Words), cmd : CmdIds \cup {Nil}]

Holds(c) ==
    Cardinality({k \in DOMAIN commands : commands[k] = c})
    + Cardinality({d \in CmdIds : cmd[d].prev = c})
    + Cardinality({i \in DOMAIN stack : stack[i].cmd = c})
    + (IF freeing.cmd = c THEN 1 ELSE 0)

\* A Jim_Cmd is freed exactly when nothing refers to it: its count is the
\* number of table entries, pushed definitions and activations that hold it,
\* through redefinition, deletion and renaming of a command that is running.
RefCountExact == \A c \in CmdIds : cmd[c].inUse = Holds(c)

\* Skipping the definitions in an upcall always finds a definition:
\* Jim_GetCommand never walks off the end of a prevCmd chain, even if the
\* pushed definition was deleted, renamed or popped while it was running.
UpcallHasPrevious ==
    \A k \in DOMAIN commands : \A c \in Run(commands[k], LAMBDA x : TRUE) :
        cmd[c].upcall > 0 => cmd[c].prev # Nil

\* A cache entry of the current epoch holds the command that the table has
\* under one of the two names the word can stand for: the uncounted pointer
\* in a word never outlives the definition.
CacheSound ==
    \A w \in Words : cache[w].epoch = procEpoch =>
        \E k \in {Qualify(cache[w].ns, w), w.path} :
            k \in DOMAIN commands /\ commands[k] = cache[w].cmd

\* A lookup that uses the cache finds what a lookup without it would: defining
\* a command "can never affect existing cached commands".
CacheFresh ==
    \A w \in Words : cache[w].epoch = procEpoch =>
        cache[w].cmd = Lookup(cache[w].ns, w)

\* When a frame goes away, each of its local commands that still exists is
\* removed, or replaced by the definition it was pushed over.
LocalsRemoved ==
    [][freeing.on /\ freeing.locals # <<>> /\ freeing'.locals # freeing.locals =>
        LET k == Qualify(freeing.ns, Head(freeing.locals))
        IN  k \in DOMAIN commands =>
                k \notin DOMAIN commands' \/ commands'[k] # commands[k]]_vars
=============================================================================

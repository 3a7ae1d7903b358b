---------------------------- MODULE JimVariables ----------------------------
(***************************************************************************)
(* Variables of the Jim interpreter: call frames and their tables, [upvar] *)
(* and [global] links, static variables, by-name arguments, [uplevel], and *)
(* the cache that every name object keeps of the variable it last stood    *)
(* for, valid while a frame has the id it was filled with.                 *)
(*                                                                         *)
(* A read, write or unset follows links by recursion in the code, with     *)
(* interp->framePtr switched to the frame of each link; here op is that    *)
(* recursion and each of its levels is a step.                             *)
(***************************************************************************)
EXTENDS Integers, Sequences, FiniteSets

CONSTANTS
    Words,      \* the name objects of the scripts
    NameOf,     \* the name each of them spells, without a leading "::"
    IsGlobal,   \* whether it is written with a leading "::"
    LinkWords,  \* those of them that are made links
    VarIds,     \* the Jim_Var structures that may be allocated
    Vals,       \* values
    Statics,    \* name -> Jim_Var: the static variables of the one proc that has any
    MaxFrames,  \* bound: call frames
    MaxDepth,   \* bound: nested calls and [uplevel]s
    MaxEpoch    \* bound: value of callFrameEpoch

Nil == "nil"
Done == "done"
Fail == "fail"
Bases == {NameOf[w] : w \in Words}

ASSUME NameAssumption ==
    /\ NameOf \in [Words -> Bases]
    /\ IsGlobal \in [Words -> BOOLEAN]
    /\ LinkWords \subseteq Words
ASSUME SortAssumption ==
    /\ Nil \notin VarIds
    /\ {Nil, Done, Fail} \cap (Words \cup Vals) = {}
    /\ Words \cap Vals = {}
    /\ Vals # {}
ASSUME StaticsAssumption ==
    /\ DOMAIN Statics \subseteq Bases
    /\ Statics \in [DOMAIN Statics -> VarIds]
    /\ \A a, b \in DOMAIN Statics : Statics[a] = Statics[b] => a = b
ASSUME BoundAssumption == MaxFrames \in Nat /\ MaxDepth \in Nat /\ MaxEpoch \in Nat

VARIABLES
    frames,         \* the live call frames, in order of creation; 1 is topFramePtr
    cur,            \* interp->framePtr
    stack,          \* what is running: calls, and [uplevel]s with the frame they left
    var,            \* the Jim_Var structures
    callFrameEpoch, \* interp->callFrameEpoch
    cache,          \* the variable internal representation of each name object
    op,             \* the variable operation in progress
    result          \* the outcome of the last one: a value, Done or Fail

vars == <<frames, cur, stack, var, callFrameEpoch, cache, op, result>>
scripts == <<frames, cur, stack, callFrameEpoch>>

NoVar == [used |-> FALSE, obj |-> Nil, link |-> 0]
NewVar(obj, link) == [used |-> TRUE, obj |-> obj, link |-> link]
NoCache == [id |-> -1, var |-> Nil]
NoVars == [b \in {} |-> Nil]
Frame(id, parent, level, statics) ==
    [id |-> id, parent |-> parent, level |-> level, hasStatics |-> statics, vars |-> NoVars]

\* asked: the name of the operation; word: the one being resolved; origin: the
\* frame to come back to; val: the value to store; name, target, tframe: the
\* ends of a link being made, and was: the frame an earlier link of that name
\* led to.
Idle == [kind |-> "idle", asked |-> Nil, word |-> Nil, origin |-> 0, val |-> Nil,
         name |-> Nil, target |-> Nil, tframe |-> 0, was |-> 0]

---------------------------------------------------------------------------
(* Resolving names *)

FrameOf(w, f) == IF IsGlobal[w] THEN 1 ELSE f

\* Mutant: the static variables are not looked at.
LookupNoStatics(w, f) ==
    IF NameOf[w] \in DOMAIN frames[FrameOf(w, f)].vars
    THEN frames[FrameOf(w, f)].vars[NameOf[w]] ELSE Nil

\* The variable w stands for in frame f, without the cache.
Lookup(w, f) ==
    IF NameOf[w] \in DOMAIN frames[FrameOf(w, f)].vars
    THEN frames[FrameOf(w, f)].vars[NameOf[w]]
    ELSE IF ~IsGlobal[w] /\ frames[f].hasStatics /\ NameOf[w] \in DOMAIN Statics
    THEN Statics[NameOf[w]]
    ELSE Nil

\* SetVariableFromAny(w): the variable, and what is left in the name object.
CacheValid(w) == cache[w].id = frames[FrameOf(w, cur)].id
Found(w) == IF CacheValid(w) THEN cache[w].var ELSE Lookup(w, cur)
Remembered(w) ==
    IF CacheValid(w) \/ Found(w) = Nil THEN cache
    ELSE [cache EXCEPT ![w] = [id |-> frames[FrameOf(w, cur)].id, var |-> Found(w)]]

\* The frames [uplevel] and [upvar] can name: f and its callers.
Callers(f) ==
    {g \in DOMAIN frames : \A S \in SUBSET DOMAIN frames :
        f \in S /\ (\A x \in S : frames[x].parent # 0 => frames[x].parent \in S) => g \in S}

\* A new Jim_Var x with contents obj under the name w, which remembers it.
AddVar(w, x, obj, link) ==
    LET g == FrameOf(w, cur)
        table == frames[g].vars
        added == [b \in DOMAIN table \cup {NameOf[w]} |-> IF b = NameOf[w] THEN x ELSE table[b]]
    IN  /\ ~var[x].used
        /\ var' = [var EXCEPT ![x] = NewVar(obj, link)]
        /\ frames' = [frames EXCEPT ![g].vars = added]
        /\ cache' = [cache EXCEPT ![w] = [id |-> frames[g].id, var |-> x]]

---------------------------------------------------------------------------
(* Calls *)

Running == op = Idle
HasRoom == \E x \in VarIds : ~var[x].used \* bound: the pool of structures

\* JimCallProcedure (and Jim_EvalNamespace): a new frame under the current one.
Enter(statics) ==
    /\ Len(frames) < MaxFrames
    /\ Len(stack) < MaxDepth
    /\ callFrameEpoch < MaxEpoch
    /\ frames' = Append(frames, Frame(callFrameEpoch, cur, frames[cur].level + 1, statics))
    /\ callFrameEpoch' = callFrameEpoch + 1
    /\ stack' = Append(stack, [kind |-> "call", saved |-> 0])

Call(statics) ==
    /\ Running
    /\ Enter(statics)
    /\ cur' = Len(frames) + 1
    /\ UNCHANGED <<var, cache, op, result>>

\* A call with an argument for a parameter "&n": t must exist in the caller.
\* The parameter name is a new object, spelt n.
CallByName(n, t) ==
    /\ Running
    /\ HasRoom
    /\ ~IsGlobal[n]
    /\ n # t
    /\ Enter(FALSE)
    /\ cache' = [cache EXCEPT ![n] = NoCache]
    /\ op' = [Idle EXCEPT !.kind = "byname", !.asked = n, !.word = t, !.name = n,
                          !.origin = Len(frames) + 1, !.target = t, !.tframe = cur]
    /\ UNCHANGED <<cur, var, result>>

LastFrame == frames[Len(frames)]
Pop(s) == SubSeq(s, 1, Len(s) - 1)
Ending(kind) == stack # <<>> /\ stack[Len(stack)].kind = kind

\* Mutant: the frame that goes away stays current.
LeaveHere ==
    /\ cur' = cur
    /\ frames' = Pop(frames)
    /\ stack' = Pop(stack)
    /\ var' = [x \in VarIds |->
                  IF \E b \in DOMAIN LastFrame.vars : LastFrame.vars[b] = x THEN NoVar ELSE var[x]]

\* JimFreeCallFrame after the parent has been made current: the structure is
\* reused, its variables are freed.
Leave ==
    /\ cur' = LastFrame.parent
    /\ frames' = Pop(frames)
    /\ stack' = Pop(stack)
    /\ var' = [x \in VarIds |->
                  IF \E b \in DOMAIN LastFrame.vars : LastFrame.vars[b] = x THEN NoVar ELSE var[x]]

EndCall ==
    /\ Running
    /\ Ending("call")
    /\ Leave
    /\ UNCHANGED <<callFrameEpoch, cache, op, result>>

\* [uplevel] to the frame g.
Uplevel(g) ==
    /\ Running
    /\ g \in Callers(cur)
    /\ Len(stack) < MaxDepth
    /\ cur' = g
    /\ stack' = Append(stack, [kind |-> "uplevel", saved |-> cur])
    /\ UNCHANGED <<frames, var, callFrameEpoch, cache, op, result>>

EndUplevel ==
    /\ Running
    /\ Ending("uplevel")
    /\ cur' = stack[Len(stack)].saved
    /\ stack' = Pop(stack)
    /\ UNCHANGED <<frames, var, callFrameEpoch, cache, op, result>>

---------------------------------------------------------------------------
(* Reading, writing and unsetting *)

Begin(kind, w, v) ==
    /\ Running
    /\ op' = [Idle EXCEPT !.kind = kind, !.asked = w, !.word = w, !.origin = cur, !.val = v]
    /\ UNCHANGED <<scripts, var, cache, result>>

Get(w) == Begin("get", w, Nil)
Set(w, v) == HasRoom /\ Begin("set", w, v)
Unset(w) == callFrameEpoch < MaxEpoch /\ Begin("unset", w, Nil)

\* [upvar tf t n]; [global n] is Upvar(n, n, 1), and [variable] links to the
\* top frame as well.
Upvar(n, t, tf) ==
    /\ Running
    /\ HasRoom
    /\ tf \in Callers(cur)
    /\ op' = [Idle EXCEPT !.kind = "upvar", !.asked = n, !.name = n, !.origin = cur,
                          !.target = t, !.tframe = tf]
    /\ UNCHANGED <<scripts, var, cache, result>>

Accessing(kinds) == op.kind \in kinds
IsLink(x) == var[x].link # 0
Finish(r) == op' = Idle /\ cur' = op.origin /\ result' = r

\* Mutant: the frame of the link is not made current.
FollowHere ==
    /\ Accessing({"get", "set", "unset", "byname"})
    /\ Found(op.word) # Nil
    /\ IsLink(Found(op.word))
    /\ cur' = cur
    /\ op' = [op EXCEPT !.word = var[Found(op.word)].obj]
    /\ cache' = Remembered(op.word)
    /\ UNCHANGED <<frames, stack, var, callFrameEpoch, result>>

\* The variable is a link: on with its target in the frame it leads to.
Follow ==
    /\ Accessing({"get", "set", "unset", "byname"})
    /\ Found(op.word) # Nil
    /\ IsLink(Found(op.word))
    /\ cur' = var[Found(op.word)].link
    /\ op' = [op EXCEPT !.word = var[Found(op.word)].obj]
    /\ cache' = Remembered(op.word)
    /\ UNCHANGED <<frames, stack, var, callFrameEpoch, result>>

Reached(kind) ==
    /\ Accessing({kind})
    /\ Found(op.word) # Nil
    /\ ~IsLink(Found(op.word))

GetFound ==
    /\ Reached("get")
    /\ Finish(var[Found(op.word)].obj)
    /\ cache' = Remembered(op.word)
    /\ UNCHANGED <<frames, stack, var, callFrameEpoch>>

SetFound ==
    /\ Reached("set")
    /\ Finish(Done)
    /\ var' = [var EXCEPT ![Found(op.word)].obj = op.val]
    /\ cache' = Remembered(op.word)
    /\ UNCHANGED <<frames, stack, callFrameEpoch>>

\* The frame that loses the variable gets a new id, so that no name object
\* remembers it.
NotRenumbered(f) == f \* mutant
Renumbered(f) == [f EXCEPT !.id = callFrameEpoch]
UnsetFound ==
    LET w == op.word
        g == FrameOf(w, cur)
        table == frames[g].vars
        left == [b \in DOMAIN table \ {NameOf[w]} |-> table[b]]
    IN  /\ Reached("unset")
        /\ NameOf[w] \in DOMAIN table
        /\ Finish(Done)
        /\ var' = [var EXCEPT ![table[NameOf[w]]] = NoVar]
        /\ frames' = [frames EXCEPT ![g] = Renumbered([frames[g] EXCEPT !.vars = left])]
        /\ callFrameEpoch' = callFrameEpoch + 1
        /\ cache' = Remembered(w)
        /\ UNCHANGED stack

\* A static variable is found but is not in the table of the frame.
UnsetStatic ==
    /\ Reached("unset")
    /\ NameOf[op.word] \notin DOMAIN frames[FrameOf(op.word, cur)].vars
    /\ Finish(Fail)
    /\ cache' = Remembered(op.word)
    /\ UNCHANGED <<frames, stack, var, callFrameEpoch>>

\* There is no such variable: a write creates it, in the frame it got to.
SetMissing ==
    /\ Accessing({"set"})
    /\ Found(op.word) = Nil
    /\ \E x \in VarIds : AddVar(op.word, x, op.val, 0)
    /\ Finish(Done)
    /\ UNCHANGED <<stack, callFrameEpoch>>

Missing ==
    /\ Accessing({"get", "unset"})
    /\ Found(op.word) = Nil
    /\ Finish(Fail)
    /\ UNCHANGED <<frames, stack, var, callFrameEpoch, cache>>

---------------------------------------------------------------------------
(* Links *)

\* A global name cannot refer to a variable of a procedure.
TooHighNever(g, target) == FALSE \* mutant

TooHigh(g, target) == frames[g].level < frames[target].level
\* Jim_SetVariableLink up to the search for a cycle: the name n, in the
\* current frame, is to stand for the name t of frame tf.  A link that n
\* already is gets cut first.  A target written "::t" becomes a new object
\* spelt t.
Link ==
    LET n == op.name
        t == op.target
        x == Found(n)
        g == FrameOf(n, cur)
        target == IF IsGlobal[t] THEN 1 ELSE op.tframe
    IN  /\ Accessing({"upvar", "argument"})
        /\ IF x # Nil /\ ~IsLink(x)
           THEN /\ cache' = Remembered(n)
                /\ Finish(Fail)
                /\ UNCHANGED var
           ELSE /\ var' = IF x = Nil THEN var ELSE [var EXCEPT ![x].link = 0]
                /\ IF TooHigh(g, target)
                   THEN cache' = Remembered(n) /\ Finish(Fail)
                   ELSE \E s \in Words :
                        /\ IF IsGlobal[t] THEN ~IsGlobal[s] /\ NameOf[s] = NameOf[t] /\ s # n ELSE s = t
                        /\ cache' = IF IsGlobal[t] THEN [Remembered(n) EXCEPT ![s] = NoCache]
                                    ELSE Remembered(n)
                        /\ op' = [op EXCEPT !.kind = IF g = target THEN "probe" ELSE "bind",
                                            !.word = s, !.target = s, !.tframe = target,
                                            !.was = IF x = Nil THEN 0 ELSE var[x].link]
                        /\ UNCHANGED <<cur, result>>
        /\ UNCHANGED <<frames, stack, callFrameEpoch>>

\* The target of a by-name argument exists: the parameter is linked to it.  The
\* frame is new and has no variable yet, so that the link cannot fail.
ByNameFound ==
    /\ Reached("byname")
    /\ cur' = op.origin
    /\ op' = [op EXCEPT !.kind = "argument"]
    /\ cache' = Remembered(op.word)
    /\ UNCHANGED <<frames, stack, var, callFrameEpoch, result>>

\* It does not: the call fails and its frame goes away.
ByNameMissing ==
    /\ Accessing({"byname"})
    /\ Found(op.word) = Nil
    /\ Leave
    /\ op' = Idle
    /\ result' = Fail
    /\ UNCHANGED <<callFrameEpoch, cache>>

\* One turn of the loop that looks for a cycle: links within the frame are
\* followed from the target; each name is resolved in the current frame.
SameNameNever(w) == FALSE \* mutant
SameName(w) == NameOf[w] = NameOf[op.name]
ProbeCycle ==
    /\ Accessing({"probe"})
    /\ SameName(op.word)
    /\ Finish(Fail)
    /\ UNCHANGED <<frames, stack, var, callFrameEpoch, cache>>
LeadsOnNever(w) == FALSE \* mutant: only the target itself is compared
LeadsOn(w) == Found(w) # Nil /\ var[Found(w)].link = op.tframe
Probe ==
    /\ Accessing({"probe"})
    /\ ~SameName(op.word)
    /\ op' = IF LeadsOn(op.word) THEN [op EXCEPT !.word = var[Found(op.word)].obj]
             ELSE [op EXCEPT !.kind = "bind"]
    /\ cache' = Remembered(op.word)
    /\ UNCHANGED <<scripts, var, result>>

\* The binding.  n is not a link any more, so Jim_SetVariable stores into it.
Bind ==
    /\ Accessing({"bind"})
    /\ Finish(Done)
    /\ IF Found(op.name) = Nil
       THEN \E x \in VarIds : AddVar(op.name, x, op.target, op.tframe)
       ELSE /\ var' = [var EXCEPT ![Found(op.name)] = NewVar(op.target, op.tframe)]
            /\ cache' = Remembered(op.name)
            /\ UNCHANGED frames
    /\ UNCHANGED <<stack, callFrameEpoch>>

---------------------------------------------------------------------------
Init ==
    /\ frames = <<Frame(0, 0, 0, FALSE)>>
    /\ cur = 1
    /\ stack = <<>>
    /\ \E v \in Vals : var = [x \in VarIds |-> IF \E b \in DOMAIN Statics : Statics[b] = x
                                               THEN NewVar(v, 0) ELSE NoVar]
    /\ callFrameEpoch = 1
    /\ cache = [w \in Words |-> NoCache]
    /\ op = Idle
    /\ result = Done

\* The next level of the operation in progress.
Continue ==
    \/ Follow \/ GetFound \/ SetFound \/ UnsetFound \/ UnsetStatic \/ SetMissing \/ Missing
    \/ ByNameFound \/ Link \/ ByNameMissing \/ ProbeCycle \/ Probe \/ Bind

Next ==
    \/ \E statics \in BOOLEAN : Call(statics)
    \/ EndCall \/ EndUplevel
    \/ \E g \in DOMAIN frames : Uplevel(g)
    \/ \E w \in Words : Get(w) \/ Unset(w)
    \/ \E w \in Words, v \in Vals : Set(w, v)
    \/ \E n, t \in Words : CallByName(n, t)
    \/ \E n \in LinkWords, t \in Words, tf \in DOMAIN frames : Upvar(n, t, tf)
    \/ Continue

Spec == Init /\ [][Next]_vars

\* An operation is a C call: once begun it goes on.
FairSpec == Spec /\ WF_vars(Continue)

---------------------------------------------------------------------------
(* Properties *)

MaybeVar == VarIds \cup {Nil}
MaybeWord == Words \cup {Nil}
Contents == Vals \cup Words
FrameType ==
    [id : Nat, parent : Nat, level : Nat, hasStatics : BOOLEAN,
     vars : UNION {[D -> VarIds] : D \in SUBSET Bases}]
Kinds == {"idle", "get", "set", "unset", "byname", "argument", "upvar", "probe", "bind"}
OpType ==
    [kind : Kinds, asked : MaybeWord, word : MaybeWord, origin : Nat, val : Vals \cup {Nil},
     name : MaybeWord, target : MaybeWord, tframe : Nat, was : Nat]

\* Types of the variables.
TypeOK ==
    /\ frames \in Seq(FrameType)
    /\ cur \in DOMAIN frames
    /\ stack \in Seq([kind : {"call", "uplevel"}, saved : Nat])
    /\ var \in [VarIds -> [used : BOOLEAN, obj : Contents \cup {Nil}, link : Nat]]
    /\ callFrameEpoch \in Nat
    /\ cache \in [Words -> [id : Int, var : MaybeVar]]
    /\ op \in OpType
    /\ result \in Contents \cup {Done, Fail}

\* The Jim_Var pointer in a name object is uncounted and outlives frames,
\* unsets and links; whenever the id it was filled with makes it valid in a
\* live frame, it is the variable that a lookup by name finds there.
CacheFresh ==
    \A w \in Words, f \in DOMAIN frames :
        cache[w].id = frames[FrameOf(w, f)].id => cache[w].var = Lookup(w, f)

\* Nodes of the graph of links: a frame and a name in it.
Node(w, f) == <<FrameOf(w, f), NameOf[w]>>
Links == {n \in (DOMAIN frames) \X Bases :
             n[2] \in DOMAIN frames[n[1]].vars /\ IsLink(frames[n[1]].vars[n[2]])}
At(n) == frames[n[1]].vars[n[2]]
Target(n) == Node(var[At(n)].obj, var[At(n)].link)

\* A link leads to a live frame that the frame of the link was called from,
\* or to its own: no link survives its target's frame, and the frame whose
\* structure is reused next is never the end of a link.
LinksLive == \A n \in Links : Target(n)[1] \in Callers(n[1])

\* "can't upvar from variable to itself": no set of links leads only to itself,
\* so that an access that follows links comes to an end.
NoLinkCycle == \A S \in SUBSET Links : S = {} \/ \E n \in S : Target(n) \notin S

\* Every read, write, unset and link that is begun ends.
AccessEnds == op # Idle ~> op = Idle

\* What a script can see of the state: a link that an operation has cut in
\* order to replace it is still there until the operation ends.
Spelt(obj) == IF obj \in Words THEN NameOf[obj] ELSE obj
Relinking(f, b) == op.was # 0 /\ <<f, b>> = Node(op.name, op.origin)
Seen(f, b) ==
    LET x == frames[f].vars[b]
    IN  [obj |-> Spelt(var[x].obj), link |-> IF Relinking(f, b) THEN op.was ELSE var[x].link]
Scopes ==
    [f \in DOMAIN frames |->
        [parent |-> frames[f].parent, level |-> frames[f].level,
         hasStatics |-> frames[f].hasStatics,
         vars |-> [b \in DOMAIN frames[f].vars |-> Seen(f, b)]]]

\* The request that op answers.
Request ==
    [kind |-> IF op.kind = "idle" THEN "none"
              ELSE IF op.kind \in {"argument", "probe", "bind"} THEN "upvar" ELSE op.kind,
     node |-> IF op.asked = Nil THEN <<>> ELSE Node(op.asked, op.origin),
     val |-> op.val,
     target |-> IF op.target = Nil THEN <<>> ELSE Node(op.target, op.tframe)]

Promise == INSTANCE JimScopes WITH
    scopes <- Scopes,
    cur <- IF op = Idle THEN cur ELSE op.origin,
    static <- [b \in DOMAIN Statics |-> Spelt(var[Statics[b]].obj)],
    request <- Request,
    result <- Spelt(result),
    StaticNames <- DOMAIN Statics

\* The caches, the reuse of Jim_Var structures and frames, and the recursion
\* through links cannot be observed: a read returns what was last written to
\* the end of its chain of links, and a failed operation has no other effect
\* than the one JimScopes gives it.
Implements == Promise!Spec
=============================================================================

---------------------------- MODULE JimReferences ----------------------------
(***************************************************************************)
(* References and their garbage collector: [ref], [getref], [setref],      *)
(* [finalize] and [collect].  Jim_Collect marks what live objects spell    *)
(* and then sweeps the hash table of the references while finalizers, which*)
(* are scripts, use that table.                                            *)
(*                                                                         *)
(* Of an object only matters which reference it spells and whether the mark*)
(* phase sees it.  `var' stands for every place where a script keeps one.  *)
(***************************************************************************)
EXTENDS JimHashTable

CONSTANTS
    MaxRefs,     \* bound: references created
    Vars,        \* variables of scripts
    MaxLinks,    \* bound: references whose value spells a reference
    MaxFinalizers \* bound: references with a finalizer

Ids == {2 * n : n \in 0 .. MaxRefs - 1}

ASSUME ReferencesAssumption ==
    /\ \A id \in Ids : id \in DOMAIN Hash /\ Hash[id] \in Nat
    /\ MaxRefs \in Nat \ {0} /\ {MaxLinks, MaxFinalizers} \subseteq Nat

VARIABLES
    table,            \* interp.references
    ref,              \* the references in it
    nextId,           \* interp.referenceNextId
    lastCollectId,    \* interp.lastCollectId, of which only matters if it is ~0
    var,              \* the object each variable holds
    sweeps,           \* the calls of Jim_Collect that are in progress
    excused           \* history: references that the collector may take from
                      \* those who hold them, see ReferencesLive

vars == <<table, ref, nextId, lastCollectId, var, sweeps,
          excused>>

\* An object that spells reference `id'.  "reference": its internal
\* representation, with a pointer to the reference.  "string": a string.
\* "hidden": a string the mark phase does not find it in, because it was used as
\* a regular expression, a type that says it contains no references, or because
\* something that looks like the beginning of a reference comes before it.
Object == [kind: {"plain", "reference", "string", "hidden"}, id: Ids]
Plain == [kind |-> "plain", id |-> 0]
Spells(o) == o.kind # "plain"
Seen(o) == o.kind \in {"reference", "string"}

Nowhere == "nowhere"   \* no variable: the result of [ref] is dropped
NoName == FALSE        \* no finalizer
NoCreation == [v |-> Nowhere, value |-> Plain, finalizer |-> NoName, due |-> FALSE]

Collecting == "~0"     \* in lastCollectId
AnId == "an id"

\* A call of Jim_Collect.
Sweep == [marks: SUBSET Ids, iter: [index: Int, entry: Int, nextEntry: Int],
          at: Ids \cup {NULL},    \* the reference whose finalizer is running
          creation: [v: Vars \cup {Nowhere}, value: Object, finalizer: BOOLEAN,
                     due: BOOLEAN],  \* what [ref] does when this call returns
          garbage: SUBSET Ids,    \* history: entries without a mark
          passed: SUBSET Ids]     \* history: entries behind the iterator when
                                  \* the table grew

Busy == sweeps # <<>>
Current == Last(sweeps)
\* A script runs: a finalizer's, or one outside of any collection.
ScriptRuns == Busy => Current.at # NULL
SetCurrent(s) == [sweeps EXCEPT ![Len(sweeps)] = s]

----------------------------------------------------------------------------
(* Jim_Collect                                                             *)

\* The objects that are alive: in variables, as the values of references, and
\* among the words of a [ref] that waits.
Live(waiting) == {var[v] : v \in Vars} \cup {ref[id].value : id \in DOMAIN ref}
                 \cup {waiting.value}

\* The mark phase reads every live object.
MarksOfVariables(waiting) == {var[v].id : v \in {w \in Vars : Seen(var[w])}} \* mutant
Marks(waiting) == {o.id : o \in {l \in Live(waiting) : Seen(l)}}

\* The references that only objects hidden from the marks spell.
Hidden(waiting) == {o.id : o \in {l \in Live(waiting) : Spells(l)}}
                   \ {o.id : o \in {l \in Live(waiting) : Seen(l)}}

\* Only one collection at a time: a call from a finalizer returns at once.
AlwaysCollects == TRUE \* mutant
MayCollect == lastCollectId # Collecting

BeginCollect(waiting) ==
    /\ lastCollectId' = Collecting
    /\ sweeps' = Append(sweeps, [marks |-> Marks(waiting), iter |-> Iterator,
                                 at |-> NULL, creation |-> waiting,
                                 garbage |-> DOMAIN ref \ Marks(waiting),
                                 passed |-> {}])
    /\ excused' = excused \cup Hidden(waiting)
    /\ UNCHANGED <<table, ref, nextId, var>>

\* [collect]
CollectCommand ==
    /\ ScriptRuns
    /\ MayCollect
    /\ BeginCollect(NoCreation)

Drops(id) ==
    LET others == {var[v] : v \in Vars} \cup {ref[i].value : i \in DOMAIN ref \ {id}}
                  \cup {Current.creation.value}
    IN  /\ table' = Delete(table, id)
        /\ ref' = [i \in DOMAIN ref \ {id} |-> ref[i]]
        /\ excused' = IF \E o \in others : Spells(o) /\ o.id = id THEN excused
                      ELSE excused \ {id}

\* The sweep comes to the next entry.  With a mark it stays, without one it is
\* deleted, after its finalizer has run if it has one.
SweepEntry ==
    /\ Busy /\ Current.at = NULL
    /\ LET it == Advance(table, Current.iter)
           id == it.entry
           at == IF id \in Current.marks \/ ~ref[id].finalizer THEN NULL ELSE id
       IN  /\ id # NULL
           /\ sweeps' = SetCurrent([Current EXCEPT !.iter = it, !.at = at])
           /\ \/ /\ id \in Current.marks
                 /\ UNCHANGED <<table, ref, excused>>
              \/ /\ id \notin Current.marks /\ at = NULL
                 /\ Drops(id)
              \/ /\ at # NULL
                 /\ ref' = [ref EXCEPT ![id].calls = @ + 1]
                 /\ excused' = excused \cup {id}
                 /\ UNCHANGED table
    /\ UNCHANGED <<nextId, lastCollectId, var>>

\* The finalizer returns, with an error or without one.
FinalizerEnds ==
    /\ Busy /\ Current.at # NULL
    /\ Drops(Current.at)
    /\ sweeps' = SetCurrent([Current EXCEPT !.at = NULL])
    /\ UNCHANGED <<nextId, lastCollectId, var>>

----------------------------------------------------------------------------
(* [ref]                                                                   *)

\* The entries of the iterator's chain that come after the one it holds: when
\* the table grows they can get before it.
BehindNext(it) ==
    IF it.nextEntry = NULL THEN {} ELSE ToSet(Following(table, it.nextEntry))

\* Jim_NewReference after Jim_CollectIfNeeded.  nextId is incremented twice.
\* `left' are the collections in progress.
Creates(c, left) ==
    LET grown == Insert(table, nextId)
    IN  /\ table' = grown
        /\ ref' = [i \in DOMAIN ref \cup {nextId} |->
                     IF i = nextId THEN [value |-> c.value, finalizer |-> c.finalizer,
                                         calls |-> 0]
                     ELSE ref[i]]
        /\ nextId' = nextId + 2
        /\ var' = [v \in Vars |-> IF v = c.v THEN [kind |-> "reference", id |-> nextId]
                                  ELSE var[v]]
        /\ IF left = <<>> THEN sweeps' = left /\ UNCHANGED excused
           ELSE /\ sweeps' = [left EXCEPT ![Len(left)].passed =
                                IF grown.size = table.size THEN @
                                ELSE @ \cup BehindNext(Last(left).iter)]
                /\ excused' = excused \cup {nextId}

\* What [ref] and [setref] are given, within the bounds.
Links == {id \in DOMAIN ref : Spells(ref[id].value)}
Finalizers == {id \in DOMAIN ref : ref[id].finalizer}
Values == {Plain} \cup (IF Cardinality(Links) < MaxLinks THEN {var[v] : v \in Vars} ELSE {})
Names == IF Cardinality(Finalizers) < MaxFinalizers THEN BOOLEAN ELSE {NoName}

\* Jim_NewReference.  `elapsed' says that the time period has passed since the
\* last collection.  The other trigger never fires: the number of ids since then
\* is computed from lastCollectTime, seconds since 1970 and above any id.
Ref(v, value, finalizer, elapsed) ==
    LET c == [v |-> v, value |-> value, finalizer |-> finalizer, due |-> TRUE]
    IN  /\ ScriptRuns
        /\ nextId \in Ids
        /\ \A s \in ToSet(sweeps) : s.creation.due => nextId + 2 \in Ids
        /\ IF elapsed /\ MayCollect
           THEN BeginCollect(c)
           ELSE Creates(c, sweeps) /\ UNCHANGED lastCollectId

\* The sweep is over, and the [ref] that started it goes on.
CollectEnds ==
    /\ Busy /\ Current.at = NULL
    /\ Advance(table, Current.iter).entry = NULL
    /\ lastCollectId' = AnId
    /\ IF Current.creation.due
       THEN Creates(Current.creation, Front(sweeps))
       ELSE sweeps' = Front(sweeps) /\ UNCHANGED <<table, ref, nextId, var, excused>>

----------------------------------------------------------------------------
(* The other commands.  An object whose reference is gone although it has  *)
(* been converted holds a pointer to freed memory: what a script does with *)
(* it is not modelled.                                                     *)

Dangles(o) == o.kind = "reference" /\ o.id \notin DOMAIN ref

Unrelated == UNCHANGED <<table, nextId, lastCollectId, sweeps,
                         excused>>

\* Jim_GetReference: a string is looked up in the table once, and its object
\* converted.
Resolves(o) == o.kind \in {"reference", "string", "hidden"} /\ Find(table, o.id)
Converted(o) == [o EXCEPT !.kind = "reference"]

\* [set w [getref $v]]
GetRef(v, w) ==
    /\ ScriptRuns /\ ~Dangles(var[v])
    /\ Resolves(var[v])
    /\ var' = [[var EXCEPT ![v] = Converted(@)] EXCEPT ![w] = ref[var[v].id].value]
    /\ Unrelated /\ UNCHANGED ref

\* [setref $v value]
SetRef(v, value) ==
    /\ ScriptRuns /\ ~Dangles(var[v])
    /\ Resolves(var[v])
    /\ var' = [var EXCEPT ![v] = Converted(@)]
    /\ ref' = [ref EXCEPT ![var[v].id].value = value]
    /\ Unrelated

\* [finalize $v command]
Finalize(v) ==
    /\ ScriptRuns /\ ~Dangles(var[v])
    /\ Resolves(var[v]) /\ TRUE \in Names
    /\ var' = [var EXCEPT ![v] = Converted(@)]
    /\ ref' = [ref EXCEPT ![var[v].id].finalizer = TRUE]
    /\ Unrelated

\* [set w $o], [unset w]: o is a new string that spells what v spells, another
\* kind of object that does, or nothing.
Keeps(w, o) ==
    /\ ScriptRuns
    /\ var' = [var EXCEPT ![w] = o]
    /\ Unrelated /\ UNCHANGED ref

Copy(v, w) == Spells(var[v]) /\ Keeps(w, [var[v] EXCEPT !.kind = "string"])
Hide(v) == Spells(var[v]) /\ Keeps(v, [var[v] EXCEPT !.kind = "hidden"])
Unset(v) == Spells(var[v]) /\ Keeps(v, Plain)

\* A finalizer keeps its argument, the string of the reference that is going.
Resurrect(w) == Busy /\ Keeps(w, [kind |-> "string", id |-> Current.at])

----------------------------------------------------------------------------
Init ==
    /\ table = EmptyTable /\ ref = <<>> /\ nextId = 0
    /\ lastCollectId = AnId
    /\ var = [v \in Vars |-> Plain]
    /\ sweeps = <<>> /\ excused = {}

Script ==
    \/ CollectCommand
    \/ \E v \in Vars \cup {Nowhere}, value \in Values, f \in Names, e \in BOOLEAN :
          Ref(v, value, f, e)
    \/ \E v, w \in Vars : GetRef(v, w) \/ Copy(v, w)
    \/ \E v \in Vars, value \in Values : SetRef(v, value)
    \/ \E v \in Vars : Finalize(v) \/ Hide(v) \/ Unset(v) \/ Resurrect(v)

Next == Script \/ SweepEntry \/ FinalizerEnds \/ CollectEnds

Spec == Init /\ [][Next]_vars

----------------------------------------------------------------------------
\* Type correctness: lastCollectId says whether a collection is in progress, and
\* there is never more than one.
TypeOK ==
    /\ DOMAIN ref \subseteq Ids
    /\ \A id \in DOMAIN ref : ref[id] \in [value: Object, finalizer: BOOLEAN, calls: Nat]
    /\ nextId \in Nat
    /\ var \in [Vars -> Object]
    /\ Len(sweeps) <= 1 /\ (lastCollectId = Collecting <=> Busy)
    /\ \A s \in ToSet(sweeps) : s \in Sweep
    /\ excused \subseteq Ids

\* The table holds exactly the references, each where a lookup finds it, through
\* every growth and deletion.
TableSound == Sound(table) /\ Keys(table) = DOMAIN ref

\* Jim_Collect, "destroy every reference that is not referenced outside": one
\* that a live object spells is there, and no converted object points to freed
\* memory.  The collector breaks this for three kinds of references: those that
\* only objects hidden from the marks spelled, those kept by their own finalizer,
\* and those created by a finalizer, which are swept without having been marked.
ReferencesLive ==
    \A o \in Live(NoCreation) : Seen(o) => o.id \in DOMAIN ref \cup excused

\* The sweep never follows a pointer to an entry that is gone: scripts run
\* between two steps of the iterator, but only the sweep deletes entries.
IteratorSafe ==
    Busy => /\ Current.at \in DOMAIN ref \cup {NULL}
            /\ Current.iter.nextEntry \in Keys(table) \cup {NULL}

\* No finalizer is called twice for one reference, whatever finalizers do.
FinalizedOnce == \A id \in DOMAIN ref : ref[id].calls <= 1

\* A collection takes all the garbage it has found; what it passes by was in the
\* chain under the iterator while a finalizer's [ref] made the table grow.
SweepComplete ==
    [][Len(sweeps') < Len(sweeps) =>
          Current.garbage \cap DOMAIN ref \subseteq Current.passed]_vars
=============================================================================

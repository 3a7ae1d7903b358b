----------------------------- MODULE JimValues -----------------------------
(***************************************************************************)
(* The values of the Jim interpreter as the objects that hold them: an     *)
(* object has a reference count, perhaps a text, perhaps an internal       *)
(* representation (a list or a dict of other objects), and is shared by    *)
(* variables, by the words of scripts and by other objects.  Commands read *)
(* and change values by changing objects in place when nobody else holds   *)
(* them and by copying them when somebody does.                            *)
(*                                                                         *)
(* One action is one command of a script, with its nested [cmd] when it    *)
(* stores that command's result.  Objects for indexes and results are left *)
(* out: a result is replaced before the next command looks at anything.    *)
(* All keys of a dict share a bucket of its hash table.                    *)
(***************************************************************************)
EXTENDS JimListStrings, FiniteSets, TLC

CONSTANTS
    Vars,       \* variables
    Words,      \* literal words of the scripts, which the scripts hold
    WordText,   \* their texts
    EmptyWord,  \* the one that is the interpreter's empty object
    SetVars,    \* the variables set before the commands begin, and their words
    Objs,       \* 1..n, the objects there is memory for
    Paths,      \* the index paths given to [lindex] and [lset]
    Ranges,     \* the pairs of indexes given to [lrange] and [lreplace]
    KeyPaths,   \* the paths of words given to [dict set], [dict unset], [dict get]
    MaxCommands \* the commands a script runs (a bound)

ASSUME ConstantsAssumption ==
    /\ Vars \cap Words = {} /\ EmptyWord \in Words /\ WordText[EmptyWord] = <<>>
    /\ DOMAIN SetVars \subseteq Vars /\ \A v \in DOMAIN SetVars : SetVars[v] \in Words
    /\ Paths \subseteq Seq(Int) \ {<<>>} /\ Ranges \subseteq Int \X Int
    /\ KeyPaths \subseteq Seq(Words) \ {<<>>}
    /\ Objs = 1..Cardinality(Objs) /\ Cardinality(Words) < Cardinality(Objs)
    /\ MaxCommands \in Nat

VARIABLES
    heap,       \* the objects
    bind,       \* what each variable and each word is; 0 if the variable is unset
    request,    \* the last command and whether it succeeded
    count       \* the number of commands so far

vars == <<heap, bind, request, count>>
Names == Vars \cup Words
Args == Names \ {EmptyWord}

Freed == [refs |-> -1, spelt |-> FALSE, text |-> <<>>, type |-> "none", elems |-> <<>>]
Live(h) == {o \in Objs : h[o].refs >= 0}

---------------------------------------------------------------------------
(* Reference counts, creation and release *)

OnceShared(h, o) == h[o].refs > 2 \* mutant: off by one
Jim_IsShared(h, o) == h[o].refs > 1

Incr(h, o) == [h EXCEPT ![o].refs = @ + 1]
IncrAll(h, os) == Scan(Incr, h, os)

RECURSIVE Decr(_, _)
Jim_FreeIntRep(h, o) ==
    Scan(Decr, [h EXCEPT ![o].type = "none", ![o].elems = <<>>], h[o].elems)
Jim_FreeObj(h, o) == [Jim_FreeIntRep(h, o) EXCEPT ![o] = Freed]
Decr(h, o) ==
    LET less == [h EXCEPT ![o].refs = @ - 1]
    IN IF less[o].refs <= 0 THEN Jim_FreeObj(less, o) ELSE less
DecrAll(h, os) == Scan(Decr, h, os)

\* The object that the next creation takes.
Jim_NewObj(h) == CHOOSE o \in Objs \ Live(h) : \A p \in Objs \ Live(h) : o <= p

StringObj(text) == [refs |-> 0, spelt |-> TRUE, text |-> text, type |-> "none", elems |-> <<>>]
CompoundObj(type, elems) ==
    [refs |-> 0, spelt |-> FALSE, text |-> <<>>, type |-> type, elems |-> elems]

Jim_NewListObj(h, elems) ==
    IncrAll([h EXCEPT ![Jim_NewObj(h)] = CompoundObj("list", elems)], elems)

\* A dict's keys with their values, and its entries in reverse order.
Pairs(elems) ==
    [i \in 1..(Len(elems) \div 2) |-> <<elems[2 * i - 1], elems[2 * i]>>]
Reversed(elems) == Scan(LAMBDA done, pair : pair \o done, <<>>, Pairs(elems))

\* The copy has no references yet.  Adding the entries of a dict one by one to
\* a new table turns them round.
Jim_DuplicateObj(h, o) ==
    LET copy == IF h[o].spelt /\ h[o].text = <<>> THEN StringObj(<<>>)
                ELSE [h[o] EXCEPT !.refs = 0,
                                  !.elems = IF h[o].type = "dict" THEN Reversed(@) ELSE @]
    IN IncrAll([h EXCEPT ![Jim_NewObj(h)] = copy], copy.elems)

---------------------------------------------------------------------------
(* The two representations *)

\* The text an object has, or would have if it were asked for.
RECURSIVE TextOf(_, _)
TextOf(h, o) ==
    IF h[o].spelt THEN h[o].text
    ELSE JimMakeListStringRep[[i \in DOMAIN h[o].elems |-> TextOf(h, h[o].elems[i])]]

\* Asking for the text of an object makes those of the objects in it.
RECURSIVE Jim_GetString(_, _)
Jim_GetString(h, o) ==
    IF h[o].spelt THEN h
    ELSE [Scan(Jim_GetString, h, h[o].elems) EXCEPT ![o].spelt = TRUE, ![o].text = TextOf(h, o)]

Jim_InvalidateStringRep(h, o) == [h EXCEPT ![o].spelt = FALSE, ![o].text = <<>>]

FreeRepFirst(h, o) == Jim_FreeIntRep(h, o) \* mutant: the text is lost
SetStringFromAny(h, o) == Jim_FreeIntRep(Jim_GetString(h, o), o)

SetListFromAny(h, o) ==
    LET AddElement(g, text) ==
            [g EXCEPT ![Jim_NewObj(g)] = [StringObj(text) EXCEPT !.refs = 1],
                      ![o].elems = Append(@, Jim_NewObj(g))]
    IN CASE h[o].type = "list" -> h
         [] h[o].type = "dict" /\ ~h[o].spelt -> [h EXCEPT ![o].type = "list"]
         [] h[o].type # "list" /\ h[o].spelt ->
               Scan(AddElement, [Jim_FreeIntRep(h, o) EXCEPT ![o].type = "list"],
                    JimParseList(h[o].text))

\* Where the key with this text is in dict o.
KeyAt(h, o, text) ==
    {i \in DOMAIN h[o].elems : i % 2 = 1 /\ TextOf(h, h[o].elems[i]) = text}
HasKey(h, o, key) == KeyAt(h, o, TextOf(h, key)) # {}
ValueAt(h, o, key) ==
    LET i == CHOOSE i \in KeyAt(h, o, TextOf(h, key)) : TRUE IN h[o].elems[i + 1]

\* Give key the value val in dict o.  A new entry goes first in its bucket.
ReplaceValue(h, o, i, val) ==
    Decr([Incr(h, val) EXCEPT ![o].elems[i] = val], h[o].elems[i])
ReplaceEntry(h, o, key, val, at) ==
    IF at = {} THEN [IncrAll(h, <<key, val>>) EXCEPT ![o].elems = <<key, val>> \o @]
    ELSE ReplaceValue(h, o, 1 + CHOOSE i \in at : TRUE, val)
DictAddSpelt(h, o, key, val) == ReplaceEntry(h, o, key, val, KeyAt(h, o, TextOf(h, key)))
DictAddElement(h, o, key, val) == DictAddSpelt(Jim_GetString(h, key), o, key, val)

DeleteEntryAt(h, o, i, all) ==
    DecrAll([h EXCEPT ![o].elems = SubSeq(all, 1, i - 1) \o SubSeq(all, i + 2, Len(all))],
            <<all[i], all[i + 1]>>)
DeleteEntry(h, o, at) ==
    IF at = {} THEN h ELSE DeleteEntryAt(h, o, CHOOSE i \in at : TRUE, h[o].elems)
DictRemoveSpelt(h, o, key) == DeleteEntry(h, o, KeyAt(h, o, TextOf(h, key)))
DictRemoveElement(h, o, key) == DictRemoveSpelt(Jim_GetString(h, key), o, key)

\* Fails, leaving a list, when a key has no value.  Before a list somebody else
\* holds becomes a dict, its text is made.
Paired(h, o) ==
    LET AddPair(g, pair) == DictAddElement(g, o, pair[1], pair[2])
    IN IF Len(h[o].elems) % 2 = 1 THEN h
       ELSE DecrAll(Scan(AddPair, [h EXCEPT ![o].type = "dict", ![o].elems = <<>>],
                         Pairs(h[o].elems)),
                    h[o].elems)
SetDictFromAny(h, o) ==
    LET kept == IF h[o].type = "list" /\ Jim_IsShared(h, o) THEN Jim_GetString(h, o) ELSE h
    IN IF h[o].type = "dict" THEN h ELSE Paired(SetListFromAny(kept, o), o)

---------------------------------------------------------------------------
(* Indexes *)

\* The element an index stands for: 0 is the first, -1 is [end], -2 [end-1].
JimRelToAbsIndex(len, idx) == IF idx < 0 THEN len + idx ELSE idx
Position(len, idx) ==
    LET abs == JimRelToAbsIndex(len, idx) IN IF abs \in 0..(len - 1) THEN abs + 1 ELSE 0

\* The first element of a range, from 0, and the number of elements.
JimRelToAbsRange(len, range) ==
    LET first == JimRelToAbsIndex(len, range[1])
        last == JimRelToAbsIndex(len, range[2])
        size == (IF last < len THEN last ELSE len - 1) - (IF first < 0 THEN 0 ELSE first) + 1
    IN IF first > last THEN [first |-> first, size |-> 0]
       ELSE [first |-> IF first < 0 THEN 0 ELSE first, size |-> IF size < 0 THEN 0 ELSE size]

---------------------------------------------------------------------------
(* Changes below the top of a value *)

PutWithoutRelease(h, list, i, val) == \* mutant
    Incr([h EXCEPT ![list].elems[i] = val], val)
ListPut(h, list, i, val) ==
    Incr([Decr(h, h[list].elems[i]) EXCEPT ![list].elems[i] = val], val)

\* An element or a value that somebody else holds too is replaced by a copy
\* before it is changed, a value that is missing by an empty dict.
OwnElement(h, list, i) ==
    IF Jim_IsShared(h, h[list].elems[i])
    THEN ListPut(Jim_DuplicateObj(h, h[list].elems[i]), list, i, Jim_NewObj(h))
    ELSE h

OwnValueAt(h, dict, key, val) ==
    IF Jim_IsShared(h, val)
    THEN DictAddElement(Jim_DuplicateObj(h, val), dict, key, Jim_NewObj(h))
    ELSE h
OwnValue(h, dict, key) ==
    IF HasKey(h, dict, key) THEN OwnValueAt(h, dict, key, ValueAt(h, dict, key))
    ELSE DictAddElement([h EXCEPT ![Jim_NewObj(h)] = CompoundObj("dict", <<>>)],
                        dict, key, Jim_NewObj(h))

\* Set the element at path in list o to val.
RECURSIVE SetIndexIn(_, _, _, _)
SetIndexBelow(h, o, i, path, val) ==
    SetIndexIn(Jim_InvalidateStringRep(h, o), h[o].elems[i], path, val)
SetIndexAt(h, o, i, path, val) ==
    CASE i = 0 -> [heap |-> h, ok |-> FALSE]
      [] i # 0 /\ path = <<>> ->
            [heap |-> Jim_InvalidateStringRep(ListPut(h, o, i, val), o), ok |-> TRUE]
      [] i # 0 /\ path # <<>> -> SetIndexBelow(OwnElement(h, o, i), o, i, path, val)
SetIndexInList(h, o, path, val) ==
    SetIndexAt(h, o, Position(Len(h[o].elems), Head(path)), Tail(path), val)
SetIndexIn(h, o, path, val) == SetIndexInList(SetListFromAny(h, o), o, path, val)

\* val 0 removes the key; only the last key of the path may be missing then.
RECURSIVE SetKeysIn(_, _, _, _)
SetKeysBelow(h, o, key, keys, val) == SetKeysIn(h, ValueAt(h, o, key), keys, val)
SetKeysAt(h, o, key, keys, val) ==
    CASE keys = <<>> ->
            [heap |-> IF val = 0 THEN DictRemoveElement(h, o, key)
                      ELSE DictAddElement(h, o, key, val),
             ok |-> TRUE]
      [] keys # <<>> /\ val = 0 /\ ~HasKey(h, o, key) -> [heap |-> h, ok |-> FALSE]
      [] keys # <<>> /\ (val = 0 => HasKey(h, o, key)) ->
            SetKeysBelow(OwnValue(h, o, key), o, key, keys, val)
SetKeysIfDict(h, o, keys, val) ==
    IF h[o].type # "dict" THEN [heap |-> h, ok |-> FALSE]
    ELSE SetKeysAt(Jim_InvalidateStringRep(h, o), o, bind[Head(keys)], Tail(keys), val)
SetKeysIn(h, o, keys, val) == SetKeysIfDict(SetDictFromAny(h, o), o, keys, val)

\* The object an index path or a path of keys leads to; 0 if there is none.
RECURSIVE IndexIn(_, _, _)
IndexInList(h, o, path) ==
    LET i == Position(Len(h[o].elems), Head(path))
    IN IF i = 0 THEN [heap |-> h, obj |-> 0] ELSE IndexIn(h, h[o].elems[i], Tail(path))
IndexIn(h, o, path) ==
    IF path = <<>> THEN [heap |-> h, obj |-> o] ELSE IndexInList(SetListFromAny(h, o), o, path)

RECURSIVE KeysIn(_, _, _)
KeysInDict(h, o, keys) ==
    LET key == bind[Head(keys)]
    IN IF h[o].type # "dict" \/ ~HasKey(h, o, key) THEN [heap |-> h, obj |-> 0]
       ELSE KeysIn(h, ValueAt(h, o, key), Tail(keys))
KeysIn(h, o, keys) ==
    IF keys = <<>> THEN [heap |-> h, obj |-> o] ELSE KeysInDict(SetDictFromAny(h, o), o, keys)

---------------------------------------------------------------------------
(* Sorting and joining *)

SortedByText(h, os) ==
    SortSeq(os, LAMBDA o, p : JimStringCompare(TextOf(h, o), TextOf(h, p)) < 0)

\* Of equal neighbours the last one is kept.
ListRemoveDuplicates(h, list) ==
    LET Same(o, p) == TextOf(h, o) = TextOf(h, p)
        Keep(done, o) == IF done # <<>> /\ Same(done[Len(done)], o)
                         THEN [done EXCEPT ![Len(done)] = o]
                         ELSE Append(done, o)
        kept == Scan(Keep, <<>>, h[list].elems)
    IN DecrAll(IncrAll([h EXCEPT ![list].elems = kept], kept), h[list].elems)

\* Both are spelt by the comparisons, so a single element is not.
ListSortElements(h, list) ==
    LET spelt == IF Len(h[list].elems) > 1 THEN Scan(Jim_GetString, h, h[list].elems) ELSE h
        sorted == [spelt EXCEPT ![list].elems = SortedByText(spelt, @)]
    IN Jim_InvalidateStringRep(ListRemoveDuplicates(sorted, list), list)

---------------------------------------------------------------------------
(* Commands *)

IsSet(n) == bind[n] # 0

\* A dict that has no text may come in another order when it is copied.
RECURSIVE HoldsDict(_)
HoldsDict(o) ==
    ~heap[o].spelt /\ (heap[o].type = "dict" \/ \E i \in DOMAIN heap[o].elems : HoldsDict(heap[o].elems[i]))

Asked(cmd, to, from, arg, path) ==
    [cmd |-> cmd, to |-> to, from |-> from, arg |-> arg, path |-> path, ok |-> TRUE,
     dict |-> \E n \in {to, from} : IsSet(n) /\ HoldsDict(bind[n])]

Finish(h, b, r) == heap' = h /\ bind' = b /\ request' = r /\ count' = count + 1

Jim_SetVariable(h, v, o) ==
    LET held == Incr(h, o) IN IF bind[v] = 0 THEN held ELSE Decr(held, bind[v])
Bind(v, o) == [bind EXCEPT ![v] = o]

\* The end of a command that stores o in v, and of one that stores nothing; its
\* words args are held until then.
StoreTo(v, h, o, args, r) ==
    Finish(DecrAll(Jim_SetVariable(h, v, o), args), Bind(v, o), r)
GiveUp(h, args, r) == Finish(DecrAll(h, args), bind, [r EXCEPT !.ok = FALSE])

\* [set v [...]], where the inner command leaves o as its result.
StoreResult(v, h, o, args, r) ==
    Finish(Decr(Jim_SetVariable(DecrAll(Incr(h, o), args), v, o), o), Bind(v, o), r)
StoreNewList(v, h, elems, args, r) ==
    StoreResult(v, Jim_NewListObj(h, elems), Jim_NewObj(h), args, r)

\* What a command that changes the variable v works on: its object, or a copy.
Owned(h, v) == IF Jim_IsShared(h, bind[v]) THEN Jim_NewObj(h) ELSE bind[v]
Unshare(h, v) == IF Jim_IsShared(h, bind[v]) THEN Jim_DuplicateObj(h, bind[v]) ELSE h
\* A copy that is not stored after all is released.
Abandon(h, before, v) == IF Jim_IsShared(before, bind[v]) THEN Jim_FreeObj(h, Jim_NewObj(before)) ELSE h

\* The end of a command that changed the object of v, or a copy of it, in place.
Changed(v, done, o, held, args, r) ==
    IF done.ok THEN StoreTo(v, Jim_InvalidateStringRep(done.heap, o), o, args, r)
    ELSE GiveUp(Abandon(done.heap, held, v), args, r)

Set(v, n) ==
    /\ IsSet(n)
    /\ StoreTo(v, Incr(heap, bind[n]), bind[n], <<bind[n]>>, Asked("set", v, n, n, <<>>))

Unset(v) ==
    /\ IsSet(v)
    /\ Finish(Decr(heap, bind[v]), Bind(v, 0), Asked("unset", v, v, v, <<>>))

\* [puts $n]
Puts(n) ==
    /\ IsSet(n)
    /\ Finish(Jim_GetString(heap, bind[n]), bind, Asked("puts", n, n, n, <<>>))

Llength(n) ==
    /\ IsSet(n)
    /\ Finish(SetListFromAny(heap, bind[n]), bind, Asked("llength", n, n, n, <<>>))

\* [append v $n]
AppendTo(v, n) ==
    /\ IsSet(n)
    /\ LET held == Jim_GetString(Incr(heap, bind[n]), bind[n])
           new == Jim_NewObj(held)
           o == IF IsSet(v) THEN Owned(held, v) ELSE new
           h == SetStringFromAny(IF IsSet(v) THEN Unshare(held, v)
                                 ELSE [held EXCEPT ![new] = StringObj(<<>>)], o)
       IN StoreTo(v, [h EXCEPT ![o].text = @ \o held[bind[n]].text], o, <<bind[n]>>,
                  Asked("append", v, n, n, <<>>))

LappendKeepsText(v, n) == \* mutant: the old text is not invalidated
    /\ IsSet(n)
    /\ LET held == Incr(heap, bind[n])
           o == IF IsSet(v) THEN Owned(held, v) ELSE Jim_NewObj(held)
           h == SetListFromAny(IF IsSet(v) THEN Unshare(held, v) ELSE Jim_NewListObj(held, <<>>), o)
       IN StoreTo(v, Incr([h EXCEPT ![o].elems = Append(@, bind[n])], bind[n]), o, <<bind[n]>>,
                  Asked("lappend", v, n, n, <<>>))

Lappend(v, n) ==
    /\ IsSet(n)
    /\ LET held == Incr(heap, bind[n])
           o == IF IsSet(v) THEN Owned(held, v) ELSE Jim_NewObj(held)
           h == SetListFromAny(IF IsSet(v) THEN Unshare(held, v) ELSE Jim_NewListObj(held, <<>>), o)
           longer == [Jim_InvalidateStringRep(h, o) EXCEPT ![o].elems = Append(@, bind[n])]
       IN StoreTo(v, Incr(longer, bind[n]), o, <<bind[n]>>, Asked("lappend", v, n, n, <<>>))

Lset(v, path, n) ==
    /\ IsSet(v) /\ IsSet(n)
    /\ LET held == Incr(heap, bind[n])
           o == Owned(held, v)
       IN Changed(v, SetIndexIn(Unshare(held, v), o, path, bind[n]), o, held, <<bind[n]>>,
                  Asked("lset", v, v, n, path))

\* [set v [list $m $n]]
List(v, m, n) ==
    /\ IsSet(m) /\ IsSet(n)
    /\ LET args == <<bind[m], bind[n]>>
           held == IncrAll(heap, args)
       IN StoreNewList(v, held, args, args, Asked("list", v, m, n, <<>>))

\* [set v [lindex $n path...]]; an index out of range gives the empty object.
Lindex(v, n, path) ==
    /\ IsSet(n)
    /\ LET found == IndexIn(Incr(heap, bind[n]), bind[n], path)
       IN StoreResult(v, found.heap, IF found.obj = 0 THEN bind[EmptyWord] ELSE found.obj,
                      <<bind[n]>>, Asked("lindex", v, n, n, path))

InRange(elems, range) ==
    LET part == JimRelToAbsRange(Len(elems), range)
    IN SubSeq(elems, part.first + 1, part.first + part.size)

\* [set v [lrange $n first last]]
Lrange(v, n, range) ==
    /\ IsSet(n)
    /\ LET h == SetListFromAny(Incr(heap, bind[n]), bind[n])
       IN StoreNewList(v, h, InRange(h[bind[n]].elems, range), <<bind[n]>>,
                       Asked("lrange", v, n, n, range))

WithRange(elems, range, val) ==
    LET part == JimRelToAbsRange(Len(elems), range)
        first == IF part.first > Len(elems) THEN Len(elems) ELSE part.first
    IN SubSeq(elems, 1, first) \o <<val>> \o SubSeq(elems, first + part.size + 1, Len(elems))

\* [set v [lreplace $n first last $m]]
Lreplace(v, n, range, m) ==
    /\ IsSet(n) /\ IsSet(m)
    /\ LET args == <<bind[n], bind[m]>>
           h == SetListFromAny(IncrAll(heap, args), bind[n])
       IN StoreNewList(v, h, WithRange(h[bind[n]].elems, range, bind[m]), args,
                       Asked("lreplace", v, n, m, range))

\* [set v [linsert $n idx $m]]; the list is shared, so a copy is changed.
Jim_ListInsertElements(h, list, idx, val) ==
    LET len == Len(h[list].elems)
        abs == IF idx >= len THEN len ELSE IF idx < 0 THEN len + idx + 1 ELSE idx
        at == IF abs < 0 THEN 0 ELSE abs
    IN Incr([h EXCEPT ![list].elems = SubSeq(@, 1, at) \o <<val>> \o SubSeq(@, at + 1, Len(@))], val)

Linsert(v, n, idx, m) ==
    /\ IsSet(n) /\ IsSet(m)
    /\ LET args == <<bind[n], bind[m]>>
           held == IncrAll(heap, args)
           new == Jim_NewObj(held)
           list == SetListFromAny(Jim_DuplicateObj(held, bind[n]), new)
       IN StoreResult(v, Jim_ListInsertElements(Jim_InvalidateStringRep(list, new), new, idx, bind[m]),
                      new, args, Asked("linsert", v, n, m, <<idx>>))

\* [set v [lsort -unique $n]]
Lsort(v, n) ==
    /\ IsSet(n)
    /\ LET held == Incr(heap, bind[n])
           new == Jim_NewObj(held)
           list == SetListFromAny(Jim_DuplicateObj(held, bind[n]), new)
       IN StoreResult(v, ListSortElements(list, new), new, <<bind[n]>>,
                      Asked("lsort", v, n, n, <<>>))

\* [set v [concat $m $n]]: lists are joined as lists, other values as trimmed
\* texts.
Concat(v, m, n) ==
    /\ IsSet(m) /\ IsSet(n)
    /\ LET args == <<bind[m], bind[n]>>
           held == IncrAll(heap, args)
           spelt == Scan(Jim_GetString, held, args)
           new == Jim_NewObj(held)
           Text(o) == Trim(spelt[o].text)
           h == IF \A i \in 1..2 : held[args[i]].type = "list"
                THEN Jim_NewListObj(held, held[args[1]].elems \o held[args[2]].elems)
                ELSE [spelt EXCEPT ![new] = StringObj(JoinTexts(Text(args[1]), Text(args[2])))]
       IN StoreResult(v, h, new, args, Asked("concat", v, m, n, <<>>))

\* [dict set v keys... $n]
DictSet(v, keys, n) ==
    /\ IsSet(n)
    /\ LET held == Incr(heap, bind[n])
           new == Jim_NewObj(held)
           o == IF IsSet(v) THEN Owned(held, v) ELSE new
           h == IF IsSet(v) THEN Unshare(held, v)
                ELSE [held EXCEPT ![new] = CompoundObj("dict", <<>>)]
       IN Changed(v, SetKeysIn(h, o, keys, bind[n]), o, held, <<bind[n]>>,
                  Asked("dict set", v, v, n, keys))

\* [dict unset v keys...] creates the variable if there is none.
Created(v, done, o, r) == Finish(done.heap, Bind(v, o), [r EXCEPT !.ok = done.ok])
ChangedOrCreated(v, done, o, r) ==
    IF IsSet(v) THEN Changed(v, done, o, heap, <<>>, r) ELSE Created(v, done, o, r)
DictUnset(v, keys) ==
    LET new == Jim_NewObj(heap)
        o == IF IsSet(v) THEN Owned(heap, v) ELSE new
        h == IF IsSet(v) THEN Unshare(heap, v)
             ELSE [heap EXCEPT ![new] = [CompoundObj("dict", <<>>) EXCEPT !.refs = 1]]
    IN ChangedOrCreated(v, SetKeysIn(h, o, keys, 0), o, Asked("dict unset", v, v, v, keys))

\* [set v [dict get $n keys...]]
Got(v, found, n, r) ==
    IF found.obj = 0 THEN GiveUp(found.heap, <<bind[n]>>, r)
    ELSE StoreResult(v, found.heap, found.obj, <<bind[n]>>, r)
DictGet(v, n, keys) ==
    /\ IsSet(n)
    /\ Got(v, KeysIn(Incr(heap, bind[n]), bind[n], keys), n, Asked("dict get", v, n, n, keys))

---------------------------------------------------------------------------

\* The objects of the words; one reference is the script's.
WordObj == CHOOSE f \in [Words -> 1..Cardinality(Words)] :
              \A v, w \in Words : f[v] = f[w] => v = w

Init ==
    /\ bind = [n \in Names |-> CASE n \in Words -> WordObj[n]
                                 [] n \in DOMAIN SetVars -> WordObj[SetVars[n]]
                                 [] OTHER -> 0]
    /\ heap = [o \in Objs |->
                 IF o \in 1..Cardinality(Words)
                 THEN [StringObj(WordText[CHOOSE w \in Words : WordObj[w] = o])
                         EXCEPT !.refs = Cardinality({n \in Names : bind[n] = o})]
                 ELSE Freed]
    /\ request = [cmd |-> "none"]
    /\ count = 0

\* Literals go into variables by [set], [lappend], [lset] and [dict set];
\* [lreplace] and [linsert] put a list into itself.
Command ==
    \/ \E n \in Args : Puts(n) \/ Llength(n)
    \/ \E v \in Vars, n \in Args :
          \/ Set(v, n) \/ Lappend(v, n)
          \/ \E path \in Paths : Lset(v, path, n)
          \/ \E keys \in KeyPaths : DictSet(v, keys, n)
    \/ \E v, n \in Vars :
          \/ AppendTo(v, n) \/ Lsort(v, n)
          \/ \E m \in Vars : List(v, m, n) \/ Concat(v, m, n)
          \/ \E path \in Paths : Lindex(v, n, path)
          \/ \E keys \in KeyPaths : DictGet(v, n, keys)
          \/ \E range \in Ranges :
                \/ Lrange(v, n, range)
                \/ Lreplace(v, n, range, n)
                \/ Linsert(v, n, range[1], n)
    \/ \E v \in Vars :
          \/ Unset(v)
          \/ \E keys \in KeyPaths : DictUnset(v, keys)

Next == count < MaxCommands /\ Command

Spec == Init /\ [][Next]_vars

---------------------------------------------------------------------------
(* Properties *)

\* Live objects have the fields their type calls for.
TypeOK ==
    /\ DOMAIN heap = Objs /\ bind \in [Names -> Objs \cup {0}]
    /\ \A o \in Objs : o \notin Live(heap) => heap[o] = Freed
    /\ \A o \in Live(heap) :
          /\ heap[o].type \in {"none", "list", "dict"}
          /\ heap[o].type = "none" => heap[o].spelt /\ heap[o].elems = <<>>
          /\ heap[o].type = "dict" => Len(heap[o].elems) % 2 = 0

\* Between commands the count of every object is the number of those who hold
\* it - variables, words, places in other objects - and nothing holds a freed
\* object: no value is released early, none is leaked.
Holders(o) ==
    Cardinality({n \in Names : bind[n] = o})
    + Cardinality(UNION {{<<p, i>> : i \in {j \in DOMAIN heap[p].elems : heap[p].elems[j] = o}} :
                           p \in Live(heap)})
CountsExact ==
    \A o \in Objs : IF o \in Live(heap) THEN heap[o].refs = Holders(o) /\ Holders(o) > 0
                    ELSE Holders(o) = 0

\* An object that has a text and an internal representation says the same in
\* both: a list has the elements its text parses to, a dict the last value of
\* each key.  No change in place left an old text behind.
TextsFresh ==
    \A o \in Live(heap) :
        LET parsed == JimParseList(heap[o].text)
            inside == [i \in DOMAIN heap[o].elems |-> TextOf(heap, heap[o].elems[i])]
            Last(key) == CHOOSE i \in DOMAIN parsed :
                            /\ i % 2 = 1 /\ parsed[i] = key
                            /\ \A j \in DOMAIN parsed : j % 2 = 1 /\ parsed[j] = key => j <= i
        IN heap[o].spelt =>
              CASE heap[o].type = "none" -> TRUE
                [] heap[o].type = "list" -> inside = parsed
                [] heap[o].type = "dict" ->
                      /\ {inside[i] : i \in {j \in DOMAIN inside : j % 2 = 1}}
                            = {parsed[i] : i \in {j \in DOMAIN parsed : j % 2 = 1}}
                      /\ \A i \in DOMAIN inside :
                            i % 2 = 1 => inside[i + 1] = parsed[Last(inside[i]) + 1]

\* A script sees texts and nothing else: however objects are shared, copied and
\* converted, every command has the effect JimTexts gives it.
Texts == INSTANCE JimTexts WITH
    str <- [n \in Names |-> IF bind[n] = 0 THEN <<>> ELSE <<TextOf(heap, bind[n])>>]
Implements == Texts!Spec
=============================================================================

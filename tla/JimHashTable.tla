---------------------------- MODULE JimHashTable ----------------------------
(***************************************************************************)
(* The hash table of jim-hashtable.cpp: buckets of chained entries, new    *)
(* entries at the head, doubled when there are as many entries as buckets, *)
(* and an iterator that is used while entries come and go.  An entry is    *)
(* identified by its key, and a table is its buckets, numbered from 0.     *)
(***************************************************************************)
EXTENDS Integers, Sequences, SequencesExt, FiniteSetsExt

CONSTANTS
    InitialSize,  \* JIM_HT_INITIAL_SIZE, a power of two
    Hash          \* the hash of each key, with uniq added

ASSUME InitialSizeAssumption == InitialSize \in Nat \ {0}

NULL == -1        \* keys are natural numbers

----------------------------------------------------------------------------
EmptyTable == [size |-> 0, chain |-> <<>>]

Slot(key, size) == Hash[key] % size

\* The entries, in the order of the iterator.
Entries(t) == LET e[i \in 0 .. t.size] == IF i = 0 THEN <<>> ELSE e[i - 1] \o t.chain[i - 1]
              IN  e[t.size]
Keys(t) == ToSet(Entries(t))
Used(t) == Len(Entries(t))

\* Jim_FindHashEntry: only the bucket of the key is searched.
Find(t, key) == t.size > 0 /\ Contains(t.chain[Slot(key, t.size)], key)

\* JimHashTableNextPower
NextPower(size) == LET p[i \in Nat] == IF i >= size THEN i ELSE p[i * 2]
                   IN  p[InitialSize]

\* Jim_ExpandHashTable: bucket after bucket, every entry of the old table is put
\* at the head of its new bucket.  A size that is too small changes nothing.
Rehashed(entries, n) ==
    LET c[i \in 0 .. Len(entries)] ==
          IF i = 0 THEN [h \in 0 .. n - 1 |-> <<>>]
          ELSE [c[i - 1] EXCEPT ![Slot(entries[i], n)] = <<entries[i]>> \o @]
    IN  c[Len(entries)]

Expand(t, size) ==
    LET n == NextPower(size)
    IN  IF size <= Used(t) THEN t
        ELSE [size |-> n, chain |-> Rehashed(Entries(t), n)]

\* JimExpandHashTableIfNeeded
ExpandIfNeeded(t) ==
    LET made == IF t.size = 0 THEN Expand(t, InitialSize) ELSE t
    IN  IF made.size = Used(made) THEN Expand(made, made.size * 2) ELSE made

\* Jim_AddHashEntry.  A key that is present is left alone, but the table may
\* have grown.
InsertInOldSlot(t, key) == \* mutant: the bucket is computed before the growth
    LET grown == ExpandIfNeeded(t)
        h == IF t.size = 0 THEN 0 ELSE Slot(key, t.size)
    IN  IF Find(grown, key) THEN grown
        ELSE [grown EXCEPT !.chain[h] = <<key>> \o @]

Insert(t, key) ==
    LET grown == ExpandIfNeeded(t)
    IN  IF Find(grown, key) THEN grown
        ELSE [grown EXCEPT !.chain[Slot(key, grown.size)] = <<key>> \o @]

\* Where an entry is in its chain.
Position(c, key) == CHOOSE i \in 1 .. Len(c) : c[i] = key

\* Jim_DeleteHashEntry
Delete(t, key) ==
    IF ~Find(t, key) THEN t
    ELSE [t EXCEPT !.chain[Slot(key, t.size)] = RemoveAt(@, Position(@, key))]

----------------------------------------------------------------------------
(* The iterator remembers the entry after the one it has returned, which   *)
(* its user may delete.                                                    *)

\* he->next(): the entries that follow in the chain, and the first of them.
Following(t, key) ==
    LET c == t.chain[Slot(key, t.size)]
    IN  IF Contains(c, key) THEN SubSeq(c, Position(c, key) + 1, Len(c))
        ELSE <<>>

After(t, key) == IF Following(t, key) = <<>> THEN NULL ELSE Head(Following(t, key))

\* JimInitHashTableIterator
Iterator == [index |-> -1, entry |-> NULL, nextEntry |-> NULL]

\* Jim_NextHashEntry: the rest of the chain, then the next bucket in use.
ToNextBucket(t, it) ==
    LET inUse == {i \in it.index + 1 .. t.size - 1 : t.chain[i] # <<>>}
    IN  IF inUse = {} THEN [index |-> t.size, entry |-> NULL, nextEntry |-> NULL]
        ELSE LET i == Min(inUse)
                 k == Head(t.chain[i])
             IN  [index |-> i, entry |-> k, nextEntry |-> After(t, k)]

OneOfEachBucket(t, it) == ToNextBucket(t, it) \* mutant: the chain is not followed

Advance(t, it) ==
    IF it.entry # NULL /\ it.nextEntry # NULL
    THEN [it EXCEPT !.entry = it.nextEntry, !.nextEntry = After(t, it.nextEntry)]
    ELSE ToNextBucket(t, it)

\* Every entry is found by its key, once.
Sound(t) == /\ \A k \in Keys(t) : Find(t, k)
            /\ IsInjective(Entries(t))
            /\ Used(t) <= t.size
=============================================================================

----------------------------- MODULE CacheIndex -----------------------------
(***************************************************************************)
(* gios-spr-2018-pr3-master/cache/simplecache.c: the table of cached files *)
(* that simplecached loads from a list and searches for every request.     *)
(* Keys are numbers: strcmp only compares them.  A table is a sequence, so *)
(* the code's items[i] is items[i + 1] here; lo, hi and mid are the code's.*)
(***************************************************************************)
EXTENDS Integers, Sequences, SequencesExt

CONSTANTS
    Threads,        \* those that search
    Keys,           \* the paths, in the order of strcmp
    Lists,          \* what the list of files may hold
    FirstCapacity   \* 16

ASSUME IndexAssumption ==
    /\ Keys \subseteq Nat
    /\ Lists \subseteq Seq(Keys)
    /\ FirstCapacity \in Nat \ {0}

VARIABLES
    rest,           \* the lines of the list not yet read
    items,          \* the table; its length is nitems
    capacity,       \* what it has room for
    sought, lo, hi  \* each thread's search

table == <<rest, items, capacity>>
search == <<sought, lo, hi>>

IndexInit ==
    /\ rest = << >> /\ items = << >> /\ capacity = 0
    /\ sought = [t \in Threads |-> 0]
    /\ lo = [t \in Threads |-> 0] /\ hi = [t \in Threads |-> -1]

\* The process and its memory are gone.
ClearIndex ==
    /\ rest' = << >> /\ items' = << >> /\ capacity' = 0
    /\ sought' = [t \in Threads |-> 0]
    /\ lo' = [t \in Threads |-> 0] /\ hi' = [t \in Threads |-> -1]

\* simplecache_init, before its loop.
OpenList(list) ==
    /\ rest' = list /\ items' = << >> /\ capacity' = FirstCapacity

\* Mutant: the table grows one line late.
LoadLineLate ==
    /\ rest # << >>
    /\ items' = Append(items, Head(rest)) /\ rest' = Tail(rest)
    /\ capacity' = IF Len(items') > capacity THEN 2 * capacity ELSE capacity
    /\ UNCHANGED search

\* One turn of the loop: the line goes into items[nitems], and a table that
\* is full then is doubled.
LoadLine ==
    /\ rest # << >>
    /\ items' = Append(items, Head(rest)) /\ rest' = Tail(rest)
    /\ capacity' = IF Len(items') = capacity THEN 2 * capacity ELSE capacity
    /\ UNCHANGED search

Ordered(s) == \A i, j \in DOMAIN s : i < j => s[i] <= s[j]
Occurrences(s, k) == {i \in DOMAIN s : s[i] = k}

\* qsort: the same keys, in order.
SortTable ==
    /\ rest = << >>
    /\ items' \in [DOMAIN items -> Range(items)] /\ Ordered(items')
    /\ \A k \in Range(items) :
          Cardinality(Occurrences(items', k)) = Cardinality(Occurrences(items, k))
    /\ UNCHANGED <<rest, capacity, search>>

\* Mutant: hi starts at nitems.
StartPastEnd(t, k) ==
    /\ sought' = [sought EXCEPT ![t] = k]
    /\ lo' = [lo EXCEPT ![t] = 0] /\ hi' = [hi EXCEPT ![t] = Len(items)]

\* simplecache_get, before its loop.
StartSearch(t, k) ==
    /\ sought' = [sought EXCEPT ![t] = k]
    /\ lo' = [lo EXCEPT ![t] = 0] /\ hi' = [hi EXCEPT ![t] = Len(items) - 1]

Mid(t) == lo[t] + (hi[t] - lo[t]) \div 2
\* Mutant: the last key left is not looked at.
ExhaustedEarly(t) == lo[t] >= hi[t]

Exhausted(t) == lo[t] > hi[t]
Hit(t) == ~Exhausted(t) /\ items[Mid(t) + 1] = sought[t]

\* One turn of the search that does not hit.
Narrow(t) ==
    /\ ~Exhausted(t) /\ ~Hit(t)
    /\ IF sought[t] < items[Mid(t) + 1]
          THEN hi' = [hi EXCEPT ![t] = Mid(t) - 1] /\ UNCHANGED lo
          ELSE lo' = [lo EXCEPT ![t] = Mid(t) + 1] /\ UNCHANGED hi
    /\ UNCHANGED <<sought, table>>

\* "Key is in items[lo..hi] or not present" (simplecache.c:83), with lo and hi
\* where the loop may read.
InRange(t) ==
    /\ 0 <= lo[t] /\ hi[t] < Len(items) /\ lo[t] <= hi[t] + 1
    /\ \A i \in DOMAIN items : items[i] = sought[t] => i - 1 \in lo[t]..hi[t]
=============================================================================

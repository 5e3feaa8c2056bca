-------------------------------- MODULE Bitmap --------------------------------
(***************************************************************************)
(* The bitmap routines of lib/bitmap.c, word by word as the code works,    *)
(* against what the page pool and the object pool expect of them.          *)
(*                                                                         *)
(* A bitmap is a function from bit indices to BOOLEAN; Granule is the      *)
(* number of bits of a word (BITMAP_GRANULE_LEN) and Size is a multiple of *)
(* it, as the number of pages of the root pool is.  The routines read one  *)
(* word past the end when a search reaches it: map has that word too, with *)
(* any content.  A state is one call and, after it, its result.            *)
(***************************************************************************)
EXTENDS Integers, FiniteSets

CONSTANTS Granule, Size

ASSUME BitmapAssumption ==
    Granule \in Nat \ {0} /\ Size \in Nat \ {0} /\ Size % Granule = 0

VARIABLES map, call, result

vars == <<map, call, result>>

Indices == 0..(Size - 1)

None == -1

\* min of util.h
Least(a, b) == IF a < b THEN a ELSE b

\* All bits of S have the value set.
Uniform(m, S, set) == \A k \in S : m[k] = set

\* The bits of the word that holds bit pos.
WordOf(pos) == LET w == (pos \div Granule) * Granule IN w..(w + Granule - 1)

Init ==
    /\ \E m \in [Indices -> BOOLEAN], past \in BOOLEAN :
          map = [k \in 0..(Size + Granule - 1) |-> IF k < Size THEN m[k] ELSE past]
    /\ call \in [start : 0..Size, n : 1..Size, set : BOOLEAN]
    /\ result = [op |-> "none"]
-----------------------------------------------------------------------------
\* Mutated forms of the routines below.

\* The word that starts the count is taken as a whole.
FirstWordBits_whole(start, n) == Granule - (start % Granule)

\* The first hit is not counted.
RECURSIVE NthLoop_late(_, _, _, _)
NthLoop_late(m, nth, i, set) ==
    IF i >= Size THEN None
    ELSE IF m[i] # set THEN NthLoop_late(m, nth, i + 1, set)
    ELSE IF nth = 0 THEN i
    ELSE NthLoop_late(m, nth - 1, i + 1, set)
-----------------------------------------------------------------------------

\* bitmap_find_nth
RECURSIVE NthLoop(_, _, _, _)
NthLoop(m, nth, i, set) ==
    IF i >= Size THEN None
    ELSE IF m[i] # set THEN NthLoop(m, nth, i + 1, set)
    ELSE IF nth = 1 THEN i
    ELSE NthLoop(m, nth - 1, i + 1, set)

bitmap_find_nth(m, nth, start, set) ==
    IF nth <= 0 THEN None ELSE NthLoop(m, nth, start, set)

\* first_word_bits: what the count needs of the word it starts in.
FirstWordBits(start, n) == Least(Granule - (start % Granule), n)

\* The loop of bitmap_count_consecutive over whole words.
RECURSIVE WordLoop(_, _, _, _, _)
WordLoop(m, set, n, pos, count) ==
    IF pos < Size /\ Uniform(m, WordOf(pos), set) /\ count < n
        THEN WordLoop(m, set, n, pos + Granule, count + Granule)
        ELSE <<pos, count>>

\* Its loop over single bits.
RECURSIVE BitLoop(_, _, _, _, _)
BitLoop(m, set, n, pos, count) ==
    IF pos < Size /\ m[pos] = set /\ count < n
        THEN BitLoop(m, set, n, pos + 1, count + 1)
        ELSE count

bitmap_count_consecutive(m, start, n) ==
    LET set   == m[start]
        bits  == FirstWordBits(start, n)
        whole == Uniform(m, start..(start + bits - 1), set)
        first == IF whole THEN <<start + bits, bits>> ELSE <<start, 0>>
        words == WordLoop(m, set, n, first[1], first[2])
    IN  IF n <= 1 THEN n ELSE BitLoop(m, set, n, words[1], words[2])

\* A count without limit: the argument -1 as a size_t.
Unlimited == 2 * (Size + Granule)

\* Mutated form: the run of the other value is not skipped.
RECURSIVE SearchLoop_any_value(_, _, _)
SearchLoop_any_value(m, i, n) ==
    LET count == bitmap_count_consecutive(m, i, n)
    IN  IF i >= Size \/ count >= n THEN i
        ELSE SearchLoop_any_value(m, i + count, n)

\* The loop of bitmap_find_consec: skip a run that is too short, then the
\* run of the other value that follows it.
RECURSIVE SearchLoop(_, _, _)
SearchLoop(m, i, n) ==
    LET count == bitmap_count_consecutive(m, i, n)
        next  == i + count
    IN  IF i >= Size \/ count >= n THEN i
        ELSE SearchLoop(m, next + bitmap_count_consecutive(m, next, Unlimited), n)

bitmap_find_consec(m, start, n, set) ==
    LET first == bitmap_find_nth(m, 1, start, set)
        i     == IF first = None THEN Size ELSE SearchLoop(m, first, n)
    IN  IF i >= Size THEN None ELSE i

\* bitmap_set_consecutive: the rest of the first word, whole words, and what
\* is left of the last one.
bitmap_set_consecutive(m, start, n) ==
    LET bits  == FirstWordBits(start, n)
        whole == (n - bits) \div Granule
        rest  == (n - bits) % Granule
        pos   == start + bits + whole * Granule
        set   == start..(start + bits - 1)
                    \cup UNION {WordOf(start + bits + k * Granule) : k \in 0..(whole - 1)}
                    \cup pos..(pos + rest - 1)
    IN  [k \in DOMAIN m |-> m[k] \/ k \in set]
-----------------------------------------------------------------------------

find_consec ==
    /\ result.op = "none"
    /\ result' = [op |-> "find", bit |-> bitmap_find_consec(map, call.start, call.n, call.set)]
    /\ UNCHANGED <<map, call>>

find_nth ==
    /\ result.op = "none"
    /\ result' = [op |-> "nth", bit |-> bitmap_find_nth(map, call.n, call.start, call.set)]
    /\ UNCHANGED <<map, call>>

set_consecutive ==
    /\ result.op = "none"
    /\ call.start + call.n <= Size
    /\ result' = [op |-> "set", map |-> bitmap_set_consecutive(map, call.start, call.n)]
    /\ UNCHANGED <<map, call>>

Next == find_consec \/ find_nth \/ set_consecutive

Spec == Init /\ [][Next]_vars
-----------------------------------------------------------------------------

\* The lowest index at or after start where n bits in a row have the value
\* set, or None.
FirstRun(start, n, set) ==
    LET runs == {b \in start..(Size - n) : Uniform(map, b..(b + n - 1), set)}
    IN  IF runs = {} THEN None ELSE CHOOSE b \in runs : \A a \in runs : b <= a

\* bitmap_find_consec finds the first long enough run at or after start, and
\* reports none only if there is none: skipping by whole words, and by the
\* run of the other value, never jumps over a run nor ends past the bitmap.
FindsFirstRun ==
    result.op = "find" => result.bit = FirstRun(call.start, call.n, call.set)

\* bitmap_find_nth returns the index with exactly nth - 1 bits of the wanted
\* value between start and itself, or none when there are fewer.
FindsNth ==
    LET hits == {k \in call.start..(Size - 1) : map[k] = call.set}
    IN  result.op = "nth" =>
          IF result.bit = None
            THEN Cardinality(hits) < call.n
            ELSE /\ result.bit \in hits
                 /\ Cardinality({k \in hits : k <= result.bit}) = call.n

\* bitmap_set_consecutive sets the n bits from start and leaves every other
\* bit, of the same words too, as it is.
SetsExactly ==
    result.op = "set" =>
        \A k \in DOMAIN map :
            result.map[k] = (map[k] \/ k \in call.start..(call.start + call.n - 1))
==============================================================================

----------------------------- MODULE WatchRange -----------------------------
(***************************************************************************)
(* How ws63watch covers watched bytes with hardware triggers, and how the  *)
(* server filters the stops they cause.                                    *)
(*                                                                         *)
(* A trigger watches an aligned block of 2^k bytes and fires on the first  *)
(* address of an access.  range_blocks covers a range, widened to words,   *)
(* with such blocks, one at a time; a stop in the widened part is stepped  *)
(* over by skip_watch_guard, a stop in the range is reported to GDB by     *)
(* _stop_reason.  Which slots the blocks take is modelled in Triggers, the *)
(* decoding of instructions is not modelled: an access is given.           *)
(***************************************************************************)
EXTENDS Integers, FiniteSets

CONSTANTS
    Limit,      \* bytes of the address space (2^32)
    Powers,     \* the powers of two up to Limit
    MaxWatches  \* bound: watchpoints set at a time

ASSUME LimitAssumption  == Limit \in Nat /\ Limit % 4 = 0
ASSUME PowersAssumption ==
    /\ Powers \subseteq Nat \ {0} /\ {1, 2, 4} \subseteq Powers
    /\ \A p, q \in Powers : p <= q => q % p = 0
    /\ \A p \in Powers : p < 4 => p \in {1, 2}
ASSUME WatchesAssumption == MaxWatches \in Nat \ {0}

Kinds == {"load", "store", "access"}

VARIABLES
    range,      \* the range range_blocks is at: address, length, kind
    current,    \* its variable of that name
    blocks,     \* the blocks so far
    entries     \* Watchpoints.entries: ranges with their blocks

watchVars == <<range, current, blocks, entries>>

Ranges == [address : 0 .. Limit - 1, length : 1 .. Limit, kind : Kinds]
Fits(r) == r.address + r.length <= Limit

\* (x + 3) & ~3, x & ~3, and the other bit tricks of range_blocks.
Up4(x)   == ((x + 3) \div 4) * 4
Down4(x) == (x \div 4) * 4
Highest(x) == CHOOSE p \in Powers : p <= x /\ \A q \in Powers : q <= x => q <= p
LowBit(x)  == CHOOSE p \in Powers : x % p = 0 /\ \A q \in Powers : x % q = 0 => q <= p
Smaller(a, b) == IF a < b THEN a ELSE b

End(r) == Up4(r.address + r.length)

SizeUnaligned(at, end) == Highest(end - at)
Size(at, end) ==
    IF at = 0 THEN Highest(end - at) ELSE Smaller(Highest(end - at), LowBit(at))

\* range_blocks: its arguments, one round of its loop, and what insert() keeps.
Begin ==
    /\ current = End(range) /\ Cardinality(entries) < MaxWatches
    /\ entries' = entries \cup {[range |-> range, blocks |-> blocks]}
    /\ \E r \in Ranges :
        /\ Fits(r) /\ range' = r /\ current' = Down4(r.address) /\ blocks' = {}
NextBlock ==
    /\ current < End(range)
    /\ LET size == Size(current, End(range))
       IN  /\ blocks' = blocks \cup {<<current, size>>}
           /\ current' = current + size
    /\ UNCHANGED <<range, entries>>

\* z2, z3, z4.
Remove ==
    /\ current = End(range)
    /\ \E e \in entries : entries' = entries \ {e}
    /\ UNCHANGED <<range, current, blocks>>

WatchInit ==
    \E r \in Ranges :
        /\ Fits(r) /\ range = r /\ current = Down4(r.address) /\ blocks = {} /\ entries = {}
WatchNext == NextBlock \/ Begin \/ Remove
WatchSpec == WatchInit /\ [][WatchNext]_watchVars

-----------------------------------------------------------------------------
(* Accesses: what the trigger does, and what the server does then. *)

Accesses == {x \in [address : 0 .. Limit - 1, size : {1, 2, 4}, kind : {"load", "store"}] :
                x.address % x.size = 0 /\ x.address + x.size <= Limit}
Set == entries \cup (IF current >= End(range) THEN {[range |-> range, blocks |-> blocks]} ELSE {})

OfKind(r, x) == r.kind \in {x.kind, "access"}

\* Watchpoint.matches and Watchpoint.guards; the trigger fires where guards.
MatchesInside(r, x) == OfKind(r, x) /\ r.address <= x.address /\ x.address < r.address + r.length
Matches(r, x) ==
    /\ OfKind(r, x)
    /\ r.address < x.address + x.size
    /\ x.address < r.address + r.length
Guards(e, x) == OfKind(e.range, x) /\ \E b \in e.blocks : b[1] <= x.address /\ x.address < b[1] + b[2]
Fires(x) == \E e \in Set : Guards(e, x)

\* skip_watch_guard: a proven access outside every range is stepped over.
Skipped(x) == Fires(x) /\ ~\E e \in Set : Matches(e.range, x)

\* _stop_reason: the address GDB is told, for the first entry that matches.
Told(r, x) == IF x.address > r.address THEN x.address ELSE r.address

-----------------------------------------------------------------------------
(* Properties. *)

Bytes(a, n) == a .. a + n - 1

\* The loop of range_blocks: what is covered so far is exactly the words up
\* to current, by disjoint blocks of 2^k >= 4 bytes aligned to their size, as
\* the trigger takes them, and the loop does not pass its end, at 0 and at the
\* end of the address space.
BlocksTile ==
    /\ current <= End(range)
    /\ \A b \in blocks : b[2] \in Powers /\ b[2] >= 4 /\ b[1] % b[2] = 0
    /\ \A b, c \in blocks : b # c => b[1] + b[2] <= c[1] \/ c[1] + c[2] <= b[1]
    /\ \A x \in 0 .. Limit - 1 :
        (\E b \in blocks : b[1] <= x /\ x < b[1] + b[2]) <=> Down4(range.address) <= x /\ x < current

\* An aligned access of 1, 2 or 4 bytes that touches a watched byte fires a
\* trigger wherever it starts, is not taken for a guard stop, and GDB is told
\* a byte that is watched and accessed; no other access is reported.
WatchesReported ==
    \A x \in Accesses :
        LET touched(r) == OfKind(r, x) /\ Bytes(r.address, r.length) \cap Bytes(x.address, x.size) # {}
        IN  /\ (\E e \in Set : touched(e.range)) <=> Fires(x) /\ ~Skipped(x)
            /\ \A e \in Set : Matches(e.range, x) =>
                Told(e.range, x) \in Bytes(e.range.address, e.range.length) \cap Bytes(x.address, x.size)
=============================================================================

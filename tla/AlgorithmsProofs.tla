-------------------------- MODULE AlgorithmsProofs --------------------------
(***************************************************************************)
(* Proofs about the two algorithms that MCAlgorithms checks, each for      *)
(* itself.                                                                 *)
(*                                                                         *)
(* WatchRange: range_blocks covers every range of every address space, not *)
(* only of the 16 bytes TLC looks at, and with triggers so placed an       *)
(* access is reported exactly when it touches a watched byte.              *)
(*                                                                         *)
(* FlashStaging: for every Flash, any number of erase requests and any     *)
(* number of packets of data, what was answered OK fits the sectors that   *)
(* were requested, and a load leaves exactly that.  The scan of the erased *)
(* ranges is a recursive function over their number; that it exists, and   *)
(* what it returns, follows from the least number it would fail for.       *)
(***************************************************************************)
EXTENDS WatchRange, FlashStaging, FiniteSetTheorems, TLAPS

\* A set of numbers that is not empty has a least one.
LEMMA Least ==
    ASSUME NEW T, T \subseteq Nat, T # {}
    PROVE  \E t \in T : \A u \in T : t <= u
  <1>1. \E t \in T : \A u \in T : ~(<<u, t>> \in OpToRel(<, Nat))
    BY WFMin, NatLessThanWellFounded, Zenon
  <1>2. PICK t \in T : \A u \in T : ~(<<u, t>> \in OpToRel(<, Nat))
    BY <1>1
  <1>3. \A u \in T : <<u, t>> \in Nat \X Nat
    BY <1>2
  <1>4. \A u \in T : ~(u < t)
    BY <1>2, <1>3, Zenon DEF OpToRel
  <1>5. QED
    BY <1>4

\* One that is bounded as well has a greatest one.
LEMMA Greatest ==
    ASSUME NEW S \in SUBSET Nat, S # {}, NEW x \in Nat, \A p \in S : p <= x
    PROVE  \E p \in S : \A q \in S : q <= p
  <1>1. {x - p : p \in S} \subseteq Nat /\ {x - p : p \in S} # {}
    <2>1. \A p \in S : x - p \in Nat
      OBVIOUS
    <2>2. QED
      BY <2>1
  <1>2. PICK t \in {x - p : p \in S} : \A u \in {x - p : p \in S} : t <= u
    BY <1>1, Least
  <1>3. PICK p \in S : t = x - p
    BY <1>2
  <1>4. \A q \in S : x - p <= x - q
    BY <1>2, <1>3
  <1>5. QED
    BY <1>3, <1>4

LEMMA DividesTrans ==
    ASSUME NEW a \in Nat, NEW b \in Nat \ {0}, NEW c \in Nat \ {0}, a % b = 0, b % c = 0
    PROVE  a % c = 0
  <1>1. a = b * (a \div b) /\ b = c * (b \div c)
    BY SMTT(20)
  <1>2. PICK q \in Nat, r \in Nat : a = b * q /\ b = c * r
    <2>1. a \div b \in Nat /\ b \div c \in Nat
      BY SMTT(20)
    <2>2. QED
      BY <1>1, <2>1
  <1>3. a = c * (r * q) /\ r * q \in Nat
    BY <1>2, SMTT(20)
  <1>4. PICK w \in Nat : a = c * w
    BY <1>3
  <1>5. (c * w) % c = 0
    BY SMTT(20)
  <1>6. QED
    BY <1>4, <1>5

LEMMA DividesSmaller ==
    ASSUME NEW a \in Nat \ {0}, NEW b \in Nat \ {0}, a % b = 0
    PROVE  b <= a
  <1>1. CASE b > a
    <2>1. a % b = a
      BY <1>1, SMTT(20)
    <2>2. QED
      BY <2>1
  <1>2. QED
    BY <1>1

-----------------------------------------------------------------------------
(* The powers of two. *)

LEMMA HighestIs ==
    ASSUME NEW x \in Nat \ {0}
    PROVE  /\ Highest(x) \in Powers /\ Highest(x) <= x
           /\ \A q \in Powers : q <= x => q <= Highest(x)
  <1>1. {p \in Powers : p <= x} \in SUBSET Nat /\ {p \in Powers : p <= x} # {}
    <2>1. 1 \in {p \in Powers : p <= x}
      BY PowersAssumption
    <2>2. QED
      BY <2>1, PowersAssumption
  <1>2. \E p \in Powers : p <= x /\ \A q \in Powers : q <= x => q <= p
    BY <1>1, Greatest
  <1>3. QED
    BY <1>2 DEF Highest

LEMMA LowBitIs ==
    ASSUME NEW x \in Nat \ {0}
    PROVE  /\ LowBit(x) \in Powers /\ x % LowBit(x) = 0
           /\ \A q \in Powers : x % q = 0 => q <= LowBit(x)
  <1>1. {p \in Powers : x % p = 0} \in SUBSET Nat /\ {p \in Powers : x % p = 0} # {}
    <2>1. x % 1 = 0 /\ 1 \in Powers
      BY PowersAssumption
    <2>2. QED
      BY <2>1, PowersAssumption
  <1>2. \A p \in {q \in Powers : x % q = 0} : p <= x
    BY DividesSmaller, PowersAssumption
  <1>3. \E p \in Powers : x % p = 0 /\ \A q \in Powers : x % q = 0 => q <= p
    BY <1>1, <1>2, Greatest
  <1>4. QED
    BY <1>3 DEF LowBit

\* The size of a block: a power of two, at least a word, that fits before the
\* end and divides the address.
LEMMA SizeIs ==
    ASSUME NEW at \in Nat, NEW end \in Nat, at < end, at % 4 = 0, end % 4 = 0
    PROVE  /\ Size(at, end) \in Powers /\ Size(at, end) >= 4 /\ Size(at, end) <= end - at
           /\ at % Size(at, end) = 0 /\ Size(at, end) % 4 = 0
  <1> DEFINE h == Highest(end - at)
  <1> DEFINE l == LowBit(at)
  <1>1. end - at \in Nat \ {0} /\ end - at >= 4
    OBVIOUS
  <1>2. h \in Powers /\ h <= end - at /\ h >= 4
    BY <1>1, HighestIs, PowersAssumption
  <1>3. ASSUME NEW p \in Powers, p >= 4 PROVE p % 4 = 0
    BY <1>3, PowersAssumption
  <1>4. CASE at = 0
    <2>1. Size(at, end) = h
      BY <1>4 DEF Size
    <2>2. 0 % h = 0
      <3>1. \A n \in Nat \ {0} : 0 % n = 0
        BY SMTT(20)
      <3>2. QED
        BY <3>1, <1>2, PowersAssumption
    <2>3. QED
      BY <2>1, <2>2, <1>2, <1>3, <1>4
  <1>5. CASE at # 0
    <2>1. l \in Powers /\ at % l = 0 /\ l >= 4
      BY <1>5, LowBitIs, PowersAssumption
    <2>2. Size(at, end) = IF h < l THEN h ELSE l
      BY <1>5 DEF Size, Smaller
    <2> HIDE DEF h, l
    <2>3. h \in Nat \ {0} /\ l \in Nat \ {0}
      BY <1>2, <2>1, PowersAssumption
    <2>4. CASE h < l
      <3>1. l % h = 0
        BY <2>4, <2>3, <1>2, <2>1, PowersAssumption
      <3>2. at % h = 0
        BY <3>1, <2>1, <2>3, DividesTrans
      <3>3. QED
        BY <2>2, <2>4, <3>2, <1>2, <1>3
    <2>5. CASE ~(h < l)
      <3>1. l <= end - at
        BY <2>5, <2>3, <1>2
      <3>2. QED
        BY <2>2, <2>5, <2>1, <3>1, <1>3
    <2>6. QED
      BY <2>4, <2>5
  <1>6. QED
    BY <1>4, <1>5

-----------------------------------------------------------------------------
(* The inductive invariant. *)

Placed ==
    /\ range \in Ranges /\ Fits(range)
    /\ current \in Nat /\ current % 4 = 0
    /\ Down4(range.address) <= current /\ current <= End(range)
Aligned ==
    \A b \in blocks :
        /\ b = <<b[1], b[2]>> /\ b[1] \in Nat
        /\ b[2] \in Powers /\ b[2] >= 4 /\ b[1] % b[2] = 0
        /\ Down4(range.address) <= b[1] /\ b[1] + b[2] <= current
Disjoint == \A b, c \in blocks : b # c => b[1] + b[2] <= c[1] \/ c[1] + c[2] <= b[1]
Covering ==
    \A x \in Nat : Down4(range.address) <= x /\ x < current =>
        \E b \in blocks : b[1] <= x /\ x < b[1] + b[2]
IInv == Placed /\ Aligned /\ Disjoint /\ Covering

LEMMA BeginsAt ==
    ASSUME NEW r \in Ranges, Fits(r)
    PROVE  /\ Down4(r.address) \in Nat /\ Down4(r.address) % 4 = 0
           /\ End(r) \in Nat /\ End(r) % 4 = 0 /\ Down4(r.address) <= End(r)
  <1>1. r.address \in Nat /\ r.length \in Nat \ {0}
    BY LimitAssumption DEF Ranges
  <1>2. QED
    BY <1>1 DEF Down4, Up4, End

LEMMA InitIInv == WatchInit => IInv
  <1> SUFFICES ASSUME WatchInit PROVE IInv
    OBVIOUS
  <1>1. range \in Ranges /\ Fits(range) /\ current = Down4(range.address) /\ blocks = {}
    BY DEF WatchInit
  <1>2. Placed
    BY <1>1, BeginsAt DEF Placed
  <1>3. QED
    BY <1>1, <1>2, BeginsAt DEF IInv, Aligned, Disjoint, Covering

LEMMA BlockIInv ==
    ASSUME IInv, NextBlock
    PROVE  IInv'
  <1> DEFINE size == Size(current, End(range))
  <1>1. /\ size \in Powers /\ size >= 4 /\ size <= End(range) - current
        /\ current % size = 0 /\ size % 4 = 0
    BY SizeIs, BeginsAt DEF IInv, Placed, NextBlock
  <1>2. /\ blocks' = blocks \cup {<<current, size>>} /\ current' = current + size
        /\ range' = range
    BY DEF NextBlock
  <1> HIDE DEF size
  <1>3. size \in Nat /\ current \in Nat /\ Down4(range.address) \in Nat /\ End(range) \in Nat
    BY <1>1, PowersAssumption, BeginsAt DEF IInv, Placed
  <1>4. Placed'
    BY <1>1, <1>2, <1>3 DEF IInv, Placed, End
  <1>5. Aligned'
    <2> SUFFICES ASSUME NEW b \in blocks'
                 PROVE  /\ b = <<b[1], b[2]>> /\ b[1] \in Nat
                        /\ b[2] \in Powers /\ b[2] >= 4 /\ b[1] % b[2] = 0
                        /\ Down4(range.address) <= b[1] /\ b[1] + b[2] <= current'
      BY <1>2 DEF Aligned
    <2>1. CASE b \in blocks
      <3>1. b[2] \in Nat
        BY <2>1, PowersAssumption DEF IInv, Aligned
      <3>2. QED
        BY <2>1, <3>1, <1>2, <1>3 DEF IInv, Aligned
    <2>2. CASE b = <<current, size>>
      BY <2>2, <1>1, <1>2, <1>3 DEF IInv, Placed
    <2>3. QED
      BY <2>1, <2>2, <1>2
  <1>6. Disjoint'
    <2>1. \A b \in blocks : b[1] + b[2] <= current
      BY DEF IInv, Aligned
    <2>2. QED
      BY <2>1, <1>2 DEF IInv, Disjoint
  <1>7. Covering'
    <2> SUFFICES ASSUME NEW x \in Nat, Down4(range.address) <= x, x < current'
                 PROVE  \E b \in blocks' : b[1] <= x /\ x < b[1] + b[2]
      BY <1>2 DEF Covering
    <2>1. CASE x < current
      BY <2>1, <1>2 DEF IInv, Covering
    <2>2. CASE current <= x
      <3>1. <<current, size>>[1] <= x /\ x < <<current, size>>[1] + <<current, size>>[2]
        BY <2>2, <1>2, <1>3
      <3>2. <<current, size>> \in blocks'
        BY <1>2
      <3>3. QED
        BY <3>1, <3>2
    <2>3. QED
      BY <2>1, <2>2, <1>3
  <1>8. QED
    BY <1>4, <1>5, <1>6, <1>7 DEF IInv

LEMMA NextIInv == IInv /\ [WatchNext]_watchVars => IInv'
  <1> SUFFICES ASSUME IInv, [WatchNext]_watchVars PROVE IInv'
    OBVIOUS
  <1>1. CASE Begin
    <2>1. range' \in Ranges /\ Fits(range') /\ current' = Down4(range'.address) /\ blocks' = {}
      BY <1>1 DEF Begin
    <2>2. Placed'
      BY <2>1, BeginsAt DEF Placed, Fits, End
    <2>3. QED
      BY <2>1, <2>2, BeginsAt DEF IInv, Aligned, Disjoint, Covering
  <1>2. CASE NextBlock
    BY <1>2, BlockIInv
  <1>3. CASE Remove
    BY <1>3 DEF Remove, IInv, Placed, Aligned, Disjoint, Covering
  <1>4. CASE UNCHANGED watchVars
    BY <1>4 DEF watchVars, IInv, Placed, Aligned, Disjoint, Covering
  <1>5. QED
    BY <1>1, <1>2, <1>3, <1>4 DEF WatchNext

LEMMA IInvTiles == IInv => BlocksTile
  <1> SUFFICES ASSUME IInv PROVE BlocksTile
    OBVIOUS
  <1>1. ASSUME NEW x \in 0 .. Limit - 1, NEW b \in blocks, b[1] <= x, x < b[1] + b[2]
        PROVE  Down4(range.address) <= x /\ x < current
    <2>1. b[1] \in Nat /\ b[2] \in Nat /\ Down4(range.address) \in Nat /\ current \in Nat /\ x \in Nat
      BY PowersAssumption, LimitAssumption, BeginsAt DEF IInv, Aligned, Placed
    <2>2. Down4(range.address) <= b[1] /\ b[1] + b[2] <= current
      BY DEF IInv, Aligned
    <2>3. QED
      BY <2>1, <2>2, <1>1
  <1>2. QED
    BY <1>1, LimitAssumption DEF IInv, Placed, Aligned, Disjoint, Covering, BlocksTile

\* For every address space and every range in it range_blocks tiles exactly the
\* words of the range with aligned powers of two (BlocksTile).
THEOREM Tiling == WatchSpec => []BlocksTile
  <1>1. WatchInit => IInv
    BY InitIInv
  <1>2. IInv /\ [WatchNext]_watchVars => IInv'
    BY NextIInv
  <1>3. IInv => BlocksTile
    BY IInvTiles
  <1>4. QED
    BY <1>1, <1>2, <1>3, PTL DEF WatchSpec

-----------------------------------------------------------------------------
(* Every watched byte is reported. *)

\* The blocks of a watchpoint cover its range, widened to words.
Covers(r, bs) ==
    \A a \in Nat : Down4(r.address) <= a /\ a < End(r) =>
        \E b \in bs : b[1] <= a /\ a < b[1] + b[2]
EntryTiled(e) == e.range \in Ranges /\ Fits(e.range) /\ Covers(e.range, e.blocks)
EntriesCovered == \A e \in entries : EntryTiled(e)

Touched(r, x) ==
    OfKind(r, x) /\ Bytes(r.address, r.length) \cap Bytes(x.address, x.size) # {}

LEMMA AccessIs ==
    ASSUME NEW r \in Ranges, NEW x \in Accesses
    PROVE  /\ r.address \in Nat /\ r.length \in Nat \ {0}
           /\ x.address \in Nat /\ x.size \in {1, 2, 4} /\ x.address % x.size = 0
  BY LimitAssumption DEF Ranges, Accesses

\* An access touches watched bytes exactly when matches() says so, and what GDB
\* is told is one of the bytes both have.
LEMMA TouchedIsMatched ==
    ASSUME NEW r \in Ranges, NEW x \in Accesses
    PROVE  /\ Touched(r, x) <=> Matches(r, x)
           /\ Matches(r, x) =>
                Told(r, x) \in Bytes(r.address, r.length) \cap Bytes(x.address, x.size)
  <1>1. /\ r.address \in Nat /\ r.length \in Nat \ {0}
        /\ x.address \in Nat /\ x.size \in Nat \ {0}
    BY AccessIs
  <1>2. Matches(r, x) => Told(r, x) \in Bytes(r.address, r.length) \cap Bytes(x.address, x.size)
    BY <1>1 DEF Matches, Told, Bytes
  <1>3. ASSUME OfKind(r, x), NEW a \in Bytes(r.address, r.length), a \in Bytes(x.address, x.size)
        PROVE  Matches(r, x)
    BY <1>1, <1>3 DEF Matches, Bytes
  <1>4. Matches(r, x) => OfKind(r, x)
    BY DEF Matches
  <1>5. QED
    BY <1>2, <1>3, <1>4 DEF Touched

\* An aligned access that matches begins in a word of the range.
LEMMA BeginsInside ==
    ASSUME NEW r \in Ranges, NEW x \in Accesses, Matches(r, x)
    PROVE  x.address \in Nat /\ Down4(r.address) <= x.address /\ x.address < End(r)
  <1>1. /\ r.address \in Nat /\ r.length \in Nat \ {0}
        /\ x.address \in Nat /\ x.size \in {1, 2, 4} /\ x.address % x.size = 0
    BY AccessIs
  <1>2. r.address < x.address + x.size /\ x.address < r.address + r.length
    BY DEF Matches
  <1>3. x.address < End(r)
    BY <1>1, <1>2 DEF End, Up4
  <1>4. Down4(r.address) <= x.address
    <2>1. CASE x.size = 1
      BY <2>1, <1>1, <1>2 DEF Down4
    <2>2. CASE x.size = 2
      BY <2>2, <1>1, <1>2 DEF Down4
    <2>3. CASE x.size = 4
      BY <2>3, <1>1, <1>2 DEF Down4
    <2>4. QED
      BY <2>1, <2>2, <2>3, <1>1
  <1>5. QED
    BY <1>1, <1>3, <1>4

LEMMA MatchedFires ==
    ASSUME NEW e, EntryTiled(e), NEW x \in Accesses, Matches(e.range, x)
    PROVE  Guards(e, x)
  <1>1. x.address \in Nat /\ Down4(e.range.address) <= x.address /\ x.address < End(e.range)
    BY BeginsInside DEF EntryTiled
  <1>2. \E b \in e.blocks : b[1] <= x.address /\ x.address < b[1] + b[2]
    BY <1>1 DEF EntryTiled, Covers
  <1>3. QED
    BY <1>2 DEF Guards, Matches

\* The watchpoint range_blocks has just finished is covered, too.
LEMMA FinishedCovered ==
    ASSUME IInv, current >= End(range)
    PROVE  EntryTiled([range |-> range, blocks |-> blocks])
  <1>1. current \in Nat /\ End(range) \in Nat
    BY BeginsAt DEF IInv, Placed
  <1>2. QED
    BY <1>1 DEF EntryTiled, Covers, IInv, Placed, Covering

LEMMA EntriesNext == IInv /\ EntriesCovered /\ [WatchNext]_watchVars => EntriesCovered'
  <1> SUFFICES ASSUME IInv, EntriesCovered, [WatchNext]_watchVars PROVE EntriesCovered'
    OBVIOUS
  <1>1. CASE Begin
    <2>1. /\ current = End(range)
          /\ entries' = entries \cup {[range |-> range, blocks |-> blocks]}
      BY <1>1 DEF Begin
    <2>2. current >= End(range)
      BY <2>1, BeginsAt DEF IInv, Placed
    <2>3. QED
      BY <2>1, <2>2, FinishedCovered DEF EntriesCovered
  <1>2. CASE NextBlock \/ Remove \/ UNCHANGED watchVars
    <2>1. entries' \subseteq entries
      BY <1>2 DEF NextBlock, Remove, watchVars
    <2>2. QED
      BY <2>1 DEF EntriesCovered
  <1>3. QED
    BY <1>1, <1>2 DEF WatchNext

LEMMA CoveredReports == IInv /\ EntriesCovered => WatchesReported
  <1> SUFFICES ASSUME IInv, EntriesCovered, NEW x \in Accesses
               PROVE  /\ (\E e \in Set : Touched(e.range, x)) <=> Fires(x) /\ ~Skipped(x)
                      /\ \A e \in Set : Matches(e.range, x) =>
                            Told(e.range, x) \in Bytes(e.range.address, e.range.length)
                                                 \cap Bytes(x.address, x.size)
    BY DEF WatchesReported, Touched
  <1>1. \A e \in Set : EntryTiled(e)
    BY FinishedCovered DEF Set, EntriesCovered
  <1>2. \A e \in Set : e.range \in Ranges
    BY <1>1 DEF EntryTiled
  <1>3. \A e \in Set : Touched(e.range, x) <=> Matches(e.range, x)
    BY <1>2, TouchedIsMatched
  <1>4. (\E e \in Set : Matches(e.range, x)) => Fires(x)
    BY <1>1, MatchedFires DEF Fires
  <1>5. (\E e \in Set : Touched(e.range, x)) <=> Fires(x) /\ ~Skipped(x)
    BY <1>3, <1>4 DEF Skipped
  <1>6. QED
    BY <1>2, <1>5, TouchedIsMatched

\* For every address space and any number of watchpoints: an aligned scalar access
\* stops and is reported exactly when it touches a watched byte (WatchesReported).
THEOREM Reporting == WatchSpec => []WatchesReported
  <1>1. WatchInit => IInv /\ EntriesCovered
    BY InitIInv DEF WatchInit, EntriesCovered
  <1>2. IInv /\ EntriesCovered /\ [WatchNext]_watchVars => (IInv /\ EntriesCovered)'
    BY NextIInv, EntriesNext
  <1>3. IInv /\ EntriesCovered => WatchesReported
    BY CoveredReports
  <1>4. QED
    BY <1>1, <1>2, <1>3, PTL DEF WatchSpec

-----------------------------------------------------------------------------
(* Induction, over a set of numbers. *)

LEMMA NatsIn ==
    ASSUME NEW T, 0 \in T, \A n \in Nat : n \in T => n + 1 \in T
    PROVE  Nat \subseteq T
  <1> SUFFICES ASSUME Nat \ T # {} PROVE FALSE
    OBVIOUS
  <1>1. PICK t \in Nat \ T : \A u \in Nat \ T : t <= u
    BY Least
  <1>2. t # 0 /\ t - 1 \in Nat /\ t - 1 \notin Nat \ T
    BY <1>1
  <1>3. t - 1 + 1 \in T
    BY <1>2
  <1>4. QED
    BY <1>1, <1>2, <1>3

-----------------------------------------------------------------------------
(* The erased ranges in ascending order (FlashStaging). *)

\* What vFlashErase leaves in erases.
ErasesOK ==
    /\ IsFiniteSet(erases)
    /\ \A e \in erases : e = <<e[1], e[2]>> /\ e[1] \in All /\ e[2] \in Nat \ {0} /\ e[1] + e[2] <= FlashSize

Below(e) == {f \in erases : Before(f, e)}

LEMMA AllNat == All \subseteq Nat /\ FlashSize \in Nat
  BY SizesAssumption DEF All

LEMMA EraseTyped == ErasesOK => \A e \in erases : e[1] \in Nat /\ e[2] \in Nat /\ e[1] + e[2] \in Nat
  BY AllNat DEF ErasesOK

\* Before is a strict total order.
LEMMA BelowGrows ==
    ASSUME ErasesOK, NEW e \in erases, NEW g \in erases, Before(e, g)
    PROVE  Cardinality(Below(e)) < Cardinality(Below(g))
  <1>1. Below(e) \in SUBSET Below(g)
    BY EraseTyped DEF Below, Before
  <1>2. e \in Below(g) /\ e \notin Below(e)
    BY EraseTyped DEF Below, Before
  <1>3. IsFiniteSet(Below(g))
    BY FS_Subset DEF Below, ErasesOK
  <1>4. IsFiniteSet(Below(e)) /\ Cardinality(Below(e)) <= Cardinality(Below(g))
        /\ Cardinality(Below(g)) # Cardinality(Below(e))
    BY <1>1, <1>2, <1>3, FS_Subset
  <1>5. Cardinality(Below(e)) \in Nat /\ Cardinality(Below(g)) \in Nat
    BY <1>3, <1>4, FS_CardinalityType
  <1>6. QED
    BY <1>4, <1>5

\* Of n ranges one has k - 1 before it, for every k in 1 .. n.
LEMMA Ranked ==
    ASSUME ErasesOK
    PROVE  Cardinality(erases) \in Nat /\ \A k \in 1 .. Cardinality(erases) : Rank(k) \in erases
  <1> DEFINE n == Cardinality(erases)
             r == [e \in erases |-> Cardinality(Below(e))]
  <1>1. IsFiniteSet(erases) /\ n \in Nat
    BY FS_CardinalityType DEF ErasesOK
  <1>2. ASSUME NEW e \in erases PROVE Cardinality(Below(e)) \in 0 .. n - 1
    <2>1. Below(e) \in SUBSET erases /\ e \notin Below(e)
      BY EraseTyped DEF Below, Before
    <2>2. IsFiniteSet(Below(e)) /\ Cardinality(Below(e)) <= n /\ n # Cardinality(Below(e))
      BY <1>1, <2>1, FS_Subset
    <2>3. Cardinality(Below(e)) \in Nat
      BY <2>2, FS_CardinalityType
    <2>4. QED
      BY <1>1, <2>2, <2>3
  <1>3. \A e, g \in erases : e # g => Before(e, g) \/ Before(g, e)
    <2>1. \A e, g \in erases : e[1] = g[1] /\ e[2] = g[2] => e = g
      BY DEF ErasesOK
    <2>2. QED
      BY <2>1, EraseTyped DEF Before
  <1>4. \A e, g \in erases : r[e] = r[g] => e = g
    <2> SUFFICES ASSUME NEW e \in erases, NEW g \in erases, r[e] = r[g], e # g PROVE FALSE
      OBVIOUS
    <2>1. Cardinality(Below(e)) = Cardinality(Below(g)) /\ Cardinality(Below(e)) \in Nat
      BY <1>2
    <2>2. QED
      BY <1>3, <2>1, BelowGrows
  <1>5. r \in [erases -> 0 .. n - 1]
    BY <1>2
  <1>6. r \in Injection(erases, 0 .. n - 1)
    BY <1>4, <1>5 DEF Injection, IsInjective
  <1>7. IsFiniteSet(0 .. n - 1) /\ Cardinality(0 .. n - 1) = n
    <2> HIDE DEF n
    <2>1. IsFiniteSet(0 .. n - 1) /\ Cardinality(0 .. n - 1) = IF 0 > n - 1 THEN 0 ELSE n - 1 - 0 + 1
      BY <1>1, FS_Interval
    <2>2. QED
      BY <1>1, <2>1
  <1>8. r \in Surjection(erases, 0 .. n - 1)
    BY <1>6, <1>7, FS_Injection
  <1>9. ASSUME NEW k \in 1 .. n PROVE Rank(k) \in erases
    <2>1. k - 1 \in 0 .. n - 1
      BY <1>1
    <2>2. PICK e \in erases : r[e] = k - 1
      BY <1>8, <2>1 DEF Surjection
    <2>3. Cardinality({f \in erases : Before(f, e)}) = k - 1
      BY <2>2 DEF Below
    <2>4. QED
      BY <2>3 DEF Rank
  <1>10. QED
    BY <1>1, <1>9

\* The scan of the first k ranges.
ScanNext(k, c, end) ==
    LET e == Rank(k)
    IN  IF e[1] <= c /\ c < e[1] + e[2]
        THEN IF end < e[1] + e[2] THEN end ELSE e[1] + e[2]
        ELSE c
Scan(f, n, a, end) == f = [k \in 0 .. n |-> IF k = 0 THEN a ELSE ScanNext(k, f[k - 1], end)]

LEMMA ScanExists ==
    ASSUME NEW n \in Nat, NEW a, NEW end
    PROVE  \E f : Scan(f, n, a, end)
  <1> DEFINE T == {m \in Nat : \E f : Scan(f, m, a, end)}
  <1>1. 0 \in T
    <2> DEFINE f == [k \in 0 .. 0 |-> a]
    <2>1. f = [k \in 0 .. 0 |-> IF k = 0 THEN a ELSE ScanNext(k, f[k - 1], end)]
      OBVIOUS
    <2>2. Scan(f, 0, a, end)
      BY <2>1 DEF Scan
    <2>3. QED
      BY <2>2
  <1>2. ASSUME NEW m \in Nat, m \in T PROVE m + 1 \in T
    <2>1. PICK f : Scan(f, m, a, end)
      BY <1>2
    <2> DEFINE g == [k \in 0 .. m + 1 |-> IF k = m + 1 THEN ScanNext(m + 1, f[m], end) ELSE f[k]]
    <2>2. \A k \in 0 .. m : f[k] = IF k = 0 THEN a ELSE ScanNext(k, f[k - 1], end)
      BY <2>1 DEF Scan
    <2>3. ASSUME NEW k \in 0 .. m + 1
          PROVE  g[k] = IF k = 0 THEN a ELSE ScanNext(k, g[k - 1], end)
      <3>1. CASE k = m + 1
        <4>1. g[k] = ScanNext(k, f[m], end) /\ k - 1 = m /\ k # 0
          BY <3>1
        <4>2. g[m] = f[m]
          OBVIOUS
        <4>3. QED
          BY <4>1, <4>2
      <3>2. CASE k # m + 1 /\ k # 0
        <4>1. k \in 0 .. m /\ k - 1 \in 0 .. m + 1 /\ k - 1 # m + 1
          BY <3>2
        <4>2. g[k] = f[k] /\ g[k - 1] = f[k - 1]
          BY <3>2, <4>1
        <4>3. QED
          BY <2>2, <3>2, <4>1, <4>2
      <3>3. CASE k = 0
        <4>1. k # m + 1 /\ 0 \in 0 .. m
          BY <3>3
        <4>2. QED
          BY <2>2, <3>3, <4>1
      <3>4. QED
        BY <3>1, <3>2, <3>3
    <2>4. g = [k \in 0 .. m + 1 |-> g[k]]
      OBVIOUS
    <2> HIDE DEF g
    <2>5. g = [k \in 0 .. m + 1 |-> IF k = 0 THEN a ELSE ScanNext(k, g[k - 1], end)]
      BY <2>3, <2>4
    <2>6. QED
      BY <2>5 DEF Scan
  <1>3. Nat \subseteq T
    <2> HIDE DEF T
    <2>1. QED
      BY <1>1, <1>2, NatsIn
  <1>4. QED
    BY <1>3

LEMMA CoveredIsScan ==
    ASSUME ErasesOK, NEW a, NEW end
    PROVE  \E f : Scan(f, Cardinality(erases), a, end) /\ Covered(a, end) = f[Cardinality(erases)]
  <1> DEFINE n == Cardinality(erases)
             f == CHOOSE g : Scan(g, n, a, end)
  <1>1. n \in Nat
    BY Ranked
  <1>2. Scan(f, n, a, end)
    BY <1>1, ScanExists
  <1>3. Covered(a, end) = f[n]
    BY Zenon DEF Covered, Scan, ScanNext
  <1>4. QED
    BY <1>2, <1>3

\* What the scan has passed is erased.
LEMMA CoveredErased ==
    ASSUME ErasesOK, NEW a \in Nat, NEW end \in Nat, Covered(a, end) = end
    PROVE  a .. end - 1 \subseteq ErasedBytes
  <1> DEFINE n == Cardinality(erases)
  <1>1. n \in Nat /\ \A k \in 1 .. n : Rank(k) \in erases
    BY Ranked
  <1>2. PICK f : Scan(f, n, a, end) /\ Covered(a, end) = f[n]
    BY CoveredIsScan
  <1>3. \A k \in 0 .. n : f[k] = IF k = 0 THEN a ELSE ScanNext(k, f[k - 1], end)
    BY <1>2 DEF Scan
  <1> DEFINE T == {k \in Nat : k <= n => f[k] \in Int /\ a .. f[k] - 1 \subseteq ErasedBytes}
  <1> HIDE DEF n
  <1>4. 0 \in T
    BY <1>1, <1>3
  <1>5. ASSUME NEW k \in Nat, k \in T PROVE k + 1 \in T
    <2> SUFFICES ASSUME k + 1 <= n
                 PROVE  f[k + 1] \in Int /\ a .. f[k + 1] - 1 \subseteq ErasedBytes
      OBVIOUS
    <2>1. f[k] \in Int /\ a .. f[k] - 1 \subseteq ErasedBytes
      BY <1>1, <1>5
    <2>2. f[k + 1] = ScanNext(k + 1, f[k], end)
      BY <1>1, <1>3
    <2>3. PICK e \in erases : e = Rank(k + 1)
      BY <1>1
    <2>4. e[1] \in Nat /\ e[2] \in Nat /\ e[1] + e[2] \in Nat
      BY <2>3, EraseTyped
    <2>5. Span(e[1], e[2]) \subseteq ErasedBytes
      BY <2>3 DEF ErasedBytes
    <2>6. f[k + 1] = IF e[1] <= f[k] /\ f[k] < e[1] + e[2]
                     THEN IF end < e[1] + e[2] THEN end ELSE e[1] + e[2]
                     ELSE f[k]
      BY <2>2, <2>3 DEF ScanNext
    <2>7. f[k + 1] \in Int
      BY <2>1, <2>4, <2>6
    <2>8. ASSUME NEW b \in a .. f[k + 1] - 1, b \notin a .. f[k] - 1 PROVE b \in e[1] .. e[1] + e[2] - 1
      BY <2>1, <2>4, <2>6, <2>7, <2>8
    <2>9. QED
      BY <2>1, <2>5, <2>7, <2>8 DEF Span
  <1>6. Nat \subseteq T
    <2> HIDE DEF T
    <2>1. QED
      BY <1>4, <1>5, NatsIn
  <1>7. QED
    BY <1>1, <1>2, <1>6

-----------------------------------------------------------------------------
(* What is staged. *)

WritesOK ==
    /\ writes \in Seq(All \X (Nat \ {0}))
    /\ \A k \in 1 .. Len(writes) :
        /\ writes[k][1] + writes[k][2] <= FlashSize
        /\ Span(writes[k][1], writes[k][2]) \subseteq ErasedBytes
    /\ \A j, k \in 1 .. Len(writes) : j < k => writes[j][1] + writes[j][2] <= writes[k][1]

\* The packets that were answered OK are the staged ones, and as long as there
\* are any requests the Flash holds what it held before them.
StagedInv ==
    /\ ErasesOK /\ WritesOK
    /\ oked = {<<writes[k][1], writes[k][2], k>> : k \in 1 .. Len(writes)}
    /\ erases # {} \/ writes # <<>> => flash = Clean

LEMMA WrittenTyped ==
    ASSUME WritesOK, NEW k \in 1 .. Len(writes)
    PROVE  writes[k][1] \in Nat /\ writes[k][2] \in Nat
  <1>1. writes[k] \in All \X (Nat \ {0})
    BY DEF WritesOK
  <1>2. QED
    BY <1>1, AllNat

LEMMA DroppedStaged == Drop => StagedInv'
  <1> SUFFICES ASSUME Drop PROVE StagedInv'
    OBVIOUS
  <1>1. erases' = {} /\ writes' = <<>> /\ oked' = {}
    BY DEF Drop
  <1>2. ErasesOK'
    BY <1>1, FS_EmptySet DEF ErasesOK
  <1>3. writes' \in Seq(All \X (Nat \ {0})) /\ 1 .. Len(writes') = {}
    BY <1>1
  <1>4. WritesOK'
    BY <1>3 DEF WritesOK
  <1>5. QED
    BY <1>1, <1>2, <1>3, <1>4 DEF StagedInv

LEMMA InitStaged == StagingInit => StagedInv
  <1> SUFFICES ASSUME StagingInit PROVE StagedInv
    OBVIOUS
  <1>1. erases = {} /\ writes = <<>> /\ oked = {}
    BY DEF StagingInit
  <1>2. ErasesOK
    BY <1>1, FS_EmptySet DEF ErasesOK
  <1>3. writes \in Seq(All \X (Nat \ {0})) /\ 1 .. Len(writes) = {}
    BY <1>1
  <1>4. WritesOK
    BY <1>3 DEF WritesOK
  <1>5. QED
    BY <1>1, <1>2, <1>3, <1>4 DEF StagedInv

LEMMA EraseStaged ==
    ASSUME StagedInv, NEW a \in All, NEW n \in 0 .. FlashSize, Erase(a, n)
    PROVE  StagedInv'
  <1>1. erases' = erases \cup {<<a, n>>} /\ writes' = writes /\ oked' = oked /\ flash' = Fresh
        /\ n \in Nat \ {0} /\ a + n <= FlashSize
    BY AllNat DEF Erase, InFlash
  <1>2. ErasesOK'
    <2>1. IsFiniteSet(erases')
      BY <1>1, FS_AddElement DEF StagedInv, ErasesOK
    <2>2. QED
      BY <1>1, <2>1 DEF StagedInv, ErasesOK
  <1>3. ErasedBytes \subseteq ErasedBytes'
    BY <1>1 DEF ErasedBytes
  <1>4. WritesOK'
    BY <1>1, <1>3 DEF StagedInv, WritesOK
  <1>5. flash' = Clean
    BY <1>1 DEF StagedInv, Fresh
  <1>6. QED
    BY <1>1, <1>2, <1>4, <1>5 DEF StagedInv

LEMMA WriteStaged ==
    ASSUME StagedInv, NEW a \in All, NEW n \in 0 .. FlashSize, Write(a, n)
    PROVE  StagedInv'
  <1> DEFINE m == Len(writes)
  <1>1. /\ writes' = Append(writes, <<a, n>>) /\ erases' = erases /\ flash' = Fresh
        /\ oked' = oked \cup {<<a, n, m + 1>>}
        /\ a \in Nat /\ n \in Nat \ {0} /\ a + n \in Nat /\ a + n <= FlashSize
        /\ Covered(a, a + n) = a + n
        /\ writes # <<>> => a >= writes[m][1] + writes[m][2]
    BY AllNat DEF Write, InFlash
  <1>2. WritesOK /\ ErasesOK /\ writes \in Seq(All \X (Nat \ {0})) /\ m \in Nat
    BY DEF StagedInv, WritesOK
  <1>3. ErasedBytes' = ErasedBytes
    BY <1>1 DEF ErasedBytes
  <1>4. Span(a, n) \subseteq ErasedBytes
    BY <1>1, <1>2, CoveredErased DEF Span
  <1>5. /\ writes' \in Seq(All \X (Nat \ {0})) /\ Len(writes') = m + 1
        /\ \A k \in 1 .. m : writes'[k] = writes[k]
        /\ writes'[m + 1] = <<a, n>>
    BY <1>1, <1>2
  <1>6. \A k \in 1 .. m : writes[k][1] + writes[k][2] <= a
    <2> SUFFICES ASSUME NEW k \in 1 .. m PROVE writes[k][1] + writes[k][2] <= a
      OBVIOUS
    <2>1. m # 0 /\ m \in 1 .. m /\ writes # <<>>
      BY <1>2
    <2>2. writes[m][1] \in Nat /\ writes[m][2] \in Nat /\ writes[k][1] \in Nat /\ writes[k][2] \in Nat
      BY <1>2, <2>1, WrittenTyped
    <2>3. k < m => writes[k][1] + writes[k][2] <= writes[m][1]
      BY <1>2, <2>1 DEF WritesOK
    <2>4. QED
      BY <1>1, <1>2, <2>1, <2>2, <2>3
  <1>7. WritesOK'
    <2>1. ASSUME NEW k \in 1 .. m + 1
          PROVE  writes'[k][1] + writes'[k][2] <= FlashSize /\ Span(writes'[k][1], writes'[k][2]) \subseteq ErasedBytes
      <3>1. CASE k = m + 1
        BY <1>1, <1>4, <1>5, <3>1
      <3>2. CASE k \in 1 .. m
        BY <1>2, <1>5, <3>2 DEF WritesOK
      <3>3. QED
        BY <1>2, <3>1, <3>2
    <2>2. ASSUME NEW j \in 1 .. m + 1, NEW k \in 1 .. m + 1, j < k
          PROVE  writes'[j][1] + writes'[j][2] <= writes'[k][1]
      <3>1. j \in 1 .. m
        BY <1>2, <2>2
      <3>2. CASE k = m + 1
        BY <1>5, <1>6, <3>1, <3>2
      <3>3. CASE k \in 1 .. m
        BY <1>2, <1>5, <2>2, <3>1, <3>3 DEF WritesOK
      <3>4. QED
        BY <1>2, <3>2, <3>3
    <2>3. QED
      BY <1>3, <1>5, <2>1, <2>2 DEF WritesOK
  <1>8. oked' = {<<writes'[k][1], writes'[k][2], k>> : k \in 1 .. Len(writes')}
    <2>1. oked = {<<writes[k][1], writes[k][2], k>> : k \in 1 .. m}
      BY DEF StagedInv
    <2>2. oked = {<<writes'[k][1], writes'[k][2], k>> : k \in 1 .. m}
      BY <1>5, <2>1
    <2>3. 1 .. m + 1 = (1 .. m) \cup {m + 1}
      BY <1>2
    <2>4. <<writes'[m + 1][1], writes'[m + 1][2], m + 1>> = <<a, n, m + 1>>
      BY <1>5
    <2> DEFINE entry(k) == <<writes'[k][1], writes'[k][2], k>>
    <2>5. oked = {entry(k) : k \in 1 .. m} /\ entry(m + 1) = <<a, n, m + 1>>
      BY <2>2, <2>4
    <2> HIDE DEF m, entry
    <2>6. oked' = {entry(k) : k \in (1 .. m) \cup {m + 1}}
      BY <1>1, <2>5
    <2>7. oked' = {entry(k) : k \in 1 .. Len(writes')}
      BY <1>5, <2>3, <2>6
    <2>8. QED
      BY <2>7 DEF entry
  <1>9. flash' = Clean
    BY <1>1 DEF StagedInv, Fresh
  <1>10. ErasesOK'
    BY <1>1, <1>2 DEF ErasesOK
  <1>11. QED
    BY <1>7, <1>8, <1>9, <1>10 DEF StagedInv

LEMMA NextStaged == StagedInv /\ [StagingNext]_stagingVars => StagedInv'
  <1> SUFFICES ASSUME StagedInv, [StagingNext]_stagingVars PROVE StagedInv'
    OBVIOUS
  <1>1. CASE \E a \in All, n \in 0 .. FlashSize : Erase(a, n) \/ Write(a, n)
    BY <1>1, EraseStaged, WriteStaged
  <1>2. CASE Done \/ DoneFails \/ Session
    BY <1>2, DroppedStaged DEF Done, DoneFails, Session, Forget
  <1>3. CASE Patch \/ UNCHANGED stagingVars
    <2>1. UNCHANGED <<erases, writes, flash, oked>>
      BY <1>3 DEF Patch, stagingVars
    <2>2. QED
      BY <2>1 DEF StagedInv, ErasesOK, WritesOK, ErasedBytes
  <1>4. QED
    BY <1>1, <1>2, <1>3 DEF StagingNext

LEMMA StagedInvFits == StagedInv => StagedFits
  <1> SUFFICES ASSUME StagedInv PROVE StagedFits
    OBVIOUS
  <1>1. WritesOK /\ DOMAIN writes = 1 .. Len(writes)
    BY DEF StagedInv, WritesOK
  <1>2. \A k \in 1 .. Len(writes) : Span(writes[k][1], writes[k][2]) \subseteq ErasedBytes
    BY <1>1 DEF WritesOK
  <1>3. ~KeyError
    BY <1>1, <1>2 DEF KeyError
  <1>4. ASSUME NEW w \in oked PROVE Span(w[1], w[2]) \subseteq ErasedBytes
    <2>1. PICK k \in 1 .. Len(writes) : w = <<writes[k][1], writes[k][2], k>>
      BY DEF StagedInv
    <2>2. QED
      BY <1>2, <2>1
  <1>5. QED
    BY <1>3, <1>4 DEF StagedFits

\* For every Flash and any number of requests and packets: data that was answered
\* OK lies in sectors that will be erased, and vFlashDone meets no byte without one
\* (StagedFits).
THEOREM DataFits == StagingSpec => []StagedFits
  <1>1. StagingInit => StagedInv
    BY InitStaged
  <1>2. StagedInv /\ [StagingNext]_stagingVars => StagedInv'
    BY NextStaged
  <1>3. StagedInv => StagedFits
    BY StagedInvFits
  <1>4. QED
    BY <1>1, <1>2, <1>3, PTL DEF StagingSpec

\* What vFlashDone writes into a byte: the data of the one packet that has it, or
\* an erased byte, or what was there.
LEMMA ImageIs ==
    ASSUME StagedInv, erases # {}, NEW b \in All
    PROVE  Image[b] = IF \E w \in oked : b \in Span(w[1], w[2])
                      THEN (CHOOSE w \in oked : b \in Span(w[1], w[2]))[3]
                      ELSE IF \E e \in erases : b \in Span(e[1], e[2]) THEN Erased
                      ELSE Old
  <1> DEFINE Has(k) == b \in Span(writes[k][1], writes[k][2])
             entry(k) == <<writes[k][1], writes[k][2], k>>
             holds == {k \in DOMAIN writes : Has(k)}
  <1>1. WritesOK /\ DOMAIN writes = 1 .. Len(writes) /\ oked = {entry(k) : k \in 1 .. Len(writes)}
    BY DEF StagedInv, WritesOK
  <1>2. Image[b] = IF b \notin ErasedBytes THEN flash[b]
                   ELSE IF holds = {} THEN Erased
                   ELSE CHOOSE k \in holds : \A j \in holds : j <= k
    BY DEF Image
  <1>3. b \in ErasedBytes <=> \E e \in erases : b \in Span(e[1], e[2])
    BY DEF ErasedBytes
  <1>4. flash[b] = Old
    BY DEF StagedInv, Clean
  <1>5. CASE \E k \in 1 .. Len(writes) : Has(k)
    <2>1. PICK k \in 1 .. Len(writes) : Has(k)
      BY <1>5
    <2>2. b \in ErasedBytes
      BY <1>1, <2>1 DEF WritesOK
    <2>3. ASSUME NEW j \in 1 .. Len(writes), Has(j) PROVE j = k
      <3>1. /\ b \in Nat
            /\ writes[j][1] \in Nat /\ writes[j][2] \in Nat
            /\ writes[k][1] \in Nat /\ writes[k][2] \in Nat
        BY <1>1, WrittenTyped, AllNat
      <3>2. /\ writes[j][1] <= b /\ b <= writes[j][1] + writes[j][2] - 1
            /\ writes[k][1] <= b /\ b <= writes[k][1] + writes[k][2] - 1
        BY <2>1, <2>3, <3>1 DEF Span
      <3>3. /\ j < k => writes[j][1] + writes[j][2] <= writes[k][1]
            /\ k < j => writes[k][1] + writes[k][2] <= writes[j][1]
        BY <1>1 DEF WritesOK
      <3>4. ~(j < k) /\ ~(k < j)
        BY <3>1, <3>2, <3>3
      <3>5. QED
        BY <3>4
    <2>4. holds = {k}
      BY <1>1, <2>1, <2>3
    <2>5. Image[b] = k
      <3>1. (CHOOSE i \in {k} : \A j \in {k} : j <= i) = k
        OBVIOUS
      <3> HIDE DEF holds
      <3>2. QED
        BY <1>2, <2>2, <2>4, <3>1
    <2>6. \A w \in oked : b \in Span(w[1], w[2]) => w = entry(k)
      BY <1>1, <2>3
    <2>7. entry(k) \in oked /\ b \in Span(entry(k)[1], entry(k)[2]) /\ entry(k)[3] = k
      BY <1>1, <2>1
    <2> HIDE DEF entry, Has
    <2>8. (CHOOSE w \in oked : b \in Span(w[1], w[2])) = entry(k)
      BY <2>6, <2>7
    <2>9. QED
      BY <2>5, <2>7, <2>8
  <1>6. CASE ~\E k \in 1 .. Len(writes) : Has(k)
    <2>1. ~\E w \in oked : b \in Span(w[1], w[2])
      BY <1>1, <1>6
    <2>2. holds = {}
      BY <1>1, <1>6
    <2> HIDE DEF holds
    <2>3. QED
      BY <1>2, <1>3, <1>4, <2>1, <2>2
  <1>7. QED
    BY <1>5, <1>6

\* For every Flash and any number of requests and packets: a vFlashDone that
\* succeeds leaves in the Flash exactly what was answered OK since the last one,
\* erased bytes around it, and every other byte as it was (LoadExact).
THEOREM LoadsExactly == StagingSpec => LoadExact
  <1> DEFINE Exactly ==
        Done => \A b \in All :
            flash'[b] = IF \E w \in oked : b \in Span(w[1], w[2])
                        THEN (CHOOSE w \in oked : b \in Span(w[1], w[2]))[3]
                        ELSE IF \E e \in erases : b \in Span(e[1], e[2]) THEN Erased
                        ELSE Old
  <1>1. StagingInit => StagedInv
    BY InitStaged
  <1>2. StagedInv /\ [StagingNext]_stagingVars => StagedInv'
    BY NextStaged
  <1>3. StagedInv /\ [StagingNext]_stagingVars => [Exactly]_stagingVars
    BY ImageIs DEF Done
  <1>4. QED
    BY <1>1, <1>2, <1>3, PTL DEF StagingSpec, LoadExact
=============================================================================

---------------------------- MODULE FlashStaging ----------------------------
(***************************************************************************)
(* The vFlash packets of gdbserver.flash_packet: erase requests and data   *)
(* are kept on the host, and vFlashDone makes whole sectors of them, which *)
(* Flash.apply writes in one transaction (module Flash).                   *)
(*                                                                         *)
(* Bytes are numbered from the start of the Flash, SectorSize of them to a *)
(* sector.  The k-th packet of data since the last vFlashDone writes the   *)
(* value k into all of its bytes.                                          *)
(***************************************************************************)
EXTENDS Integers, Sequences, FiniteSets

CONSTANTS
    SectorSize,     \* bytes of a sector (4 KiB)
    FlashSize,      \* bytes of the Flash
    MaxErases,      \* bound: vFlashErase packets of a load
    MaxWrites       \* bound: vFlashWrite packets of a load

ASSUME SizesAssumption ==
    /\ SectorSize \in Nat \ {0} /\ FlashSize \in Nat \ {0} /\ FlashSize % SectorSize = 0
    /\ MaxErases \in Nat /\ MaxWrites \in Nat

VARIABLES
    erases,     \* Server.flash_erases: <<address, length>>
    writes,     \* Server.flash_writes: <<address, length>>, in their order
    patched,    \* Server.software.entries is not empty
    flash,      \* what the bytes of the Flash hold
    oked        \* ghost: writes of this load that were answered OK

stagingVars == <<erases, writes, patched, flash, oked>>

Old    == -1        \* what a byte held before the load
Erased == 0         \* 0xff
Span(a, n) == a .. a + n - 1
All    == 0 .. FlashSize - 1
Clean  == [b \in All |-> Old]

InFlash(a, n) == a \in All /\ n > 0 /\ a + n <= FlashSize     \* flash_range

\* A fresh load: what the Flash holds is old now.
Fresh == IF erases = {} /\ writes = <<>> THEN Clean ELSE flash

\* vFlashErase: whole sectors, none of them twice.
Erase(a, n) ==
    /\ ~patched /\ Cardinality(erases) < MaxErases
    /\ InFlash(a, n) /\ a % SectorSize = 0 /\ n % SectorSize = 0
    /\ ~\E e \in erases : a < e[1] + e[2] /\ a + n > e[1]
    /\ erases' = erases \cup {<<a, n>>} /\ flash' = Fresh
    /\ UNCHANGED <<writes, patched, oked>>

\* How far the erased ranges, in ascending order, cover the data from its
\* first byte on.
Before(e, f) == e[1] < f[1] \/ (e[1] = f[1] /\ e[2] < f[2])
Rank(k) == CHOOSE e \in erases : Cardinality({f \in erases : Before(f, e)}) = k - 1
CoveredOnce(a, end) ==
    IF \E e \in erases : e[1] <= a /\ a < e[1] + e[2] THEN end ELSE a
Covered(a, end) ==
    LET covered[k \in 0 .. Cardinality(erases)] ==
            IF k = 0 THEN a
            ELSE LET e == Rank(k)
                     c == covered[k - 1]
                 IN  IF e[1] <= c /\ c < e[1] + e[2]
                     THEN IF end < e[1] + e[2] THEN end ELSE e[1] + e[2]
                     ELSE c
    IN  covered[Cardinality(erases)]

\* vFlashWrite: behind the data before it, and into erased sectors.
Write(a, n) ==
    /\ ~patched /\ Len(writes) < MaxWrites
    /\ InFlash(a, n)
    /\ writes # <<>> => a >= writes[Len(writes)][1] + writes[Len(writes)][2]
    /\ Covered(a, a + n) = a + n
    /\ writes' = Append(writes, <<a, n>>) /\ oked' = oked \cup {<<a, n, Len(writes) + 1>>}
    /\ flash' = Fresh
    /\ UNCHANGED <<erases, patched>>

\* vFlashDone: the sectors, erased and with the data in them.  A byte outside
\* them is a KeyError, answered E01, which drops nothing.
ErasedBytes == UNION {Span(e[1], e[2]) : e \in erases}
Image ==
    LET holds(b) == {k \in DOMAIN writes : b \in Span(writes[k][1], writes[k][2])}
    IN  [b \in All |->
            IF b \notin ErasedBytes THEN flash[b]
            ELSE IF holds(b) = {} THEN Erased
            ELSE CHOOSE k \in holds(b) : \A j \in holds(b) : j <= k]
KeyError == \E k \in DOMAIN writes : ~Span(writes[k][1], writes[k][2]) \subseteq ErasedBytes

Drop == erases' = {} /\ writes' = <<>> /\ oked' = {}
DropErases == erases' = {} /\ UNCHANGED writes /\ oked' = {}
Forget == Drop

Done ==
    /\ ~patched /\ erases # {} /\ ~KeyError
    /\ Forget
    /\ flash' = Image
    /\ UNCHANGED patched
\* apply raises: what the Flash holds then is module Flash's concern.
DoneFails ==
    /\ ~patched /\ erases # {} /\ ~KeyError
    /\ Forget
    /\ flash' = Clean /\ UNCHANGED patched

\* Z0 and z0: no vFlash packet is taken while a software breakpoint is set.
Patch == patched' = ~patched /\ UNCHANGED <<erases, writes, flash, oked>>

\* serve(): the next session starts with nothing staged.
Session == Drop /\ patched' = FALSE /\ flash' = Clean

StagingInit == erases = {} /\ writes = <<>> /\ patched = FALSE /\ flash = Clean /\ oked = {}
StagingNext ==
    \/ \E a \in All, n \in 0 .. FlashSize : Erase(a, n) \/ Write(a, n)
    \/ Done \/ DoneFails \/ Patch \/ Session
StagingSpec == StagingInit /\ [][StagingNext]_stagingVars

-----------------------------------------------------------------------------
(* Properties. *)

\* Data that was answered OK can be programmed: it lies in sectors that will
\* be erased, over the seams of adjacent erase requests and whatever came
\* between, and vFlashDone meets no byte without a sector.
StagedFits == ~KeyError /\ \A w \in oked : Span(w[1], w[2]) \subseteq ErasedBytes

\* A vFlashDone that succeeds leaves in the Flash exactly what was answered OK
\* since the last one: the data of every packet, erased bytes around it in the
\* requested sectors, and every other byte as it was.
LoadExact ==
    [][Done =>
        \A b \in All :
            flash'[b] =
                IF \E w \in oked : b \in Span(w[1], w[2])
                THEN (CHOOSE w \in oked : b \in Span(w[1], w[2]))[3]
                ELSE IF \E e \in erases : b \in Span(e[1], e[2]) THEN Erased
                ELSE Old]_stagingVars
=============================================================================

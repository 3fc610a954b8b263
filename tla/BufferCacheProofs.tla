-------------------------- MODULE BufferCacheProofs --------------------------
(***************************************************************************)
(* Proofs about BufferCache, for a device, clusters and a large granule of    *)
(* any size: no read-modify-write of the engine undoes a direct write of the  *)
(* kernel, and the buffer cache holds nothing old.                            *)
(***************************************************************************)
EXTENDS BufferCache, WellFoundedInduction, TLAPS

\* The default prover and its time; steps with arithmetic, records or sequences cite SMT.
USE ZenonT(40)

-----------------------------------------------------------------------------
(* Blocks and clusters.                                                     *)

\* Division with remainder.
LEMMA DivMod ==
    ASSUME NEW g \in Nat \ {0}, NEW x \in Nat
    PROVE  /\ x \div g \in Nat /\ (x \div g) * g \in Nat
           /\ (x \div g) * g <= x /\ x < (x \div g) * g + g
BY SMTT(40)

\* Cancelling a factor.
LEMMA Less ==
    ASSUME NEW g \in Nat \ {0}, NEW a \in Int, NEW b \in Int, a * g < b * g
    PROVE  a < b
BY SMTT(40)

\* The quotient is the only one.
LEMMA DivUnique ==
    ASSUME NEW g \in Nat \ {0}, NEW x \in Nat, NEW q \in Nat, q * g <= x, x < q * g + g
    PROVE  x \div g = q
<1>1. (x \div g) * g <= x /\ x < (x \div g) * g + g /\ x \div g \in Nat
  BY DivMod
<1>2. q * g < (x \div g + 1) * g /\ (x \div g) * g < (q + 1) * g
  BY <1>1, SMTT(40)
<1>3. q < x \div g + 1 /\ x \div g < q + 1
  BY <1>1, <1>2, Less, SMTT(40)
<1> QED
  BY <1>1, <1>3, SMTT(40)

\* A set of natural numbers has a least one.
LEMMA Least ==
    ASSUME NEW T, T \subseteq Nat, T # {}
    PROVE  \E x \in T : \A y \in T : x <= y
<1> DEFINE R == {p \in Nat \X Nat : p[1] < p[2]}
<1>1. IsWellFoundedOn(R, Nat)
  BY NatLessThanWellFounded DEF OpToRel
<1>2. PICK x \in T : \A y \in T : ~(<<y, x>> \in R)
  BY <1>1, WFMin
<1>3. \A y \in T : ~(y < x)
  BY <1>2
<1> QED
  BY <1>3, SMTT(40)

\* A range of whole multiples of the granule holds whole blocks.
LEMMA WholeBlocks ==
    ASSUME NEW g \in Nat \ {0}, NEW m \in Nat \ {0}, m % g = 0, NEW c \in Nat,
           NEW x \in Nat, NEW y \in Nat, c * m <= x, x < (c + 1) * m,
           (x \div g) * g <= y, y < (x \div g) * g + g
    PROVE  c * m <= y /\ y < (c + 1) * m
<1> DEFINE k == m \div g
           q == x \div g
<1>1. m = k * g /\ k \in Nat
  BY SMTT(40)
<1>2. q * g <= x /\ x < q * g + g /\ q \in Nat
  BY DivMod
<1>3. c * m = (c * k) * g /\ (c + 1) * m = ((c + 1) * k) * g /\ c * k \in Nat /\ (c + 1) * k \in Nat
  BY <1>1, SMTT(40)
<1> HIDE DEF k, q
<1>4. (c * k) * g < (q + 1) * g /\ q * g < ((c + 1) * k) * g
  BY <1>2, <1>3, SMTT(40)
<1>5. c * k < q + 1 /\ q < (c + 1) * k
  BY <1>2, <1>3, <1>4, Less, SMTT(40)
<1>6. c * k <= q /\ q + 1 <= (c + 1) * k
  BY <1>2, <1>3, <1>5, SMTT(40)
<1>7. (c * k) * g <= q * g /\ (q + 1) * g <= ((c + 1) * k) * g
  BY <1>2, <1>3, <1>6, SMTT(40)
<1>8. (q + 1) * g = q * g + g
  BY <1>2, SMTT(40)
<1> QED
  BY <1>2, <1>3, <1>7, <1>8, SMTT(40) DEF q

\* The block of a sector.
Blk(x) == <<(x \div granule) * granule, granule>>

\* The granule divides the clusters and the device.
Divides == /\ granule \in Nat \ {0} /\ cs \in Nat \ {0}
           /\ cs % granule = 0 /\ NumSectors % granule = 0

\* The granule that is picked divides both.
LEMMA PickDivides ==
    ASSUME cs \in ClusterSizes, granule = PickCacheBlockSize(cs)
    PROVE  Divides /\ granule \in {1, Big}
<1>1. cs \in Nat \ {0} /\ NumSectors \in Nat \ {0} /\ Big \in Nat \ {0}
  BY BufferCacheAssumption, SMTT(40) DEF BufferCacheAssumption
<1>2. \A n \in Nat : n % 1 = 0
  BY SMTT(40)
<1> QED
  BY <1>1, <1>2, SMTT(40) DEF PickCacheBlockSize, Divides

\* Blocks partition the device, and a block is in one cluster.
LEMMA Blocks ==
    ASSUME Divides, NEW x \in Nat
    PROVE  /\ x \in Cover(Blk(x))
           /\ \A y \in Cover(Blk(x)) : y \in Nat /\ Blk(y) = Blk(x)
           /\ x \in Sectors => Cover(Blk(x)) \subseteq Sectors
           /\ \A c \in Nat : x \in Cluster(c) => Cover(Blk(x)) \subseteq Cluster(c)
<1>1. granule \in Nat \ {0} /\ cs \in Nat \ {0} /\ cs % granule = 0
  BY DEF Divides
<1> DEFINE q == x \div granule
<1>2. q \in Nat /\ q * granule \in Nat /\ q * granule <= x /\ x < q * granule + granule
  BY <1>1, DivMod
<1>3. Cover(Blk(x)) = q * granule .. q * granule + granule - 1
  BY DEF Cover, Blk
<1>4. x \in Cover(Blk(x))
  BY <1>1, <1>2, <1>3, SMTT(40)
<1>5. ASSUME NEW y \in Cover(Blk(x))
      PROVE  y \in Nat /\ q * granule <= y /\ y < q * granule + granule
  BY <1>1, <1>2, <1>3, SMTT(40)
<1>6. ASSUME NEW y \in Cover(Blk(x)) PROVE Blk(y) = Blk(x)
  <2>1. y \div granule = q
    BY <1>1, <1>2, <1>5, DivUnique
  <2> QED
    BY <2>1 DEF Blk
<1>7. ASSUME NEW c \in Nat, x \in Cluster(c), NEW y \in Cover(Blk(x)) PROVE y \in Cluster(c)
  <2>1. c * cs <= x /\ x < (c + 1) * cs /\ c * cs \in Nat /\ (c + 1) * cs \in Nat
    BY <1>1, <1>7, SMTT(40) DEF Cluster
  <2>2. c * cs <= y /\ y < (c + 1) * cs
    BY <1>1, <1>5, <2>1, WholeBlocks
  <2> QED
    BY <1>5, <2>1, <2>2, SMTT(40) DEF Cluster
<1>8. ASSUME x \in Sectors, NEW y \in Cover(Blk(x)) PROVE y \in Sectors
  <2>1. NumSectors \in Nat \ {0} /\ NumSectors % granule = 0
    BY BufferCacheAssumption DEF BufferCacheAssumption, Divides
  <2>2. 0 * NumSectors <= x /\ x < (0 + 1) * NumSectors
    BY <1>8, <2>1, SMTT(40) DEF Sectors
  <2>3. 0 * NumSectors <= y /\ y < (0 + 1) * NumSectors
    BY <1>1, <1>5, <2>1, <2>2, WholeBlocks
  <2> QED
    BY <1>5, <2>1, <2>3, SMTT(40) DEF Sectors
<1> QED
  BY <1>4, <1>5, <1>6, <1>7, <1>8

-----------------------------------------------------------------------------
(* The inductive invariant.  Nothing is ever out of date: no cached block    *)
(* and no block of a running access shares a sector with a mapped cluster.   *)

\* Types.
Types ==
    /\ cs \in ClusterSizes /\ open \in BOOLEAN /\ granule \in {1, Big}
    /\ ioMode \in {"probing", "metadata"}
    /\ kernelMounted \in BOOLEAN /\ attached \in BOOLEAN
    /\ mapped \subseteq Clusters

\* A block the kernel has nothing of.
Clear(b) == Cover(b) \cap InFlight = {}

\* Nothing is left of a volume that is closed.
Closed == ~open => cached = {} /\ call = NoCall /\ mapped = {} /\ ioMode = "probing"
                   /\ ~kernelMounted
Modes == /\ open => granule = PickCacheBlockSize(cs)
         /\ mapped # {} => kernelMounted
         /\ ioMode = "probing" => cached = {}

\* What is cached is a block of the current granule, and clear.
CachedOK == \A b \in cached : (\E s \in Sectors : b = Blk(s)) /\ Clear(b)

\* A running access, and what it may still touch.
Call == [st : {"load", "store"}, write : BOOLEAN, secs : SUBSET Sectors,
         todo : SUBSET (Int \X Int), got : SUBSET Int, stale : SUBSET Int]
CallOK ==
    call # NoCall =>
        /\ call \in Call /\ call.stale = {}
        /\ call.todo # {} /\ call.todo \subseteq BlocksOf(call.secs)
        /\ \A b \in BlocksOf(call.secs) : Clear(b)
        /\ call.secs # {} /\ call.got \cap InFlight = {}

\* The invariant.
CacheInv == /\ Types /\ Closed /\ Modes /\ CachedOK /\ CallOK
            /\ staleDisk = {} /\ staleCache = {}

\* It holds at first.
LEMMA InvInit == Init => CacheInv
<1> SUFFICES ASSUME Init PROVE CacheInv
  OBVIOUS
<1> QED
  BY DEF Init, CacheInv, Types, Closed, Modes, CachedOK, CallOK

\* So does the granule of an open volume.
LEMMA OpenDivides ==
    ASSUME CacheInv, open
    PROVE  Divides
BY PickDivides DEF CacheInv, Types, Modes

\* The next block of an access is one of its blocks, and one of the device's.
LEMMA NextBlockOK ==
    ASSUME CacheInv, call # NoCall
    PROVE  /\ NextBlock \in call.todo /\ NextBlock \in BlocksOf(call.secs)
           /\ \E s \in Sectors : NextBlock = Blk(s)
           /\ Clear(NextBlock) /\ open /\ Divides
<1>1. open /\ Divides
  BY OpenDivides DEF CacheInv, Closed, Types
<1>2. /\ call.todo # {} /\ call.todo \subseteq BlocksOf(call.secs) /\ call.secs \subseteq Sectors
      /\ \A b \in BlocksOf(call.secs) : Clear(b)
  BY DEF CacheInv, CallOK, Call
<1>3. \A b \in BlocksOf(call.secs) : \E s \in Sectors : b = Blk(s)
  BY <1>2 DEF BlocksOf, Blk
<1>4. \A b \in call.todo : b[1] \in Nat
  BY <1>1, <1>2, <1>3, DivMod, SMTT(40) DEF Blk, Divides, Sectors
<1>5. PICK n \in {b[1] : b \in call.todo} : \A k \in {b[1] : b \in call.todo} : n <= k
  <2>1. {b[1] : b \in call.todo} \subseteq Nat /\ {b[1] : b \in call.todo} # {}
    BY <1>2, <1>4
  <2> QED
    BY <2>1, Least
<1>6. \E b \in call.todo : \A d \in call.todo : b[1] <= d[1]
  BY <1>5
<1>7. NextBlock \in call.todo
  BY <1>6 DEF NextBlock
<1> QED
  BY <1>1, <1>2, <1>3, <1>7

-----------------------------------------------------------------------------
(* Opening and closing.                                                     *)

\* Opening, closing and formatting.
LEMMA OpenSteps ==
    ASSUME CacheInv, "purgefail" \notin Env,
           OpenEngine \/ Mount \/ Attach \/ Detach \/ CloseEngine \/ Format
    PROVE  CacheInv'
<1>1. CASE OpenEngine \/ (Mount /\ ~open)
  <2>1. /\ cached = {} /\ call = NoCall /\ mapped = {} /\ ioMode = "probing" /\ ~kernelMounted
    BY <1>1 DEF OpenEngine, CacheInv, Closed
  <2>2. /\ open' = TRUE /\ granule' = PickCacheBlockSize(cs) /\ kernelMounted' \in BOOLEAN
        /\ UNCHANGED <<cs, ioMode, attached, cached, staleCache, staleDisk, mapped, call>>
    BY <1>1 DEF OpenEngine, Mount, cache, CacheInv, Types
  <2>3. Types'
    BY <2>1, <2>2 DEF CacheInv, Types, PickCacheBlockSize, Clusters
  <2>4. Closed' /\ Modes' /\ CachedOK' /\ CallOK'
    BY <2>1, <2>2 DEF Closed, Modes, CachedOK, CallOK, PickCacheBlockSize
  <2> QED
    BY <2>2, <2>3, <2>4 DEF CacheInv
<1>2. CASE Mount /\ open
  <2>1. /\ open' = open /\ granule' = granule /\ kernelMounted' = TRUE
        /\ UNCHANGED <<cs, ioMode, attached, cached, staleCache, staleDisk, mapped, call>>
    BY <1>2 DEF Mount, cache, CacheInv, Types
  <2>2. InFlight' = InFlight /\ Clusters' = Clusters
    BY <2>1 DEF InFlight, Cluster, Clusters
  <2>3. Types' /\ Closed' /\ Modes'
    BY <1>2, <2>1, <2>2 DEF CacheInv, Types, Closed, Modes, PickCacheBlockSize
  <2>4. CachedOK' /\ CallOK'
    BY <2>1, <2>2 DEF CacheInv, CachedOK, CallOK, Clear, Blk, BlocksOf
  <2> QED
    BY <2>1, <2>3, <2>4 DEF CacheInv
<1>3. CASE Attach \/ Detach
  <2>1. attached' \in BOOLEAN /\ UNCHANGED <<cs, open, granule, kernelMounted, ioMode, cached,
                                            staleCache, staleDisk, mapped, call>>
    BY <1>3 DEF Attach, Detach, mount, cache
  <2>2. InFlight' = InFlight /\ Clusters' = Clusters
    BY <2>1 DEF InFlight, Cluster, Clusters
  <2>3. Types' /\ Closed' /\ Modes'
    BY <2>1, <2>2 DEF CacheInv, Types, Closed, Modes, PickCacheBlockSize
  <2>4. CachedOK' /\ CallOK'
    BY <2>1, <2>2, SMTT(40) DEF CacheInv, CachedOK, CallOK, Clear, Blk, BlocksOf
  <2> QED
    BY <2>1, <2>3, <2>4 DEF CacheInv
<1>4. CASE CloseEngine
  <2>1. /\ open' = FALSE /\ ioMode' = "probing" /\ kernelMounted' = FALSE /\ call = NoCall /\ mapped = {}
        /\ UNCHANGED <<cs, granule, attached, staleDisk, mapped, call>>
    BY <1>4 DEF CloseEngine
  <2>2. cached' = {} /\ staleCache' = {}
    BY <1>4 DEF CloseEngine, ClosePurge, cache, CacheInv, Modes, Types
  <2>3. Types' /\ Closed' /\ Modes' /\ CachedOK' /\ CallOK'
    BY <2>1, <2>2 DEF CacheInv, Types, Closed, Modes, CachedOK, CallOK
  <2> QED
    BY <2>1, <2>2, <2>3 DEF CacheInv
<1>5. CASE Format
  <2>1. /\ cached = {} /\ call = NoCall /\ mapped = {} /\ ~open
    BY <1>5 DEF Format, CacheInv, Closed
  <2>2. /\ cs' \in ClusterSizes /\ staleDisk' = {} /\ staleCache' = {}
        /\ UNCHANGED <<open, granule, ioMode, kernelMounted, attached, cached, mapped, call>>
    BY <1>5, <2>1 DEF Format
  <2>3. Types' /\ Closed' /\ Modes' /\ CachedOK' /\ CallOK'
    BY <2>1, <2>2 DEF CacheInv, Types, Closed, Modes, CachedOK, CallOK
  <2> QED
    BY <2>2, <2>3 DEF CacheInv
<1> QED
  BY <1>1, <1>2, <1>3, <1>4, <1>5 DEF CacheInv, Types

-----------------------------------------------------------------------------
(* The engine's accesses.                                                   *)

\* An access goes on: the volume and what the kernel maps stay as they are.
LEMMA AccessGoesOn ==
    ASSUME CacheInv, open, UNCHANGED <<cs, open, granule, kernelMounted, attached, mapped>>,
           ioMode' \in {"probing", "metadata"}, ioMode' = "probing" => cached' = {},
           staleDisk' = {}, staleCache' = {},
           \A b \in cached' \ cached : (\E s \in Sectors : b = Blk(s)) /\ Clear(b),
           call' = NoCall \/
             /\ call' \in Call /\ call'.stale = {} /\ call'.todo # {} /\ call'.secs # {}
             /\ call'.todo \subseteq BlocksOf(call'.secs)
             /\ \A b \in BlocksOf(call'.secs) : Clear(b)
             /\ call'.got \cap InFlight = {}
    PROVE  CacheInv'
<1>1. InFlight' = InFlight /\ Clusters' = Clusters
  BY DEF InFlight, Cluster, Clusters
<1>2. \A x : Blk(x)' = Blk(x)
  BY DEF Blk
<1>3. \A b : Clear(b)' <=> Clear(b)
  BY <1>1 DEF Clear
<1>4. \A S : BlocksOf(S)' = BlocksOf(S)
  BY DEF BlocksOf
<1>5. Types' /\ Closed' /\ Modes'
  BY <1>1 DEF CacheInv, Types, Closed, Modes, PickCacheBlockSize
<1>6. CachedOK'
  BY <1>2, <1>3 DEF CacheInv, CachedOK
<1>7. CallOK'
  BY <1>1, <1>3, <1>4 DEF CallOK
<1> QED
  BY <1>5, <1>6, <1>7 DEF CacheInv

\* Sectors outside the mapped clusters have blocks outside them.
LEMMA BlocksClear ==
    ASSUME CacheInv, open, NEW S \in SUBSET Sectors, S \cap InFlight = {}
    PROVE  /\ \A b \in BlocksOf(S) : Clear(b)
           /\ BlocksOf(S) \in SUBSET (Int \X Int)
<1>1. Divides /\ Sectors \subseteq Nat
  BY OpenDivides, SMTT(40) DEF Sectors
<1>2. ASSUME NEW s \in S PROVE Clear(Blk(s)) /\ Blk(s) \in Int \X Int
  <2>1. s \in Nat /\ s \in Cover(Blk(s)) /\ \A y \in Cover(Blk(s)) : y \in Nat /\ Blk(y) = Blk(s)
    BY <1>1, Blocks
  <2>2. ASSUME NEW y \in Cover(Blk(s)), NEW c \in mapped, y \in Cluster(c) PROVE FALSE
    <3>1. c \in Nat
      BY SMTT(40) DEF CacheInv, Types, Clusters
    <3>2. s \in Cluster(c)
      BY <1>1, <2>1, <2>2, <3>1, Blocks
    <3> QED
      BY <3>2 DEF InFlight
  <2>3. Clear(Blk(s))
    BY <2>2, SMTT(40) DEF Clear, InFlight
  <2> QED
    BY <1>1, <2>1, <2>3, DivMod, SMTT(40) DEF Blk, Divides
<1>3. BlocksOf(S) = {Blk(s) : s \in S}
  BY DEF BlocksOf, Blk
<1> QED
  BY <1>2, <1>3

\* An access starts.
LEMMA AccessStarts ==
    ASSUME CacheInv, NEW S \in Ranges, DevicePread(S) \/ DevicePwrite(S)
    PROVE  CacheInv'
<1>1. S \in SUBSET Sectors /\ S # {}
  <2>1. PICK a \in Sectors, b \in Sectors : S = a .. b
    BY SMTT(40) DEF Ranges
  <2>2. a .. b \subseteq Sectors
    BY BufferCacheAssumption, SMTT(40) DEF Sectors, BufferCacheAssumption
  <2> QED
    BY <2>1, <2>2, SMTT(40) DEF Ranges
<1>2. /\ open /\ call = NoCall /\ S \cap InFlight = {}
      /\ UNCHANGED <<cs, open, granule, kernelMounted, ioMode, attached, cached, staleCache,
                     staleDisk, mapped>>
  BY DEF DevicePread, DevicePwrite, mount, cache
<1>3. (\A b \in BlocksOf(S) : Clear(b)) /\ BlocksOf(S) \in SUBSET (Int \X Int)
  BY <1>1, <1>2, BlocksClear
<1>4. BlocksOf(S) # {}
  BY <1>1 DEF BlocksOf
<1>5. PICK st \in {"load", "store"}, w \in BOOLEAN :
        call' = [st |-> st, write |-> w, secs |-> S, todo |-> BlocksOf(S), got |-> {}, stale |-> {}]
  <2>1. CASE DevicePread(S)
    BY <2>1 DEF DevicePread
  <2>2. CASE DevicePwrite(S)
    <3> DEFINE st == IF Covered(BlocksOf(S)) = S THEN "store" ELSE "load"
    <3>1. st \in {"load", "store"}
      OBVIOUS
    <3>2. call' = [st |-> st, write |-> TRUE, secs |-> S, todo |-> BlocksOf(S), got |-> {},
                   stale |-> {}]
      BY <2>2 DEF DevicePwrite
    <3> HIDE DEF st
    <3> QED
      BY <3>1, <3>2
  <2> QED
    BY <2>1, <2>2
<1>6. /\ call' \in Call /\ call'.stale = {} /\ call'.todo = BlocksOf(S) /\ call'.secs = S
      /\ call'.got = {}
  BY <1>1, <1>3, <1>5 DEF Call
<1>7. ioMode' \in {"probing", "metadata"} /\ (ioMode' = "probing" => cached' = {})
      /\ staleDisk' = {} /\ staleCache' = {}
  BY <1>2 DEF CacheInv, Types, Modes
<1> QED
  BY <1>1, <1>2, <1>3, <1>4, <1>6, <1>7, AccessGoesOn

\* A block is loaded, and nothing in it is old.
LEMMA LoadedOK ==
    ASSUME CacheInv, call # NoCall, call.st = "load"
    PROVE  LET c == Loaded(NextBlock, {})
           IN  c = NoCall \/
                 /\ c \in Call /\ c.stale = {} /\ c.todo # {} /\ c.secs # {}
                 /\ c.todo \subseteq BlocksOf(c.secs)
                 /\ \A b \in BlocksOf(c.secs) : Clear(b)
                 /\ c.got \cap InFlight = {}
<1> DEFINE b == NextBlock
           d == [call EXCEPT !.todo = @ \ {b}, !.got = @ \cup Cover(b), !.stale = @ \cup {}]
<1>1. b \in BlocksOf(call.secs) /\ Clear(b) /\ open
  BY NextBlockOK
<1>2. /\ call \in Call /\ call.stale = {} /\ call.todo \subseteq BlocksOf(call.secs)
      /\ \A x \in BlocksOf(call.secs) : Clear(x)
      /\ call.secs # {} /\ call.got \cap InFlight = {}
  BY DEF CacheInv, CallOK
<1>3. PICK s \in Sectors : b = Blk(s)
  BY NextBlockOK
<1>4. Cover(b) \subseteq Int
  BY <1>1, <1>3, OpenDivides, Blocks, SMTT(40) DEF Sectors
<1>5. BlocksOf(call.secs) \in SUBSET (Int \X Int)
  <2>1. \A x \in call.secs : Blk(x) \in Int \X Int
    BY <1>1, <1>2, OpenDivides, DivMod, SMTT(40) DEF Call, Sectors, Blk, Divides
  <2> QED
    BY <2>1 DEF BlocksOf, Blk
<1> HIDE DEF b
<1>6. /\ d \in Call /\ d.stale = {} /\ d.todo = call.todo \ {b} /\ d.secs = call.secs
      /\ d.got = call.got \cup Cover(b) /\ d.write \in BOOLEAN
  BY <1>2, <1>4 DEF Call
<1>7. d.got \cap InFlight = {}
  BY <1>1, <1>2, <1>6 DEF Clear
<1> DEFINE e == [d EXCEPT !.st = "store", !.todo = BlocksOf(d.secs)]
<1> HIDE DEF d
<1>8. /\ e \in Call /\ e.stale = {} /\ e.todo = BlocksOf(call.secs) /\ e.secs = call.secs
      /\ e.got = d.got
  BY <1>5, <1>6 DEF Call
<1>9. BlocksOf(call.secs) # {}
  BY <1>2 DEF BlocksOf
<1> HIDE DEF e
<1>10. Loaded(b, {}) = IF d.todo # {} THEN d ELSE IF d.write THEN e ELSE NoCall
  BY DEF Loaded, d, e
<1>11. CASE d.todo # {}
  BY <1>2, <1>6, <1>7, <1>10, <1>11 DEF b
<1>12. CASE d.todo = {} /\ d.write
  BY <1>2, <1>7, <1>8, <1>9, <1>10, <1>12 DEF b
<1>13. CASE d.todo = {} /\ ~d.write
  BY <1>10, <1>13 DEF b
<1> QED
  BY <1>11, <1>12, <1>13

\* readBlock, through the cache or not.
LEMMA ReadSteps ==
    ASSUME CacheInv, ReadBlock \/ ReadBlockPlain
    PROVE  CacheInv'
<1>1. call # NoCall /\ call.st = "load"
  BY SMTT(40) DEF ReadBlock, ReadBlockPlain, NoCall
<1>2. open /\ (\E s \in Sectors : NextBlock = Blk(s)) /\ Clear(NextBlock)
  BY <1>1, NextBlockOK
<1>3. staleDisk = {} /\ staleCache = {} /\ (ioMode = "probing" => cached = {})
  BY DEF CacheInv, Modes
<1>4. UNCHANGED <<cs, open, granule, kernelMounted, attached, mapped, staleDisk>>
  BY DEF ReadBlock, ReadBlockPlain, mount
<1>5. call' = Loaded(NextBlock, {}) /\ staleCache' = {}
  <2>1. CASE ReadBlock
    <3> DEFINE old == IF NextBlock \in cached
                      THEN {s \in Cover(NextBlock) : <<NextBlock, s>> \in staleCache}
                      ELSE staleDisk \cap Cover(NextBlock)
    <3>1. old = {}
      BY <1>3
    <3>2. call' = Loaded(NextBlock, old) /\ staleCache' = staleCache \cup ({NextBlock} \X old)
      BY <2>1 DEF ReadBlock
    <3> QED
      BY <1>3, <3>1, <3>2
  <2>2. CASE ReadBlockPlain
    <3>1. staleDisk \cap Cover(NextBlock) = {}
      BY <1>3
    <3> QED
      BY <1>3, <2>2, <3>1 DEF ReadBlockPlain, cache
  <2> QED
    BY <2>1, <2>2
<1>6. /\ ioMode' \in {"probing", "metadata"} /\ cached' \subseteq cached \cup {NextBlock}
      /\ ioMode' = "probing" => cached' = {}
  BY <1>3 DEF ReadBlock, ReadBlockPlain, ThroughCache, PlainFallback, cache
<1>7. call' = NoCall \/
        /\ call' \in Call /\ call'.stale = {} /\ call'.todo # {} /\ call'.secs # {}
        /\ call'.todo \subseteq BlocksOf(call'.secs)
        /\ \A b \in BlocksOf(call'.secs) : Clear(b)
        /\ call'.got \cap InFlight = {}
  BY <1>1, <1>5, LoadedOK
<1>8. \A b \in cached' \ cached : (\E s \in Sectors : b = Blk(s)) /\ Clear(b)
  BY <1>2, <1>6
<1> QED
  BY <1>2, <1>3, <1>4, <1>5, <1>6, <1>7, <1>8, AccessGoesOn

\* writeBlock, through the cache or not.
LEMMA WriteSteps ==
    ASSUME CacheInv, WriteBlock \/ WriteBlockPlain
    PROVE  CacheInv'
<1> DEFINE b == NextBlock
<1>1. call # NoCall /\ call.st = "store"
  BY SMTT(40) DEF WriteBlock, WriteBlockPlain, NoCall
<1>2. open /\ Divides /\ Clear(b) /\ b \in call.todo
  BY <1>1, NextBlockOK
<1>3. PICK s \in Sectors : b = Blk(s)
  BY <1>1, NextBlockOK
<1>4. staleDisk = {} /\ staleCache = {} /\ (ioMode = "probing" => cached = {})
  BY DEF CacheInv, Modes
<1>5. /\ call \in Call /\ call.stale = {} /\ call.todo \subseteq BlocksOf(call.secs)
      /\ \A x \in BlocksOf(call.secs) : Clear(x)
      /\ call.secs # {} /\ call.got \cap InFlight = {}
  BY <1>1 DEF CacheInv, CallOK
<1>6. Stored(b)
  BY DEF WriteBlock, WriteBlockPlain
<1>7. Old(b) = {} /\ New(b) \subseteq Cover(b)
  BY <1>5 DEF Old, New
<1>8. staleDisk' = {} /\ UNCHANGED <<cs, open, granule, kernelMounted, attached, mapped>>
  BY <1>4, <1>6, <1>7 DEF Stored, mount
\* Another block of the cache has no sector in common with this one.
<1>9. Outdated(cached \ {b}, New(b)) = {}
  <2>1. ASSUME NEW d \in cached \ {b}, NEW x \in New(b), x \in Cover(d) PROVE FALSE
    <3>1. PICK t \in Sectors : d = Blk(t)
      BY DEF CacheInv, CachedOK
    <3>2. Blk(x) = d
      BY <1>2, <2>1, <3>1, Blocks, SMTT(40) DEF Sectors
    <3>3. Blk(x) = b
      BY <1>2, <1>3, <1>7, Blocks, SMTT(40) DEF Sectors
    <3> QED
      BY <3>2, <3>3
  <2> QED
    BY <2>1 DEF Outdated
<1>10. /\ staleCache' = {} /\ cached' \subseteq cached \cup {b}
       /\ ioMode' \in {"probing", "metadata"} /\ (ioMode' = "probing" => cached' = {})
  <2>1. CASE WriteBlock
    <3>1. staleCache' = {p \in staleCache : p[1] # b} \cup ({b} \X Old(b))
                        \cup Outdated(cached \ {b}, New(b))
          /\ cached' = cached \cup {b} /\ ioMode' = "metadata"
      BY <2>1 DEF WriteBlock, ThroughCache
    <3> QED
      BY <1>4, <1>7, <1>9, <3>1
  <2>2. CASE WriteBlockPlain
    <3>1. cached = {} /\ cached' = {} /\ ioMode' = "probing"
          /\ staleCache' = staleCache \cup Outdated(cached, New(b))
      BY <1>4, <2>2 DEF WriteBlockPlain, PlainFallback
    <3>2. Outdated({}, New(b)) = {}
      BY DEF Outdated
    <3> QED
      BY <1>4, <3>1, <3>2
  <2> QED
    BY <2>1, <2>2
<1>11. call' = NoCall \/
         /\ call' \in Call /\ call'.stale = {} /\ call'.todo # {} /\ call'.secs # {}
         /\ call'.todo \subseteq BlocksOf(call'.secs)
         /\ \A x \in BlocksOf(call'.secs) : Clear(x)
         /\ call'.got \cap InFlight = {}
  <2>1. CASE call.todo = {b}
    BY <1>6, <2>1 DEF Stored
  <2>2. CASE call.todo # {b}
    <3>1. call' = [call EXCEPT !.todo = call.todo \ {b}]
      BY <1>6, <2>2 DEF Stored
    <3>2. /\ call' \in Call /\ call'.stale = call.stale /\ call'.todo = call.todo \ {b}
          /\ call'.secs = call.secs /\ call'.got = call.got
      BY <1>5, <3>1 DEF Call
    <3>3. call.todo \ {b} # {}
      BY <1>2, <2>2
    <3> QED
      BY <1>5, <3>2, <3>3
  <2> QED
    BY <2>1, <2>2
<1>12. \A x \in cached' \ cached : (\E t \in Sectors : x = Blk(t)) /\ Clear(x)
  BY <1>2, <1>3, <1>10
<1> QED
  BY <1>2, <1>8, <1>10, <1>11, <1>12, AccessGoesOn

\* An access fails.
LEMMA ErrorStep ==
    ASSUME CacheInv, BlockError
    PROVE  CacheInv'
<1>1. open
  BY DEF CacheInv, Closed, Types, BlockError
<1>2. call' = NoCall /\ UNCHANGED <<cs, open, granule, kernelMounted, ioMode, attached, cached,
                                    staleCache, staleDisk, mapped>>
  BY DEF BlockError, mount, cache
<1>3. /\ ioMode' \in {"probing", "metadata"} /\ (ioMode' = "probing" => cached' = {})
      /\ staleDisk' = {} /\ staleCache' = {} /\ cached' \ cached = {}
  BY <1>2 DEF CacheInv, Types, Modes
<1> QED
  BY <1>1, <1>2, <1>3, AccessGoesOn

-----------------------------------------------------------------------------
(* The kernel.                                                              *)

\* The purge of blockmapFile takes every block that shares a sector with the
\* cluster.
LEMMA MapStep ==
    ASSUME CacheInv, NEW c \in Clusters, BlockmapFile(c)
    PROVE  CacheInv'
<1>1. /\ kernelMounted /\ call = NoCall
      /\ UNCHANGED <<cs, open, granule, kernelMounted, ioMode, attached, staleDisk, call>>
  BY DEF BlockmapFile, mount
<1>2. open /\ Divides
  BY <1>1, OpenDivides DEF CacheInv, Closed, Types
<1>3. c \in Nat /\ Clusters' = Clusters /\ Cluster(c)' = Cluster(c)
  BY <1>1, SMTT(40) DEF Clusters, Cluster
<1>4. /\ cached' \subseteq cached /\ staleCache' = {} /\ mapped' \subseteq mapped \cup {c}
      /\ mapped' = mapped \/ \A b \in cached' : b \notin BlocksOf(Cluster(c))
  BY DEF BlockmapFile, MapPurge, cache, CacheInv
<1>5. ASSUME NEW b \in cached' PROVE (\E s \in Sectors : b = Blk(s)') /\ Clear(b)'
  <2>1. PICK s \in Sectors : b = Blk(s)
    BY <1>4, <1>5 DEF CacheInv, CachedOK
  <2>2. Clear(b)
    BY <1>4, <1>5 DEF CacheInv, CachedOK
  <2>3. ASSUME NEW y \in Cover(b), y \in Cluster(c), mapped' # mapped PROVE FALSE
    <3>1. Blk(y) = b
      BY <1>2, <2>1, Blocks, SMTT(40) DEF Sectors
    <3>2. b \in BlocksOf(Cluster(c))
      BY <2>3, <3>1 DEF BlocksOf, Blk
    <3> QED
      BY <1>4, <1>5, <2>3, <3>2
  <2>4. ASSUME NEW y \in Cover(b), NEW d \in mapped', y \in Cluster(d)' PROVE FALSE
    <3>1. y \in Cluster(d)
      BY <1>1, <2>4 DEF Cluster
    <3>2. d \notin mapped
      BY <2>2, <3>1 DEF Clear, InFlight
    <3> QED
      BY <1>4, <2>3, <2>4, <3>1, <3>2
  <2>5. Clear(b)'
    BY <2>4 DEF Clear, InFlight
  <2>6. b = Blk(s)'
    BY <1>1, <2>1 DEF Blk
  <2> QED
    BY <2>5, <2>6
<1>6. CachedOK'
  BY <1>5 DEF CachedOK
<1>7. Types' /\ Closed' /\ Modes' /\ CallOK'
  BY <1>1, <1>2, <1>3, <1>4 DEF CacheInv, Types, Closed, Modes, CallOK, PickCacheBlockSize
<1> QED
  BY <1>1, <1>4, <1>6, <1>7 DEF CacheInv

\* A direct write lands or completes, or the cache drops a block.
LEMMA KernelSteps ==
    ASSUME CacheInv,
           \/ \E c \in Clusters : CompleteIO(c)
           \/ \E s \in Sectors : Land(s)
           \/ \E b \in cached : EvictBlock(b)
    PROVE  CacheInv'
<1>1. staleDisk' = {} /\ staleCache' = {}
  <2>1. ASSUME NEW s \in Sectors, Land(s) PROVE staleCache' = {}
    <3>1. {d \in cached : s \in Cover(d)} = {}
      BY <2>1 DEF Land, CacheInv, CachedOK, Clear
    <3>2. staleCache' = staleCache \cup {<<b, s>> : b \in {d \in cached : s \in Cover(d)}}
      BY <2>1 DEF Land
    <3> QED
      BY <3>1, <3>2 DEF CacheInv
  <2> QED
    BY <2>1 DEF CompleteIO, Land, EvictBlock, cache, CacheInv
<1>2. call' = call
  <2>1. ASSUME NEW s \in Sectors, Land(s) PROVE call' = call
    <3>1. call # NoCall => s \notin call.got
      BY <2>1 DEF Land, CacheInv, CallOK
    <3> QED
      BY <2>1, <3>1 DEF Land
  <2> QED
    BY <2>1 DEF CompleteIO, EvictBlock
<1>3. /\ cached' \subseteq cached /\ mapped' \subseteq mapped
      /\ UNCHANGED <<cs, open, granule, kernelMounted, ioMode, attached>>
  BY DEF CompleteIO, Land, EvictBlock, mount, cache
<1>4. InFlight' \subseteq InFlight /\ Clusters' = Clusters
  BY <1>3 DEF InFlight, Cluster, Clusters
<1>5. \A b : Clear(b) => Clear(b)'
  BY <1>4 DEF Clear
<1>6. Types' /\ Closed' /\ Modes'
  BY <1>2, <1>3, <1>4 DEF CacheInv, Types, Closed, Modes, PickCacheBlockSize
<1>7. CachedOK'
  BY <1>3, <1>5 DEF CacheInv, CachedOK, Blk
<1>8. CallOK'
  BY <1>2, <1>3, <1>4, <1>5 DEF CacheInv, CallOK, BlocksOf
<1> QED
  BY <1>1, <1>6, <1>7, <1>8 DEF CacheInv

\* Every step keeps the invariant.
LEMMA InvNext == "purgefail" \notin Env /\ CacheInv /\ [Next]_vars => CacheInv'
<1> SUFFICES ASSUME "purgefail" \notin Env, CacheInv, [Next]_vars PROVE CacheInv'
  OBVIOUS
<1>1. ASSUME NEW S \in Ranges, DevicePread(S) \/ DevicePwrite(S) PROVE CacheInv'
  BY <1>1, AccessStarts
<1>2. ASSUME NEW c \in Clusters, BlockmapFile(c) PROVE CacheInv'
  BY <1>2, MapStep
<1>3. CASE UNCHANGED vars
  <2>1. InFlight' = InFlight /\ Clusters' = Clusters
    BY <1>3 DEF vars, InFlight, Cluster, Clusters
  <2>2. Types' /\ Closed' /\ Modes' /\ CachedOK' /\ CallOK'
    BY <1>3, <2>1, SMTT(40) DEF vars, CacheInv, Types, Closed, Modes, CachedOK, CallOK, Clear, Blk,
       BlocksOf, PickCacheBlockSize
  <2> QED
    BY <1>3, <2>2 DEF vars, CacheInv
<1> QED
  BY <1>1, <1>2, <1>3, OpenSteps, ReadSteps, WriteSteps, ErrorStep, KernelSteps DEF Next

\* It is an invariant.
LEMMA Invariant == "purgefail" \notin Env => (Spec => []CacheInv)
<1> SUFFICES ASSUME "purgefail" \notin Env PROVE Spec => []CacheInv
  OBVIOUS
<1>1. CacheInv /\ [Next]_vars => CacheInv'
  BY InvNext
<1> QED
  BY <1>1, InvInit, PTL DEF Spec

-----------------------------------------------------------------------------
\* For any device, cluster size and large granule: as long as closeEngine's
\* purge succeeds, no read-modify-write of the engine puts an old copy of a
\* sector over a direct write of the kernel.
THEOREM DirectWritesKept == "purgefail" \notin Env => (Spec => []DirectWritesSurvive)
<1> SUFFICES ASSUME "purgefail" \notin Env PROVE Spec => []DirectWritesSurvive
  OBVIOUS
<1>1. CacheInv => DirectWritesSurvive
  BY DEF CacheInv, DirectWritesSurvive
<1> QED
  BY <1>1, Invariant, PTL

\* And what the buffer cache holds is current.
THEOREM CacheIsCurrent == "purgefail" \notin Env => (Spec => []CacheCurrent)
<1> SUFFICES ASSUME "purgefail" \notin Env PROVE Spec => []CacheCurrent
  OBVIOUS
<1>1. CacheInv => CacheCurrent
  BY DEF CacheInv, CacheCurrent
<1> QED
  BY <1>1, Invariant, PTL

\* Every cached block has the granule picked for the volume that is open, after
\* any sequence of formats and remounts.
THEOREM GranuleIsOne == "purgefail" \notin Env => (Spec => []OneGranule)
<1> SUFFICES ASSUME "purgefail" \notin Env PROVE Spec => []OneGranule
  OBVIOUS
<1>1. CacheInv => OneGranule
  BY SMTT(40) DEF CacheInv, CachedOK, OneGranule, Blk
<1> QED
  BY <1>1, Invariant, PTL

\* The engine bypasses the cache only while no cluster is mapped.
THEOREM PlainOnlyBeforeMount == "purgefail" \notin Env => (Spec => PlainBeforeMount)
<1> SUFFICES ASSUME "purgefail" \notin Env PROVE Spec => PlainBeforeMount
  OBVIOUS
<1>1. CacheInv => [ReadBlockPlain \/ WriteBlockPlain => mapped = {}]_vars
  BY DEF CacheInv, Modes, ReadBlockPlain, WriteBlockPlain, PlainFallback
<1> QED
  BY <1>1, Invariant, PTL DEF PlainBeforeMount

-----------------------------------------------------------------------------
(* Types, whether or not the purge of closeEngine succeeds.                 *)

\* A running access has blocks of its own sectors left to do.
CallShape == call # NoCall => /\ call \in Call /\ call.todo # {} /\ call.secs # {}
                              /\ call.todo \subseteq BlocksOf(call.secs)

\* The cache may hold blocks of an earlier granule, but only the device's
\* sectors, and only sectors of cached blocks are known to be old.
CacheShape == /\ \A b \in cached : Cover(b) \subseteq Sectors
              /\ \A p \in staleCache : p[1] \in cached /\ p[2] \in Cover(p[1])
              /\ staleDisk \subseteq Sectors

\* The invariant of the types.
TypeInv == /\ Types /\ CacheShape /\ CallShape
           /\ ~open => call = NoCall /\ mapped = {} /\ ~kernelMounted
           /\ open => granule = PickCacheBlockSize(cs)

\* The next block of an access covers sectors of the device.
LEMMA NextBlockTyped ==
    ASSUME TypeInv, call # NoCall
    PROVE  /\ NextBlock \in call.todo /\ Cover(NextBlock) \subseteq Sectors
           /\ BlocksOf(call.secs) \in SUBSET (Int \X Int) /\ open
<1>1. open /\ Divides
  BY PickDivides DEF TypeInv, Types
<1>2. call.todo # {} /\ call.todo \subseteq BlocksOf(call.secs) /\ call.secs \subseteq Sectors
  BY DEF TypeInv, CallShape, Call
<1>3. \A b \in BlocksOf(call.secs) : \E s \in Sectors : b = Blk(s)
  BY <1>2 DEF BlocksOf, Blk
<1>4. \A s \in Sectors : Blk(s) \in Nat \X Int /\ Cover(Blk(s)) \subseteq Sectors
  <2> TAKE s \in Sectors
  <2>1. s \in Nat  BY SMTT(40) DEF Sectors
  <2>2. Cover(Blk(s)) \subseteq Sectors  BY <1>1, <2>1, Blocks
  <2> QED  BY <1>1, <2>1, <2>2, DivMod, SMTT(40) DEF Blk, Divides
<1>5. \A b \in BlocksOf(call.secs) : b \in Nat \X Int /\ Cover(b) \subseteq Sectors
  BY <1>3, <1>4
<1>6. PICK n \in {b[1] : b \in call.todo} : \A k \in {b[1] : b \in call.todo} : n <= k
  <2>1. {b[1] : b \in call.todo} \subseteq Nat /\ {b[1] : b \in call.todo} # {}
    BY <1>2, <1>5
  <2> QED
    BY <2>1, Least
<1>7. \E b \in call.todo : \A d \in call.todo : b[1] <= d[1]
  BY <1>6
<1>8. NextBlock \in call.todo
  BY <1>7 DEF NextBlock
<1> QED
  BY <1>1, <1>2, <1>5, <1>8, SMTT(40)

\* A step within an open volume: only the access, the cache and the disk change.
LEMMA TypeStep ==
    ASSUME TypeInv, open, UNCHANGED <<cs, open, granule, kernelMounted, attached>>,
           ioMode' \in {"probing", "metadata"}, mapped' \subseteq Clusters,
           CacheShape',
           call' = NoCall \/ /\ call' \in Call /\ call'.todo # {} /\ call'.secs # {}
                             /\ call'.todo \subseteq BlocksOf(call'.secs)
    PROVE  TypeInv'
<1>1. Clusters' = Clusters /\ PickCacheBlockSize(cs)' = PickCacheBlockSize(cs)
  BY DEF Clusters, PickCacheBlockSize
<1>2. \A S : BlocksOf(S)' = BlocksOf(S)
  BY DEF BlocksOf
<1>3. CallShape'
  BY <1>2 DEF CallShape
<1>4. Types'
  BY <1>1 DEF TypeInv, Types
<1> QED
  BY <1>1, <1>3, <1>4 DEF TypeInv

\* Opening and closing, whatever becomes of the purge.
LEMMA TypeOpenSteps ==
    ASSUME TypeInv, OpenEngine \/ Mount \/ Attach \/ Detach \/ CloseEngine \/ Format
    PROVE  TypeInv'
<1>1. CASE OpenEngine \/ Mount \/ Attach \/ Detach
  <2>1. /\ open' \in BOOLEAN /\ kernelMounted' \in BOOLEAN /\ attached' \in BOOLEAN
        /\ UNCHANGED <<cs, ioMode, cached, staleCache, staleDisk, mapped, call>>
    BY <1>1 DEF OpenEngine, Mount, Attach, Detach, mount, cache, TypeInv, Types
  <2>2. /\ open => open' /\ granule' = granule
        /\ ~open /\ open' => granule' = PickCacheBlockSize(cs)
        /\ ~open' => granule' = granule /\ kernelMounted' = kernelMounted
    BY <1>1, SMTT(40) DEF OpenEngine, Mount, Attach, Detach, mount
  <2>3. Clusters' = Clusters /\ PickCacheBlockSize(cs)' = PickCacheBlockSize(cs)
    BY <2>1 DEF Clusters, PickCacheBlockSize
  <2>4. granule' \in {1, Big}
    BY <2>1, <2>2 DEF TypeInv, Types, PickCacheBlockSize
  <2>5. Types' /\ CacheShape'
    BY <2>1, <2>3, <2>4 DEF TypeInv, Types, CacheShape, Cover
  <2>6. CallShape'
    <3>1. CASE open
      BY <2>1, <2>2, <3>1 DEF TypeInv, CallShape, BlocksOf
    <3>2. CASE ~open
      BY <2>1, <3>2 DEF TypeInv, CallShape
    <3> QED
      BY <3>1, <3>2
  <2>7. (~open => call = NoCall /\ mapped = {} /\ ~kernelMounted)'
    BY <2>1, <2>2 DEF TypeInv
  <2>8. (open => granule = PickCacheBlockSize(cs))'
    BY <2>1, <2>2, <2>3 DEF TypeInv, Types
  <2> QED
    BY <2>5, <2>6, <2>7, <2>8 DEF TypeInv
<1>2. CASE CloseEngine
  <2>1. /\ open' = FALSE /\ ioMode' = "probing" /\ kernelMounted' = FALSE /\ call = NoCall /\ mapped = {}
        /\ UNCHANGED <<cs, granule, attached, staleDisk, mapped, call>>
    BY <1>2 DEF CloseEngine
  <2>2. \/ cached' = {} /\ staleCache' = {}
        \/ UNCHANGED <<cached, staleCache>>
    BY <1>2 DEF CloseEngine, ClosePurge, cache
  <2>3. Types' /\ CallShape' /\ CacheShape'
    BY <2>1, <2>2 DEF TypeInv, Types, CallShape, CacheShape, Cover
  <2> QED
    BY <2>1, <2>3 DEF TypeInv
<1>3. CASE Format
  <2>1. /\ cs' \in ClusterSizes /\ staleDisk' = {} /\ ~open
        /\ UNCHANGED <<open, granule, ioMode, kernelMounted, attached, cached, mapped, call>>
    BY <1>3 DEF Format
  <2>2. staleCache' = UNION {{b} \X Cover(b) : b \in cached}
    BY <1>3 DEF Format
  <2>3. \A p \in staleCache' : p[1] \in cached /\ p[2] \in Cover(p[1])
    BY <2>2, SMTT(40)
  <2>4. CacheShape'
    BY <2>1, <2>3 DEF TypeInv, CacheShape, Cover
  <2>5. Types' /\ CallShape'
    BY <2>1 DEF TypeInv, Types, CallShape
  <2> QED
    BY <2>1, <2>4, <2>5 DEF TypeInv
<1> QED
  BY <1>1, <1>2, <1>3

\* An access starts.
LEMMA TypeAccessStarts ==
    ASSUME TypeInv, NEW S \in Ranges, DevicePread(S) \/ DevicePwrite(S)
    PROVE  TypeInv'
<1>1. S \in SUBSET Sectors /\ S # {}
  <2>1. PICK a \in Sectors, b \in Sectors : S = a .. b
    BY SMTT(40) DEF Ranges
  <2>2. a .. b \subseteq Sectors
    BY BufferCacheAssumption, SMTT(40) DEF Sectors, BufferCacheAssumption
  <2> QED
    BY <2>1, <2>2, SMTT(40) DEF Ranges
<1>2. /\ open /\ UNCHANGED <<cs, open, granule, kernelMounted, ioMode, attached, cached, staleCache,
                             staleDisk, mapped>>
  BY DEF DevicePread, DevicePwrite, mount, cache
<1>3. Divides
  BY <1>2, PickDivides DEF TypeInv, Types
<1>4. BlocksOf(S) \in SUBSET (Int \X Int) /\ BlocksOf(S) # {}
  <2>1. \A s \in S : s \in Nat /\ Blk(s) \in Int \X Int
    BY <1>1, <1>3, DivMod, SMTT(40) DEF Sectors, Blk, Divides
  <2> QED
    BY <1>1, <2>1 DEF BlocksOf, Blk
<1>5. PICK st \in {"load", "store"}, w \in BOOLEAN :
        call' = [st |-> st, write |-> w, secs |-> S, todo |-> BlocksOf(S), got |-> {}, stale |-> {}]
  <2>1. CASE DevicePread(S)
    BY <2>1 DEF DevicePread
  <2>2. CASE DevicePwrite(S)
    <3> DEFINE st == IF Covered(BlocksOf(S)) = S THEN "store" ELSE "load"
    <3>1. st \in {"load", "store"}
      OBVIOUS
    <3>2. call' = [st |-> st, write |-> TRUE, secs |-> S, todo |-> BlocksOf(S), got |-> {},
                   stale |-> {}]
      BY <2>2 DEF DevicePwrite
    <3> HIDE DEF st
    <3> QED
      BY <3>1, <3>2
  <2> QED
    BY <2>1, <2>2
<1>6. call' \in Call /\ call'.todo = BlocksOf(S) /\ call'.secs = S
  BY <1>1, <1>4, <1>5 DEF Call
<1>7. CacheShape' /\ ioMode' \in {"probing", "metadata"} /\ mapped' \subseteq Clusters
  BY <1>2 DEF TypeInv, Types, CacheShape, Cover
<1> QED
  BY <1>1, <1>2, <1>4, <1>6, <1>7, TypeStep

\* A block is loaded.
LEMMA LoadedTyped ==
    ASSUME TypeInv, call # NoCall, NEW old \in SUBSET Cover(NextBlock)
    PROVE  LET c == Loaded(NextBlock, old)
           IN  c = NoCall \/ /\ c \in Call /\ c.todo # {} /\ c.secs # {}
                             /\ c.todo \subseteq BlocksOf(c.secs)
<1> DEFINE b == NextBlock
           d == [call EXCEPT !.todo = @ \ {b}, !.got = @ \cup Cover(b), !.stale = @ \cup old]
<1>1. /\ Cover(b) \subseteq Int /\ old \subseteq Int /\ BlocksOf(call.secs) \in SUBSET (Int \X Int)
  BY NextBlockTyped, SMTT(40) DEF Sectors
<1>2. /\ call \in Call /\ call.todo \subseteq BlocksOf(call.secs) /\ call.secs # {}
  BY DEF TypeInv, CallShape
<1> HIDE DEF b
<1>3. /\ d \in Call /\ d.todo = call.todo \ {b} /\ d.secs = call.secs
  BY <1>1, <1>2 DEF Call
<1> DEFINE e == [d EXCEPT !.st = "store", !.todo = BlocksOf(d.secs)]
<1> HIDE DEF d
<1>4. e \in Call /\ e.todo = BlocksOf(call.secs) /\ e.secs = call.secs
  BY <1>1, <1>3 DEF Call
<1>5. BlocksOf(call.secs) # {}
  BY <1>2 DEF BlocksOf
<1> HIDE DEF e
<1>6. Loaded(b, old) = IF d.todo # {} THEN d ELSE IF d.write THEN e ELSE NoCall
  BY DEF Loaded, d, e
<1>7. CASE d.todo # {}
  BY <1>2, <1>3, <1>6, <1>7 DEF b
<1>8. CASE d.todo = {} /\ d.write
  BY <1>2, <1>4, <1>5, <1>6, <1>8 DEF b
<1>9. CASE d.todo = {} /\ ~d.write
  BY <1>6, <1>9 DEF b
<1> QED
  BY <1>7, <1>8, <1>9

\* readBlock and readBlock's fallback.
LEMMA TypeReadSteps ==
    ASSUME TypeInv, ReadBlock \/ ReadBlockPlain
    PROVE  TypeInv'
<1> DEFINE b == NextBlock
<1>1. call # NoCall
  BY SMTT(40) DEF ReadBlock, ReadBlockPlain, NoCall
<1>2. open /\ Cover(b) \subseteq Sectors
  BY <1>1, NextBlockTyped
<1>3. /\ UNCHANGED <<cs, open, granule, kernelMounted, attached, mapped, staleDisk>>
      /\ ioMode' \in {"probing", "metadata"} /\ mapped' \subseteq Clusters
  BY DEF ReadBlock, ReadBlockPlain, mount, ThroughCache, PlainFallback, TypeInv, Types
<1>4. PICK old \in SUBSET Cover(b) :
        /\ call' = Loaded(b, old)
        /\ \/ cached' = cached \cup {b} /\ staleCache' = staleCache \cup ({b} \X old)
           \/ UNCHANGED <<cached, staleCache>>
  <2>1. CASE ReadBlock
    <3> DEFINE o == IF b \in cached THEN {s \in Cover(b) : <<b, s>> \in staleCache}
                    ELSE staleDisk \cap Cover(b)
    <3>1. o \in SUBSET Cover(b)
      OBVIOUS
    <3>2. call' = Loaded(b, o) /\ cached' = cached \cup {b} /\ staleCache' = staleCache \cup ({b} \X o)
      BY <2>1 DEF ReadBlock
    <3> HIDE DEF o, b
    <3> QED
      BY <3>1, <3>2
  <2>2. CASE ReadBlockPlain
    BY <2>2 DEF ReadBlockPlain, cache
  <2> QED
    BY <2>1, <2>2
<1>5. call' = NoCall \/ /\ call' \in Call /\ call'.todo # {} /\ call'.secs # {}
                        /\ call'.todo \subseteq BlocksOf(call'.secs)
  BY <1>1, <1>4, LoadedTyped
<1> HIDE DEF b
<1>6. CacheShape'
  BY <1>2, <1>3, <1>4 DEF TypeInv, CacheShape, Cover
<1> QED
  BY <1>2, <1>3, <1>5, <1>6, TypeStep

\* writeBlock and its fallback.
LEMMA TypeWriteSteps ==
    ASSUME TypeInv, WriteBlock \/ WriteBlockPlain
    PROVE  TypeInv'
<1> DEFINE b == NextBlock
<1>1. call # NoCall
  BY SMTT(40) DEF WriteBlock, WriteBlockPlain, NoCall
<1>2. open /\ Cover(b) \subseteq Sectors /\ b \in call.todo
  BY <1>1, NextBlockTyped
<1>3. Stored(b) /\ ioMode' \in {"probing", "metadata"}
  BY DEF WriteBlock, WriteBlockPlain, ThroughCache, PlainFallback
<1>4. /\ UNCHANGED <<cs, open, granule, kernelMounted, attached, mapped>>
      /\ mapped' \subseteq Clusters /\ staleDisk' = (staleDisk \ Cover(b)) \cup Old(b)
  BY <1>3 DEF Stored, mount, TypeInv, Types
<1>5. Old(b) \subseteq Cover(b)
  BY DEF Old
<1>6. \/ /\ cached' = cached \cup {b}
         /\ staleCache' = {p \in staleCache : p[1] # b} \cup ({b} \X Old(b))
                          \cup Outdated(cached \ {b}, New(b))
      \/ cached' = cached /\ staleCache' = staleCache \cup Outdated(cached, New(b))
  BY DEF WriteBlock, WriteBlockPlain
<1>7. call' = NoCall \/ /\ call' \in Call /\ call'.todo # {} /\ call'.secs # {}
                        /\ call'.todo \subseteq BlocksOf(call'.secs)
  <2>1. CASE call.todo = {b}
    BY <1>3, <2>1 DEF Stored
  <2>2. CASE call.todo # {b}
    <3>1. call' = [call EXCEPT !.todo = call.todo \ {b}]
      BY <1>3, <2>2 DEF Stored
    <3>2. call \in Call /\ call.secs # {} /\ call.todo \subseteq BlocksOf(call.secs)
      BY <1>1 DEF TypeInv, CallShape
    <3>3. call' \in Call /\ call'.todo = call.todo \ {b} /\ call'.secs = call.secs
      BY <3>1, <3>2 DEF Call
    <3>4. call.todo \ {b} # {}
      BY <1>2, <2>2
    <3> QED
      BY <3>2, <3>3, <3>4
  <2> QED
    BY <2>1, <2>2
<1> HIDE DEF b
<1>8. \A bs, S : \A p \in Outdated(bs, S) : p[1] \in bs /\ p[2] \in Cover(p[1])
  BY DEF Outdated
<1>9. \A p \in {b} \X Old(b) : p[1] = b /\ p[2] \in Cover(b)
  BY <1>5
<1>10. \A p \in staleCache' : p[1] \in cached' /\ p[2] \in Cover(p[1])
  BY <1>6, <1>8, <1>9, SMTT(40) DEF TypeInv, CacheShape
<1>11. \A d \in cached' : Cover(d) \subseteq Sectors
  BY <1>2, <1>6 DEF TypeInv, CacheShape
<1>12. staleDisk' \subseteq Sectors
  BY <1>2, <1>4, <1>5 DEF TypeInv, CacheShape
<1>13. CacheShape'
  BY <1>10, <1>11, <1>12 DEF CacheShape, Cover, Sectors
<1> QED
  BY <1>2, <1>3, <1>4, <1>7, <1>13, TypeStep

\* The kernel, and an access that fails.
LEMMA TypeKernelSteps ==
    ASSUME TypeInv,
           \/ BlockError
           \/ \E c \in Clusters : BlockmapFile(c) \/ CompleteIO(c)
           \/ \E s \in Sectors : Land(s)
           \/ \E b \in cached : EvictBlock(b)
    PROVE  TypeInv'
<1>1. ASSUME BlockError PROVE TypeInv'
  <2>1. open
    BY <1>1 DEF BlockError, TypeInv, Types
  <2>2. /\ UNCHANGED <<cs, open, granule, kernelMounted, ioMode, attached, mapped, cached,
                       staleCache, staleDisk>> /\ call' = NoCall
    BY <1>1 DEF BlockError, mount, cache
  <2>3. CacheShape' /\ ioMode' \in {"probing", "metadata"} /\ mapped' \subseteq Clusters
    BY <2>2 DEF TypeInv, Types, CacheShape, Cover
  <2> QED
    BY <2>1, <2>2, <2>3, TypeStep
<1>2. ASSUME NEW c \in Clusters, BlockmapFile(c) PROVE TypeInv'
  <2>1. /\ open /\ call' = NoCall /\ mapped' \subseteq Clusters
        /\ UNCHANGED <<cs, open, granule, kernelMounted, ioMode, attached, staleDisk>>
        /\ ioMode' \in {"probing", "metadata"}
    BY <1>2 DEF BlockmapFile, mount, TypeInv, Types
  <2>2. \/ UNCHANGED <<cached, staleCache>>
        \/ \E gone : cached' = cached \ gone /\ staleCache' = {p \in staleCache : p[1] \notin gone}
    BY <1>2 DEF BlockmapFile, MapPurge, cache
  <2>3. CacheShape'
    BY <2>1, <2>2 DEF TypeInv, CacheShape, Cover
  <2> QED
    BY <2>1, <2>3, TypeStep
<1>3. ASSUME NEW c \in Clusters, CompleteIO(c) PROVE TypeInv'
  <2>1. /\ open /\ call' = NoCall /\ mapped' \subseteq Clusters
        /\ UNCHANGED <<cs, open, granule, kernelMounted, ioMode, attached, cached, staleCache, staleDisk>>
        /\ ioMode' \in {"probing", "metadata"}
    BY <1>3 DEF CompleteIO, mount, cache, TypeInv, Types
  <2>2. CacheShape'
    BY <2>1 DEF TypeInv, CacheShape, Cover
  <2> QED
    BY <2>1, <2>2, TypeStep
<1>4. ASSUME NEW s \in Sectors, Land(s) PROVE TypeInv'
  <2>1. /\ open /\ mapped' \subseteq Clusters
        /\ UNCHANGED <<cs, open, granule, kernelMounted, ioMode, attached, cached>>
        /\ ioMode' \in {"probing", "metadata"}
    BY <1>4 DEF Land, InFlight, mount, TypeInv, Types
  <2>2. CacheShape'
    <3>1. staleDisk' \subseteq Sectors
      BY <1>4 DEF Land, TypeInv, CacheShape
    <3>2. staleCache' = staleCache \cup {<<b, s>> : b \in {d \in cached : s \in Cover(d)}}
      BY <1>4 DEF Land
    <3>3. \A p \in staleCache' : p[1] \in cached /\ p[2] \in Cover(p[1])
      BY <3>2, SMTT(40) DEF TypeInv, CacheShape
    <3> QED
      BY <2>1, <3>1, <3>3 DEF TypeInv, CacheShape, Cover, Sectors
  <2>3. call' = call \/ /\ call # NoCall /\ s \in call.got
                        /\ call' = [call EXCEPT !.stale = @ \cup {s}]
    BY <1>4 DEF Land
  <2>4. call # NoCall => /\ call \in Call /\ call.todo # {} /\ call.secs # {}
                         /\ call.todo \subseteq BlocksOf(call.secs)
    BY DEF TypeInv, CallShape
  <2>5. CASE call' = call
    BY <2>1, <2>2, <2>4, <2>5, TypeStep
  <2>6. CASE call # NoCall /\ call' = [call EXCEPT !.stale = @ \cup {s}]
    <3>1. call' \in Call /\ call'.todo = call.todo /\ call'.secs = call.secs
      BY <2>4, <2>6, SMTT(40) DEF Call, Sectors
    <3> QED
      BY <2>1, <2>2, <2>4, <2>6, <3>1, TypeStep
  <2> QED
    BY <2>3, <2>5, <2>6
<1>5. ASSUME NEW b \in cached, EvictBlock(b) PROVE TypeInv'
  <2>1. /\ cached' = cached \ {b} /\ staleCache' = {p \in staleCache : p[1] # b}
        /\ UNCHANGED <<cs, open, granule, kernelMounted, ioMode, attached, staleDisk, mapped, call>>
    BY <1>5 DEF EvictBlock, mount
  <2>2. CacheShape'
    BY <2>1 DEF TypeInv, CacheShape, Cover
  <2>3. Types' /\ CallShape' /\ PickCacheBlockSize(cs)' = PickCacheBlockSize(cs)
    BY <2>1 DEF TypeInv, Types, Clusters, CallShape, BlocksOf, PickCacheBlockSize
  <2> QED
    BY <2>1, <2>2, <2>3 DEF TypeInv
<1> QED
  BY <1>1, <1>2, <1>3, <1>4, <1>5

\* Every step keeps the types.
LEMMA TypeNext == TypeInv /\ [Next]_vars => TypeInv'
<1> SUFFICES ASSUME TypeInv, [Next]_vars PROVE TypeInv'
  OBVIOUS
<1>1. ASSUME NEW S \in Ranges, DevicePread(S) \/ DevicePwrite(S) PROVE TypeInv'
  BY <1>1, TypeAccessStarts
<1>2. CASE UNCHANGED vars
  <2>1. Types' /\ CacheShape'
    BY <1>2 DEF vars, TypeInv, Types, CacheShape, Cover, Clusters
  <2>2. CallShape' /\ PickCacheBlockSize(cs)' = PickCacheBlockSize(cs)
    BY <1>2 DEF vars, TypeInv, CallShape, BlocksOf, PickCacheBlockSize
  <2> QED
    BY <1>2, <2>1, <2>2 DEF vars, TypeInv
<1> QED
  BY <1>1, <1>2, TypeOpenSteps, TypeReadSteps, TypeWriteSteps, TypeKernelSteps DEF Next

\* The types of the model, also when closeEngine's purge fails and the cache
\* keeps blocks of another granule: what is cached is of the device, and a
\* sector is known to be old only in a block that is cached.
THEOREM CacheTypes == Spec => []TypeOK
<1>1. Init => TypeInv
  <2> SUFFICES ASSUME Init PROVE TypeInv
    OBVIOUS
  <2> QED
    BY DEF Init, TypeInv, Types, CacheShape, CallShape
<1>2. TypeInv => TypeOK
  BY DEF TypeInv, Types, CacheShape, TypeOK
<1> QED
  BY <1>1, <1>2, TypeNext, PTL DEF Spec
=============================================================================

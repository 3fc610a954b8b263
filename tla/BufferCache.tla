----------------------------- MODULE BufferCache -----------------------------
(***************************************************************************)
(* Device I/O of NTFSVolume.  The engine reads and writes whole blocks of   *)
(* one granule, through plain resource I/O before the kernel mount and      *)
(* through the kernel's buffer cache from the first access the cache        *)
(* accepts.  The kernel writes mapped clusters directly, past the cache,    *)
(* at the same time as the engine loads and stores blocks.                  *)
(*                                                                         *)
(* What a sector holds is abstracted to whether a copy of it is older than  *)
(* the last write anybody made to it: on disk (staleDisk), in a cached      *)
(* block (staleCache) or in the scratch buffer of the running devicePread   *)
(* or devicePwrite (call.stale).                                            *)
(***************************************************************************)
EXTENDS Integers, FiniteSets

CONSTANTS
    NumSectors,    \* device size in device blocks
    Big,           \* 4096 in device blocks
    ClusterSizes,  \* cluster sizes a format may give the volume, in device blocks
    Env            \* what may happen, see EnvFlags

\* ioerr         a cache access fails
\* mappurgefail  the purge of blockmapFile fails
\* purgefail     the purge of closeEngine fails
EnvFlags == {"ioerr", "mappurgefail", "purgefail"}

ASSUME BufferCacheAssumption ==
    /\ NumSectors \in Nat \ {0} /\ Big \in Nat \ {0}
    /\ ClusterSizes \subseteq 1 .. NumSectors /\ Env \subseteq EnvFlags

VARIABLES
    cs,            \* cluster size on the medium
    open,          \* the engine has the device open (vol # nil)
    granule,       \* cacheBlockSize
    ioMode, kernelMounted,
    attached,      \* the kernel's buffer cache accepts I/O
    cached,        \* blocks <<start, length>> in the kernel's buffer cache
    staleCache,    \* <<block, sector>>: the cached copy is old
    staleDisk,     \* sectors the disk holds an old copy of
    mapped,        \* clusters handed to the kernel for direct writes
    call           \* the running devicePread or devicePwrite

vars == <<cs, open, granule, ioMode, kernelMounted, attached, cached, staleCache,
          staleDisk, mapped, call>>
mount == <<cs, open, granule, kernelMounted>>
cache == <<cached, staleCache>>

Sectors == 0 .. NumSectors - 1
Clusters == 0 .. (NumSectors \div cs) - 1
Cluster(c) == c * cs .. (c + 1) * cs - 1
InFlight == UNION {Cluster(c) : c \in mapped}
Cover(b) == b[1] .. b[1] + b[2] - 1
\* Mutant: the start of the range is rounded up.
BlocksRoundedUp(S) == {<<((s + granule - 1) \div granule) * granule, granule>> : s \in S}
BlocksOf(S) == {<<(s \div granule) * granule, granule>> : s \in S}
Covered(bs) == UNION {Cover(b) : b \in bs}
NextBlock == CHOOSE b \in call.todo : \A d \in call.todo : b[1] <= d[1]
Ranges == {a .. b : a, b \in Sectors} \ {{}}
NoCall == [st |-> "idle"]

\* Mutant: 4 KiB blocks whatever the cluster size.
PickBig(c) == Big

\* 4 KiB only when clusters and the device are multiples of it.
PickCacheBlockSize(c) == IF NumSectors % Big = 0 /\ c % Big = 0 THEN Big ELSE 1

Init == /\ cs \in ClusterSizes
        /\ open = FALSE /\ granule = 1 /\ ioMode = "probing" /\ kernelMounted = FALSE
        /\ attached = FALSE /\ cached = {} /\ staleCache = {} /\ staleDisk = {}
        /\ mapped = {} /\ call = NoCall

-----------------------------------------------------------------------------
OpenEngine ==
    /\ ~open
    /\ open' = TRUE /\ granule' = PickCacheBlockSize(cs)
    /\ UNCHANGED <<cs, ioMode, kernelMounted, attached, cache, staleDisk, mapped, call>>

\* mount(): the engine is open already, or is opened now.
Mount ==
    /\ call = NoCall /\ ~kernelMounted
    /\ open' = TRUE
    /\ granule' = IF open THEN granule ELSE PickCacheBlockSize(cs)
    /\ kernelMounted' = TRUE
    /\ UNCHANGED <<cs, ioMode, attached, cache, staleDisk, mapped, call>>

\* The kernel attaches its buffer cache some time during the mount, and
\* detaches it when the mount is gone.
Attach ==
    /\ open /\ ~attached
    /\ attached' = TRUE
    /\ UNCHANGED <<mount, ioMode, cache, staleDisk, mapped, call>>

Detach ==
    /\ attached /\ ~open
    /\ attached' = FALSE
    /\ UNCHANGED <<mount, ioMode, cache, staleDisk, mapped, call>>

\* Mutant: the cache is left as it is.
ClosePurgeSkipped == UNCHANGED cache

\* metadataPurge of the whole device, in buffer-cache mode only; a failure is
\* logged and nothing more.
ClosePurge ==
    \/ /\ ioMode = "metadata"
       /\ cached' = {} /\ staleCache' = {}
    \/ /\ ioMode = "metadata" => "purgefail" \in Env
       /\ UNCHANGED cache

\* closeEngine, from unmount and deactivate; the kernel has no I/O left.
CloseEngine ==
    /\ open /\ call = NoCall /\ mapped = {}
    /\ ClosePurge
    /\ open' = FALSE /\ ioMode' = "probing" /\ kernelMounted' = FALSE
    /\ UNCHANGED <<cs, granule, attached, staleDisk, mapped, call>>

\* A format or repair through plain I/O; the new volume may have other clusters.
Format ==
    /\ ~open
    /\ cs' \in ClusterSizes
    /\ staleDisk' = {}
    /\ staleCache' = UNION {{b} \X Cover(b) : b \in cached}
    /\ UNCHANGED <<open, granule, ioMode, kernelMounted, attached, cached, mapped, call>>

-----------------------------------------------------------------------------
(* One block of readAligned or writeAligned, in the three ways readBlock    *)
(* and writeBlock can end.                                                  *)

ThroughCache == attached /\ ioMode' = "metadata"

\* Mutant: plain I/O after a cache error at any time.
PlainAlways == /\ ioMode = "probing" /\ (attached => "ioerr" \in Env)
               /\ UNCHANGED ioMode

\* Plain I/O only as long as the kernel mount does not exist.
PlainFallback == /\ ioMode = "probing" /\ ~kernelMounted /\ (attached => "ioerr" \in Env)
                 /\ UNCHANGED ioMode

\* The access fails, and devicePread or devicePwrite with it.
BlockError == /\ call # NoCall
              /\ IF attached THEN "ioerr" \in Env ELSE ioMode = "probing" => kernelMounted
              /\ call' = NoCall
              /\ UNCHANGED <<mount, ioMode, attached, mapped, cache, staleDisk>>

\* devicePread and devicePwrite on the sectors S.  The engine has no business
\* in clusters the kernel is writing.
DevicePread(S) ==
    /\ open /\ call = NoCall /\ S \cap InFlight = {}
    /\ call' = [st |-> "load", write |-> FALSE, secs |-> S, todo |-> BlocksOf(S),
                got |-> {}, stale |-> {}]
    /\ UNCHANGED <<mount, ioMode, attached, cache, staleDisk, mapped>>

\* Edge blocks are loaded first unless the range is made of whole blocks.
DevicePwrite(S) ==
    /\ open /\ call = NoCall /\ S \cap InFlight = {}
    /\ call' = [st |-> IF Covered(BlocksOf(S)) = S THEN "store" ELSE "load", write |-> TRUE,
                secs |-> S, todo |-> BlocksOf(S), got |-> {}, stale |-> {}]
    /\ UNCHANGED <<mount, ioMode, attached, cache, staleDisk, mapped>>

\* The scratch buffer after block b was read with the sectors `old` out of date.
Loaded(b, old) ==
    LET c == [call EXCEPT !.todo = @ \ {b}, !.got = @ \cup Cover(b), !.stale = @ \cup old]
    IN  IF c.todo # {} THEN c
        ELSE IF c.write THEN [c EXCEPT !.st = "store", !.todo = BlocksOf(c.secs)]
        ELSE NoCall

ReadBlock ==
    LET b   == NextBlock
        old == IF b \in cached THEN {s \in Cover(b) : <<b, s>> \in staleCache}
               ELSE staleDisk \cap Cover(b)
    IN  /\ call.st = "load" /\ ThroughCache
        /\ cached' = cached \cup {b}
        /\ staleCache' = staleCache \cup ({b} \X old)
        /\ call' = Loaded(b, old)
        /\ UNCHANGED <<mount, attached, mapped, staleDisk>>

ReadBlockPlain ==
    /\ call.st = "load" /\ PlainFallback
    /\ call' = Loaded(NextBlock, staleDisk \cap Cover(NextBlock))
    /\ UNCHANGED <<mount, attached, mapped, cache, staleDisk>>

\* The new sectors of a block, and the others the scratch buffer has an old
\* copy of.
New(b) == Cover(b) \cap call.secs
Old(b) == (Cover(b) \ New(b)) \cap call.stale
Outdated(bs, S) == {p \in bs \X S : p[2] \in Cover(p[1])}
Stored(b) == /\ staleDisk' = (staleDisk \ Cover(b)) \cup Old(b)
             /\ call' = IF call.todo = {b} THEN NoCall ELSE [call EXCEPT !.todo = @ \ {b}]
             /\ UNCHANGED <<mount, attached, mapped>>

WriteBlock ==
    LET b == NextBlock
    IN  /\ call.st = "store" /\ ThroughCache
        /\ cached' = cached \cup {b}
        /\ staleCache' = {p \in staleCache : p[1] # b} \cup ({b} \X Old(b))
                         \cup Outdated(cached \ {b}, New(b))
        /\ Stored(b)

WriteBlockPlain ==
    /\ call.st = "store" /\ PlainFallback
    /\ staleCache' = staleCache \cup Outdated(cached, New(NextBlock))
    /\ Stored(NextBlock)
    /\ UNCHANGED cached

-----------------------------------------------------------------------------
\* Mutant: the cached blocks stay.
MapPurgeSkipped(c) == UNCHANGED cache

\* metadataPurge of the blocks that cover the cluster.
MapPurge(c) ==
    LET gone == {b \in cached : b \in BlocksOf(Cluster(c))}
    IN  /\ cached' = cached \ gone
        /\ staleCache' = {p \in staleCache : p[1] \notin gone}

\* blockmapFile for writing: nothing is handed out when the purge fails.
BlockmapFile(c) ==
    /\ kernelMounted /\ attached /\ call = NoCall /\ c \notin mapped
    /\ \/ MapPurge(c) /\ mapped' = mapped \cup {c}
       \/ "mappurgefail" \in Env /\ UNCHANGED <<cache, mapped>>
    /\ UNCHANGED <<mount, ioMode, attached, staleDisk, call>>

\* The kernel's direct write reaches a sector.
Land(s) ==
    /\ s \in InFlight
    /\ staleDisk' = staleDisk \ {s}
    /\ staleCache' = staleCache \cup {<<b, s>> : b \in {d \in cached : s \in Cover(d)}}
    /\ call' = IF call # NoCall /\ s \in call.got
               THEN [call EXCEPT !.stale = @ \cup {s}] ELSE call
    /\ UNCHANGED <<mount, ioMode, attached, cached, mapped>>

CompleteIO(c) ==
    /\ call = NoCall /\ c \in mapped
    /\ mapped' = mapped \ {c}
    /\ UNCHANGED <<mount, ioMode, attached, cache, staleDisk, call>>

\* The cache drops a block for its own reasons.
EvictBlock(b) ==
    /\ cached' = cached \ {b}
    /\ staleCache' = {p \in staleCache : p[1] # b}
    /\ UNCHANGED <<mount, ioMode, attached, staleDisk, mapped, call>>

Next == \/ OpenEngine \/ Mount \/ Attach \/ Detach \/ CloseEngine \/ Format
        \/ \E S \in Ranges : DevicePread(S) \/ DevicePwrite(S)
        \/ ReadBlock \/ ReadBlockPlain \/ WriteBlock \/ WriteBlockPlain \/ BlockError
        \/ \E c \in Clusters : BlockmapFile(c) \/ CompleteIO(c)
        \/ \E s \in Sectors : Land(s)
        \/ \E b \in cached : EvictBlock(b)

Spec == Init /\ [][Next]_vars

-----------------------------------------------------------------------------
\* Types: the granule is a block or the large granule, cached blocks cover
\* sectors of the device, and only a sector of a cached block can be old there.
TypeOK ==
    /\ cs \in ClusterSizes /\ open \in BOOLEAN /\ granule \in {1, Big}
    /\ ioMode \in {"probing", "metadata"}
    /\ kernelMounted \in BOOLEAN /\ attached \in BOOLEAN
    /\ \A b \in cached : Cover(b) \subseteq Sectors
    /\ \A p \in staleCache : p[1] \in cached /\ p[2] \in Cover(p[1])
    /\ staleDisk \subseteq Sectors /\ mapped \subseteq Clusters

\* No read-modify-write puts an older copy of a sector over a kernel write
\* ("otherwise an engine RMW of a shared block can write a stale copy over a
\* neighbour's direct KOIO write").
DirectWritesSurvive == staleDisk = {}

\* What the buffer cache holds is current, except for sectors the kernel is
\* still writing ("stale cached bytes never shadow direct kernel writes").
CacheCurrent == \A p \in staleCache : p[2] \in InFlight

\* Every cached block has the current granule: "every access to a region must
\* use the same (offset, length)".
OneGranule == open => \A b \in cached : b[2] = granule

\* The engine bypasses the cache only as long as the kernel cannot write:
\* "falling back to plain writes would race the kernel's direct KOIO writes".
PlainBeforeMount == [][ReadBlockPlain \/ WriteBlockPlain => mapped = {}]_vars
=============================================================================

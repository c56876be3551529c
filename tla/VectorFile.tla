----------------------------- MODULE VectorFile -----------------------------
(***************************************************************************)
(* The memory-mapped file of vectors (engine/src/embeddings/mmap_store.rs):*)
(* slots of one node each, with a vector and a time stamp per strategy,    *)
(* where a stamp of zero means that there is no vector.  A store writes    *)
(* the node's id, the numbers of the vector, the stamp, and then flushes.  *)
(* When the process is killed the file holds what was written; when the    *)
(* power fails, of what was not flushed any part may be lost.  Opening     *)
(* finds the nodes by scanning the ids.                                    *)
(*                                                                         *)
(* A vector is two numbers.  No node has the id of zeros, which marks a    *)
(* free slot, and the file is always opened with the same dimensions.      *)
(***************************************************************************)
EXTENDS Integers, FiniteSets

CONSTANTS
    Node,
    Strategy,
    Value,              \* the numbers of a vector, which are all the same
    None,               \* zeros in the file
    InitialCapacity,    \* initial_capacity
    MaxSlots,           \* bound: no store that would need more slots
    MaxCrashes          \* bound: how often the process ends without warning

VectorFileAssumption ==
    /\ {InitialCapacity, MaxSlots} \subseteq Nat \ {0} /\ MaxCrashes \in Nat
    /\ InitialCapacity <= MaxSlots
    /\ None \notin Node \cup Value \cup {"set"}

Slot == 1..MaxSlots
Part == {"lo", "hi", "stamp"}
Id == <<None, "id">>
Field == {Id} \cup (Strategy \X Part)

VARIABLES
    mem,        \* MmapEmbeddingStore.mmap
    disk,       \* what of it has reached the disk
    capacity,   \* MmapEmbeddingStore.capacity, and the length of the file
    durable,    \* the length of the file on disk
    index,      \* MmapEmbeddingStore.index: the slot of a node, 0 if it has none
    len,        \* MmapEmbeddingStore.len
    call,       \* the store under way
    stored,     \* history: the vector last stored to the end, per node and strategy
    spoilt,     \* history: the vectors whose last store did not come to its end
    crashes     \* history: how often the process ended

vars == <<mem, disk, capacity, durable, index, len, call, stored, spoilt, crashes>>

Blank == [s \in Slot |-> [f \in Field |-> None]]
Idle == [at |-> "idle", node |-> None, strategy |-> None, vector |-> <<>>, slot |-> 0]

(* Every node of the index is where the index says, no two of them share a *)
(* slot, and there are as many as are counted.                             *)
TypeOK ==
    /\ DOMAIN mem = Slot /\ DOMAIN disk = Slot /\ \A s \in Slot : DOMAIN mem[s] = Field /\ DOMAIN disk[s] = Field
    /\ InitialCapacity <= durable /\ durable <= capacity /\ capacity <= MaxSlots
    /\ \A n \in Node : index[n] # 0 => index[n] <= capacity /\ mem[index[n]][Id] = n
    /\ len = Cardinality({n \in Node : index[n] # 0})
    /\ call.at # "down" => len = Cardinality({s \in Slot : mem[s][Id] # None})
    /\ call.at \in {"idle", "place", "lo", "hi", "stamp", "flush", "down"} /\ call.slot \in 0..capacity
    /\ spoilt \subseteq Slot \X Strategy /\ crashes \in 0..MaxCrashes

Init ==
    /\ mem = Blank /\ disk = Blank
    /\ capacity = InitialCapacity /\ durable = InitialCapacity
    /\ index = [n \in Node |-> 0] /\ len = 0
    /\ call = Idle
    /\ stored = [n \in Node |-> [s \in Strategy |-> None]]
    /\ spoilt = {} /\ crashes = 0

-----------------------------------------------------------------------------
File == <<mem, disk, capacity, durable>>
Past == <<stored, spoilt, crashes>>

StoreStrategy(n, s, v) ==
    /\ call.at = "idle"
    /\ index[n] # 0 \/ len < capacity \/ 2 * capacity <= MaxSlots
    /\ call' = [at |-> IF index[n] = 0 THEN "place" ELSE "lo", node |-> n, strategy |-> s,
                vector |-> v, slot |-> index[n]]
    /\ UNCHANGED <<File, index, len, Past>>

EnsureCapacity_Late == IF len <= capacity THEN capacity ELSE 2 * capacity    \* mutant: one too late
EnsureCapacity == IF len < capacity THEN capacity ELSE 2 * capacity

NextFreeSlot == CHOOSE s \in Slot : mem[s][Id] = None /\ \A t \in 1..(s - 1) : mem[t][Id] # None

Place ==
    /\ call.at = "place"
    /\ capacity' = EnsureCapacity
    /\ mem' = [mem EXCEPT ![NextFreeSlot][Id] = call.node]
    /\ index' = [index EXCEPT ![call.node] = NextFreeSlot]
    /\ len' = len + 1
    /\ call' = [call EXCEPT !.at = "lo", !.slot = NextFreeSlot]
    /\ UNCHANGED <<disk, durable, Past>>

WriteEmbedding(part, v, next) ==
    /\ call.at = part
    /\ mem' = [mem EXCEPT ![call.slot][<<call.strategy, part>>] = v]
    /\ call' = [call EXCEPT !.at = next]
    /\ UNCHANGED <<disk, capacity, durable, index, len, Past>>

Flushed_Not == disk         \* mutant: the system writes it back some time
Flushed == mem

Flush ==
    /\ call.at = "flush"
    /\ disk' = Flushed /\ durable' = capacity
    /\ stored' = [stored EXCEPT ![call.node][call.strategy] = call.vector]
    /\ spoilt' = spoilt \ {<<call.slot, call.strategy>>}
    /\ call' = Idle
    /\ UNCHANGED <<mem, capacity, index, len, crashes>>

-----------------------------------------------------------------------------
ReadEmbedding(s, strategy) ==
    IF mem[s][<<strategy, "stamp">>] = None THEN None
    ELSE <<mem[s][<<strategy, "lo">>], mem[s][<<strategy, "hi">>]>>

GetStrategy(n, strategy) == IF index[n] = 0 THEN None ELSE ReadEmbedding(index[n], strategy)

-----------------------------------------------------------------------------
(* What is left of the file: all that was written, or of what was not      *)
(* flushed any part.                                                       *)
Down(left, size) ==
    /\ crashes < MaxCrashes /\ call.at # "down"
    /\ mem' = left /\ disk' = left /\ capacity' = size /\ durable' = size
    /\ spoilt' = IF call.slot = 0 THEN spoilt ELSE spoilt \cup {<<call.slot, call.strategy>>}
    /\ call' = [Idle EXCEPT !.at = "down"]
    /\ crashes' = crashes + 1
    /\ index' = [n \in Node |-> 0] /\ len' = 0
    /\ UNCHANGED stored

Killed == Down(mem, capacity)

PowerFails ==
    \E size \in {durable, capacity}, lost \in SUBSET {k \in Slot \X Field : mem[k[1]][k[2]] # disk[k[1]][k[2]]} :
        Down([s \in Slot |-> [f \in Field |->
                IF <<s, f>> \in lost THEN disk[s][f] ELSE IF s > size THEN None ELSE mem[s][f]]], size)

(* Of two slots with the same id the later one counts. *)
ScanRecords_Short == 1..(capacity - 1)          \* mutant: the last slot is not looked at
ScanRecords == 1..capacity

Open ==
    /\ call.at = "down"
    /\ LET SlotsOf(n) == {s \in ScanRecords : mem[s][Id] = n} IN
       index' = [n \in Node |-> IF SlotsOf(n) = {} THEN 0
                                ELSE CHOOSE s \in SlotsOf(n) : \A t \in SlotsOf(n) : t <= s]
    /\ len' = Cardinality({s \in ScanRecords : mem[s][Id] # None})
    /\ call' = Idle
    /\ UNCHANGED <<File, Past>>

Next ==
    \/ \E n \in Node, s \in Strategy, v \in Value : StoreStrategy(n, s, <<v, v>>)
    \/ Place
    \/ WriteEmbedding("lo", call.vector[1], "hi")
    \/ WriteEmbedding("hi", call.vector[2], "stamp")
    \/ WriteEmbedding("stamp", "set", "flush")
    \/ Flush
    \/ Killed \/ PowerFails \/ Open

Spec == Init /\ [][Next]_vars

-----------------------------------------------------------------------------
(***************************************************************************)
(* Whatever crashes there were, a node has the vector that was last stored *)
(* for it to the end, and none if none was, except where the last store    *)
(* into that place did not come to its end.                                *)
(***************************************************************************)
FileKeeps ==
    call.at = "idle" =>
        \A n \in Node, s \in Strategy :
            <<index[n], s>> \in spoilt \/ GetStrategy(n, s) = stored[n][s]
=============================================================================

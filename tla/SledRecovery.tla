---------------------------- MODULE SledRecovery ----------------------------
(***************************************************************************)
(* Crashes and restarts of a process that runs SledStore.                  *)
(*                                                                         *)
(* sled appends every call to one log and makes a prefix of it durable: in *)
(* the background, or when SledStore::flush asks (main.rs does on a        *)
(* graceful exit only).  SledStore::open recovers that prefix.  The prefix *)
(* is the state at the last Flush below; Flush may happen at any moment,   *)
(* so a crash can lose any suffix of the calls.  Callers in flight die     *)
(* with the process.                                                       *)
(***************************************************************************)
EXTENDS SledStore

CONSTANT MaxCrashes     \* bound on the number of crashes explored

ASSUME RecoveryAssumption == MaxCrashes \in Nat

VARIABLES
    disk,       \* the trees as of the durable prefix of sled's log
    crashes,    \* crashes so far
    torn        \* history: triples an operation was at work on when cut off

rvars == <<vars, disk, crashes, torn>>

Image == [triples : [Triple -> Stored], index : [Tree -> SUBSET Triple],
          sources : SUBSET Source, junction : SUBSET (Triple \X Source),
          torn : SUBSET Triple]

RTypeOK ==
    /\ TypeOK
    /\ disk \in Image
    /\ crashes \in 0..MaxCrashes
    /\ torn \in SUBSET Triple

Snapshot == [triples |-> triples, index |-> index, sources |-> sources,
             junction |-> junction, torn |-> torn \cup {t \in Triple : ~Settled(t)}]

RInit ==
    /\ Init
    /\ torn = {}
    /\ disk = Snapshot
    /\ crashes = 0

(* A record written again gets a full set of index entries again. *)
Rewritten(t) ==
    \E c \in Client : /\ job[c].at \in {"idle", "write"}
                      /\ job'[c].at = "index" /\ job'[c].id = t

Running ==
    /\ Next
    /\ torn' = {t \in torn : ~Rewritten(t)}
    /\ UNCHANGED <<disk, crashes>>

Flush_OnlyRecords ==    \* mutant: the index trees are not flushed
    /\ crashes < MaxCrashes
    /\ disk' = [Snapshot EXCEPT !.index = disk.index]
    /\ UNCHANGED <<vars, crashes, torn>>

Flush ==
    /\ crashes < MaxCrashes
    /\ disk' = Snapshot
    /\ UNCHANGED <<vars, crashes, torn>>

(* The process dies and SledStore::open finds the durable prefix. *)
CrashAndReopen ==
    /\ crashes < MaxCrashes
    /\ crashes' = crashes + 1
    /\ triples' = disk.triples
    /\ index' = disk.index
    /\ sources' = disk.sources
    /\ junction' = disk.junction
    /\ torn' = disk.torn
    /\ job' = [c \in Client |-> Idle]
    /\ UNCHANGED disk

RNext == Running \/ Flush \/ CrashAndReopen

RSpec == RInit /\ [][RNext]_rvars

-----------------------------------------------------------------------------
(***************************************************************************)
(* A crash damages only what an operation was in the middle of: a stored   *)
(* triple that is missing from an index tree, with no operation at work on *)
(* it, was cut off by a crash, and writing it again repairs it.            *)
(***************************************************************************)
DamageConfined ==
    \A x \in Tree, t \in QueryAll(Triple) :
        Settled(t) /\ t \notin torn => t \in Query(x, {t})

(***************************************************************************)
(* The same with types: what SledStore::open finds after a crash is a      *)
(* store, and damaged only where an operation was cut off.                 *)
(***************************************************************************)
RecoverySound == RTypeOK /\ DamageConfined
=============================================================================

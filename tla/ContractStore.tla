---------------------------- MODULE ContractStore ----------------------------
(***************************************************************************)
(* The persistent store of a contract: the LevelDB database ".contractdb"  *)
(* behind qtum_context_configure_db, qtum_put and qtum_get (qtum.c).       *)
(*                                                                         *)
(* LevelDB itself is external and is modelled by what qtum.c relies on:    *)
(*   - one process at a time has the database open (its LOCK file), and    *)
(*     the kernel drops the lock of a process that ends in any way;        *)
(*   - a put appends one record to a log, and a get answers with the       *)
(*     newest record of its key;                                           *)
(*   - qtum_put leaves the write options at their default, so a put        *)
(*     returns before its record is on the disk: the record survives the   *)
(*     end of its process, but until the database is opened again a power  *)
(*     loss may take it, and with it all later ones.                       *)
(***************************************************************************)
EXTENDS Naturals, Sequences

CONSTANTS Proc,     \* processes; each is one run of a contract's main()
          NoProc,   \* the owner of a lock nobody holds
          Key,      \* storage keys
          Value,    \* stored byte strings
          None      \* the NULL that stands for an absent value

ASSUME StoreAssumption == NoProc \notin Proc /\ None \notin Value

VARIABLES
    lock,     \* the process that has the database open, or NoProc
    wal,      \* the records put so far, oldest first
    durable,  \* how many of them no power loss can take
    lost      \* history: the processes a power loss took a record from

storeVars == <<lock, wal, durable, lost>>

(***************************************************************************)
(* A record carries its writer as a history field: LevelDB does not keep   *)
(* it, and no operation reads it.                                          *)
(***************************************************************************)
Record == [by: Proc, key: Key, val: Value]

StoreTypeOK ==
    /\ lock \in Proc \cup {NoProc}
    /\ wal \in Seq(Record)
    /\ durable \in 0 .. Len(wal)
    /\ lost \subseteq Proc

StoreInit ==
    /\ lock = NoProc
    /\ wal = << >>
    /\ durable = 0
    /\ lost = {}

----------------------------------------------------------------------------
(* Where key k was put in log w for the last time, and its current value. *)
LastPut(w, k) ==
    {i \in 1 .. Len(w) : w[i].key = k /\ \A j \in i + 1 .. Len(w) : w[j].key # k}

Newest(w, k) ==
    IF LastPut(w, k) = {} THEN None ELSE w[CHOOSE i \in LastPut(w, k) : TRUE].val

----------------------------------------------------------------------------
(***************************************************************************)
(* leveldb_open by process p succeeds: nobody else has the database open.  *)
(* Opening replays the log and writes what it held to a synced table.      *)
(***************************************************************************)
LockStore(p) ==
    /\ lock = NoProc
    /\ lock' = p
    /\ durable' = Len(wal)
    /\ UNCHANGED <<wal, lost>>

(* What leveldb_put does to the log. *)
AppendRecord(p, k, v) ==
    /\ wal' = Append(wal, [by |-> p, key |-> k, val |-> v])
    /\ UNCHANGED <<lock, durable, lost>>

(* The end of process p, or leveldb_close: its lock, if it has it, is free. *)
UnlockStore(p) ==
    /\ lock' = IF lock = p THEN NoProc ELSE lock
    /\ UNCHANGED <<wal, durable, lost>>

(* A power loss: what is left of the log is a prefix, no process survives. *)
CutLog ==
    \E n \in durable .. Len(wal) :
        /\ wal' = SubSeq(wal, 1, n)
        /\ durable' = n
        /\ lost' = lost \cup {wal[i].by : i \in n + 1 .. Len(wal)}
        /\ lock' = NoProc
=============================================================================

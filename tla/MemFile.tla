------------------------------ MODULE MemFile ------------------------------
(***************************************************************************)
(* zfile.MemoryFile (zfile/memory.go), the append that its Sync ends with  *)
(* (zfile/handle.go), and its two users: the log file of zlog/file.go,     *)
(* which is flushed by a loop and changes its name every day, and the      *)
(* snapshots of the session store (znet/session/memory.go), which a start  *)
(* reads back.  A chunk is what one Write writes, a log line or a whole    *)
(* snapshot; chunks are as long as each other and numbered.                *)
(***************************************************************************)
EXTENDS Naturals, Sequences, FiniteSets
LOCAL INSTANCE SequencesExt

CONSTANTS
    Uses,       \* of "log" and "store"
    MaxWrites,  \* bound on the writes
    MaxDays,    \* bound on the days, and so on the names of a log file
    MaxFails,   \* bound on the writes to disk that fail
    MaxStarts   \* bound on the starts of the program

ASSUME MemFileAssumption ==
    /\ Uses \subseteq {"log", "store"} /\ {MaxWrites, MaxDays, MaxFails, MaxStarts} \subseteq Nat
    /\ MaxDays > 0 /\ MaxStarts > 0

Syncers == {"loop", "closer"}   \* flushLoop or persistLoop, and Close
Days == 1..MaxDays

VARIABLES
    use, day,
    back, len,      \* byteBuffer: the array behind it, and its length
    name, stop,     \* the name (a day) that WriteFile gets, and stop
    sync,           \* sync[p]: where a Sync is, and the length of the slice it took
    filesMade, disk,  \* the names whose file exists, and the chunks in the files
    writes, fails, starts,
    logged,         \* history: chunks of writes that have returned, in order
    dropped,        \* history: chunks that a failed write to disk or a crash lost
    overlap,        \* history: has a Write or a Sync overlapped a write to disk
    loaded          \* what the last start has read: a snapshot, or 0 for none

fileVars == <<back, len, name, stop>>
history == <<logged, dropped, overlap>>
mfVars == <<use, day, fileVars, sync, filesMade, disk, writes, fails, starts, history, loaded>>

MfInit ==
    /\ use \in Uses /\ day = 1
    /\ back = <<>> /\ len = 0 /\ name = 1 /\ stop = FALSE
    /\ sync = [p \in Syncers |-> [at |-> "idle", n |-> 0]]
    /\ filesMade = {} /\ disk = [d \in Days |-> <<>>]
    /\ writes = 0 /\ fails = 0 /\ starts = 1
    /\ logged = <<>> /\ dropped = {} /\ overlap = FALSE /\ loaded = 0

SGo(p, from, to) == sync[p].at = from /\ sync' = [sync EXCEPT ![p].at = to]
Writing(p) == sync[p].at \in {"look", "append", "create"}
InHand(p) == Writing(p) /\ sync[p].n > 0

-----------------------------------------------------------------------------
\* Write appends at the index, which is the length: into the same array as long
\* as it has room, whoever still reads it.
PutBehind(c) == IF len < Len(back) THEN [back EXCEPT ![len + 1] = c] ELSE Append(back, c)

MfWrite(c) ==
    /\ back' = PutBehind(c) /\ len' = len + 1
    /\ writes' = writes + 1 /\ logged' = Append(logged, c)
    /\ overlap' = (overlap \/ \E p \in Syncers : InHand(p))

\* A line is logged; after Close Write fails.
LogLine ==
    /\ use = "log" /\ ~stop /\ writes < MaxWrites
    /\ MfWrite(writes + 1)
    /\ UNCHANGED <<use, day, name, stop, sync, filesMade, disk, fails, starts, dropped, loaded>>

\* Sync: nothing to do for an empty buffer, and the callback before the flush,
\* by which a log file takes the name of the day.
SyncBegins ==
    /\ use = "log" /\ ~stop /\ len > 0
    /\ SGo("loop", "idle", "take")
    /\ name' = day
    /\ UNCHANGED <<use, day, back, len, stop, filesMade, disk, writes, fails, starts, history, loaded>>

\* Under the lock the slice is taken, and the buffer reset to its beginning.
SyncTakes(p) ==
    /\ sync[p].at = "take" /\ sync' = [sync EXCEPT ![p] = [at |-> "look", n |-> len]]
    /\ len' = 0
    /\ overlap' = (overlap \/ \E q \in Syncers \ {p} : Writing(q))
    /\ UNCHANGED <<use, day, back, name, stop, filesMade, disk, writes, fails, starts, logged, dropped, loaded>>

\* WriteFile(f.name, b, true) looks whether the file exists,
SyncLooks(p) ==
    /\ SGo(p, "look", IF name \in filesMade THEN "append" ELSE "create")
    /\ UNCHANGED <<use, day, fileVars, filesMade, disk, writes, fails, starts, history, loaded>>

Truncated(old, b) == b     \* mutant: WriteFile without isAppend
Appended(old, b) == old \o b

\* and appends to it, or creates it, which empties one that is there by now.
SyncWrites(p) ==
    /\ sync[p].at \in {"append", "create"}
    /\ LET b == SubSeq(back, 1, sync[p].n) IN
       disk' = [disk EXCEPT ![name] = IF sync[p].at = "append" THEN Appended(@, b) ELSE b]
    /\ filesMade' = filesMade \cup {name}
    /\ sync' = [sync EXCEPT ![p] = [at |-> IF p = "closer" THEN "closed" ELSE "idle", n |-> 0]]
    /\ UNCHANGED <<use, day, fileVars, writes, fails, starts, history, loaded>>

\* The write fails; nobody looks at the error, and the buffer is empty already.
SyncFails(p) ==
    /\ sync[p].at \in {"append", "create"} /\ fails < MaxFails
    /\ fails' = fails + 1
    /\ dropped' = dropped \cup ToSet(SubSeq(back, 1, sync[p].n))
    /\ sync' = [sync EXCEPT ![p] = [at |-> IF p = "closer" THEN "closed" ELSE "idle", n |-> 0]]
    /\ UNCHANGED <<use, day, fileVars, filesMade, disk, writes, starts, logged, overlap, loaded>>

\* Close of the log file: stop, and a last Sync.
LogCloses ==
    /\ use = "log" /\ ~stop
    /\ stop' = TRUE
    /\ IF len > 0 THEN SGo("closer", "idle", "take") /\ name' = day
       ELSE SGo("closer", "idle", "closed") /\ UNCHANGED name
    /\ UNCHANGED <<use, day, back, len, filesMade, disk, writes, fails, starts, history, loaded>>

NextDay ==
    /\ use = "log" /\ day < MaxDays /\ day' = day + 1
    /\ UNCHANGED <<use, fileVars, sync, filesMade, disk, writes, fails, starts, history, loaded>>

-----------------------------------------------------------------------------
(* The snapshots of a session store.                                       *)

\* writeSnapshot, at a tick or in Close, which has waited for the loop: the
\* sessions as they are now, chunk writes + 1, are written to the buffer.
Snapshot(p) ==
    /\ use = "store" /\ writes < MaxWrites
    /\ p = "loop" => ~stop
    /\ SGo(p, "idle", "take") /\ sync["loop"].at = "idle"
    /\ stop' = (stop \/ p = "closer")
    /\ MfWrite(writes + 1)
    /\ UNCHANGED <<use, day, name, filesMade, disk, fails, starts, dropped, loaded>>

\* The program ends, after Close or by a crash, and starts again.  Of what a
\* write to disk had in hand the file has all, or a part (0), or nothing.
Cuts(p) == {<<>>, <<0>>, SubSeq(back, 1, sync[p].n)}
Restart ==
    /\ use = "store" /\ starts < MaxStarts /\ starts' = starts + 1
    /\ \E p \in Syncers : \E b \in Cuts(p) :
          LET file == disk[name] \o b IN
          /\ b # <<>> => sync[p].at \in {"append", "create"} /\ InHand(p)
          /\ disk' = [disk EXCEPT ![name] = file]
          /\ filesMade' = IF file = <<>> THEN filesMade ELSE filesMade \cup {name}
          /\ loaded' = IF Len(file) = 1 THEN file[1] ELSE 0
          /\ dropped' = dropped \cup (ToSet(logged) \ ToSet(file))
    /\ back' = <<>> /\ len' = 0 /\ stop' = FALSE
    /\ sync' = [p \in Syncers |-> [at |-> "idle", n |-> 0]]
    /\ UNCHANGED <<use, day, name, writes, fails, logged, overlap>>

MfNext ==
    \/ LogLine \/ SyncBegins \/ LogCloses \/ NextDay \/ Restart
    \/ \E p \in Syncers : SyncTakes(p) \/ SyncLooks(p) \/ SyncWrites(p) \/ SyncFails(p) \/ Snapshot(p)

MfSpec == MfInit /\ [][MfNext]_mfVars

-----------------------------------------------------------------------------
\* What is in the files of all days, in the hands of a Sync and in the buffer.
OnDisk == FlattenSeq([d \in Days |-> disk[d]])
Held == FlattenSeq([i \in 1..2 |->
           LET p == <<"loop", "closer">>[i] IN SubSeq(back, 1, IF InHand(p) THEN sync[p].n ELSE 0)])

\* As long as nothing is logged, and no other flush takes anything, while a
\* flush writes to disk: the files, what a flush has in hand and the buffer hold
\* together every chunk written, once, in order, but for those that a failed
\* write or a crash took with it; whatever the day, however the loop and Close
\* get into each other's way, and whenever the program ends and starts again.
FlushedInOrder ==
    ~overlap => SelectSeq(OnDisk \o Held \o SubSeq(back, 1, len), LAMBDA c : c # 0)
                    = SelectSeq(logged, LAMBDA c : c \notin dropped)

\* memory_test.go:315: after the start of a second store on the same file, Get of
\* a session of the snapshot must answer without an error: when all
\* snapshots in the file are whole, a start finds the last.
RestartFindsSnapshot ==
    [][starts' > starts /\ disk'[name] # <<>> /\ 0 \notin ToSet(disk'[name])
          => loaded' = Last(disk'[name])]_mfVars
=============================================================================

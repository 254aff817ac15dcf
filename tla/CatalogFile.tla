---------------------------- MODULE CatalogFile ----------------------------
(***************************************************************************)
(* The processes of rustafari-server (main.rs) and the one thing they      *)
(* persist: the catalog, in rustafari-data/catalog.json. A process loads   *)
(* it when it starts and writes it after every statement that succeeded,   *)
(* whatever the statement was. Processes started in the same directory     *)
(* share the file and know nothing of each other.                          *)
(***************************************************************************)
EXTENDS Catalog

CONSTANTS
    Processes,    \* invocations of the rustafari program
    MaxTables,    \* bound: CREATE TABLE only below this table identifier
    MaxMixtures,  \* bound: how often a mixture of two snapshots parses
    MixedLength,  \* bound: entries of each kind in such a mixture
    MaxMixedId    \* bound: the largest identifier in such a mixture

ASSUME MixturesAssumption ==
    MaxMixtures \in Nat /\ MixedLength \in Nat /\ MaxMixedId \in Nat

VARIABLES
    file,        \* catalog.json
    pc,          \* where each process is
    mode,        \* the subcommand, shell or query
    cat,         \* SessionState.catalog of each process
    writing,     \* the content save_catalog is writing
    alone,       \* no one else has had the file open since this one truncated it
    overlapped,  \* history: two processes have been up at the same time
    saved,       \* history: the catalog last written, until then
    wounded,     \* history: a crash or a failed write and no save since, until then
    mixtures     \* history: how often a mixture of two snapshots has parsed

vars == <<file, pc, mode, cat, writing, alone, saved, overlapped, wounded, mixtures>>

(* What the file may hold: nothing, there being no file; text that does    *)
(* not parse, being empty, cut short or garbled; or a snapshot.            *)
Absent      == [kind |-> "absent"]
Torn        == [kind |-> "torn"]
Whole(snap) == [kind |-> "whole", snap |-> snap]

SnapshotFiles(c) == {Whole(s) : s \in Snapshots(c)}

(* What bytes of several snapshots may read as. All that is known of it is *)
(* that it has the fields of a snapshot.                                   *)
MixedIds == 0..MaxMixedId

MixedTables ==
    [id : MixedIds, namespace_id : MixedIds, name : Names, schema : Schemas]

Mixtures ==
    {Whole(snap) : snap \in [namespaces : SeqOf(Namespaces \X MixedIds, MixedLength),
                             tables : SeqOf(MixedTables, MixedLength)]}

(* Two processes have the file open, one of them to write.                 *)
Garbled(content) ==
    \/ content = Torn /\ UNCHANGED mixtures
    \/ /\ mixtures < MaxMixtures
       /\ content \in Mixtures /\ mixtures' = mixtures + 1

TableNames(c) ==
    {n \in Namespaces \X Names : HasTable(c, n[1], n[2])}

Init ==
    /\ file = Absent
    /\ pc = [p \in Processes |-> "down"]
    /\ mode = [p \in Processes |-> "shell"]
    /\ cat = [p \in Processes |-> EmptyCatalog]
    /\ writing = [p \in Processes |-> Absent]
    /\ alone = [p \in Processes |-> FALSE]
    /\ saved = EmptyCatalog /\ overlapped = FALSE /\ wounded = FALSE /\ mixtures = 0

Up(p) == pc[p] # "down"

Settled == \A p \in Processes : pc[p] # "write"

Goto(p, label) == pc' = [pc EXCEPT ![p] = label]

(* The process is gone and its memory with it. *)
End(p) ==
    /\ Goto(p, "down")
    /\ mode' = [mode EXCEPT ![p] = "shell"]
    /\ cat' = [cat EXCEPT ![p] = EmptyCatalog]

(* load_catalog: a file that does not parse only logs a warning, and the   *)
(* session goes on with the empty catalog of SessionState::new.            *)
LoadCatalog(content) ==
    IF content.kind = "whole" THEN LoadSnapshot(content.snap) ELSE EmptyCatalog

(* A file that is being written may be read in parts, old and new.         *)
Launch(p) ==
    /\ ~ Up(p)
    /\ Goto(p, "ready")
    /\ \E m \in {"shell", "query"} : mode' = [mode EXCEPT ![p] = m]
    /\ \/ cat' = [cat EXCEPT ![p] = LoadCatalog(file)] /\ UNCHANGED mixtures
       \/ /\ ~ Settled
          /\ \E content \in {Torn} \cup Mixtures :
                Garbled(content) /\ cat' = [cat EXCEPT ![p] = LoadCatalog(content)]
    /\ IF \E q \in Processes : Up(q)
       THEN overlapped' = TRUE /\ saved' = EmptyCatalog /\ wounded' = FALSE
       ELSE UNCHANGED <<overlapped, saved, wounded>>
    /\ UNCHANGED <<file, writing, alone>>

(* A statement that succeeds: CREATE TABLE, DROP TABLE, or one that leaves *)
(* the catalog as it is. The result is printed, then the save begins.      *)
Execute(p) ==
    /\ pc[p] = "ready"
    /\ \/ /\ cat[p].next_table_id < MaxTables
          /\ \E ns \in Namespaces, name \in Names, schema \in Schemas :
                cat' = [cat EXCEPT ![p] = CreateTable(@, ns, name, schema)]
       \/ \E ns \in Namespaces, name \in Names :
             /\ HasTable(cat[p], ns, name)
             /\ cat' = [cat EXCEPT ![p] = DropTable(@, ns, name)]
       \/ /\ \E ns \in Namespaces, name \in Names : HasTable(cat[p], ns, name)
          /\ UNCHANGED cat
    /\ Goto(p, "save")
    /\ UNCHANGED <<file, mode, writing, alone, saved, overlapped, wounded, mixtures>>

(* After a statement the shell reads the next line and query is finished. *)
AfterStatement(p) ==
    IF mode[p] = "shell" THEN Goto(p, "ready") /\ UNCHANGED <<mode, cat>> ELSE End(p)

(* A statement that fails is not followed by a save, nor is a line of the  *)
(* shell that is no statement: nothing, help, SHOW DATABASES, SHOW TABLES. *)
ExecuteFails(p) ==
    /\ pc[p] = "ready"
    /\ AfterStatement(p)
    /\ UNCHANGED <<file, writing, alone, saved, overlapped, wounded, mixtures>>

(* save_catalog: the snapshot is taken, then File::create cuts the file to *)
(* nothing.                                                                *)
Truncate(p) ==
    /\ pc[p] = "save"
    /\ \E content \in SnapshotFiles(cat[p]) :
          writing' = [writing EXCEPT ![p] = content]
    /\ file' = Torn
    /\ alone' = [q \in Processes |-> q = p /\ Settled]
    /\ Goto(p, "write")
    /\ UNCHANGED <<mode, cat, saved, overlapped, wounded, mixtures>>

(* The directory or the file cannot be made: the shell prints a warning,   *)
(* query exits with the error.                                             *)
SaveRefused(p) ==
    /\ pc[p] = "save"
    /\ AfterStatement(p)
    /\ UNCHANGED <<file, writing, alone, saved, overlapped, wounded, mixtures>>

(* to_writer_pretty writes token after token, at this process's own offset *)
(* into the file. What has been written so far does not parse, unless      *)
(* another process has the file open as well: then the bytes of both are   *)
(* in it.                                                                  *)
WriteSome(p) ==
    /\ pc[p] = "write" /\ ~ alone[p]
    /\ \E content \in {Torn} \cup Mixtures : Garbled(content) /\ file' = content
    /\ UNCHANGED <<pc, mode, cat, writing, alone, saved, overlapped, wounded>>

(* The file is closed, after a write that succeeded or not. *)
CloseFile(p) ==
    /\ AfterStatement(p)
    /\ writing' = [writing EXCEPT ![p] = Absent]
    /\ alone' = [alone EXCEPT ![p] = FALSE]
    /\ UNCHANGED <<overlapped, mixtures>>

(* The last token is written. If another process has the file open, the    *)
(* bytes before it may be those of both.                                   *)
Write(p) ==
    /\ pc[p] = "write"
    /\ file' \in IF alone[p] THEN {writing[p]} ELSE {writing[p], file}
    /\ saved' = IF overlapped THEN saved ELSE cat[p]
    /\ wounded' = FALSE
    /\ CloseFile(p)

(* The disk is full, say: what was written stays. *)
WriteFails(p) ==
    /\ pc[p] = "write"
    /\ wounded' = ~ overlapped
    /\ CloseFile(p)
    /\ UNCHANGED <<file, saved>>

(* exit, quit or the end of the input: nothing is saved. *)
Exit(p) ==
    /\ pc[p] = "ready" /\ mode[p] = "shell"
    /\ End(p)
    /\ UNCHANGED <<file, writing, alone, saved, overlapped, wounded, mixtures>>

(* The process is killed. A file it has truncated stays as it is. *)
Crash(p) ==
    /\ Up(p)
    /\ End(p)
    /\ wounded' = (wounded \/ (pc[p] = "write" /\ ~ overlapped))
    /\ writing' = [writing EXCEPT ![p] = Absent]
    /\ alone' = [alone EXCEPT ![p] = FALSE]
    /\ UNCHANGED <<file, saved, overlapped, mixtures>>

Next ==
    \E p \in Processes :
        \/ Launch(p) \/ Execute(p) \/ ExecuteFails(p) \/ Truncate(p)
        \/ SaveRefused(p) \/ WriteSome(p) \/ Write(p) \/ WriteFails(p)
        \/ Exit(p) \/ Crash(p)

Spec == Init /\ [][Next]_vars

-----------------------------------------------------------------------------
(* Type invariant. Every catalog in memory, and the one the next process   *)
(* loads, is well formed, unless bytes of two processes that had the file  *)
(* open at once have made a text that parses. Even then no identifier in   *)
(* use is given out again.                                                 *)
Catalogs == {cat[p] : p \in Processes} \cup {saved, LoadCatalog(file)}

TypeOK ==
    /\ pc \in [Processes -> {"down", "ready", "save", "write"}]
    /\ mode \in [Processes -> {"shell", "query"}]
    /\ DOMAIN cat = Processes /\ DOMAIN writing = Processes
    /\ \A c \in Catalogs : EntriesOK(c) /\ (mixtures = 0 => CatalogOK(c))
    /\ alone \in [Processes -> BOOLEAN]
    /\ overlapped \in BOOLEAN /\ wounded \in BOOLEAN
    /\ mixtures \in 0..MaxMixtures

(* As long as processes run one after the other and no write was cut       *)
(* short, the next process finds every table and namespace of the catalog  *)
(* last saved, and the same table under each name no two tables share.     *)
ReloadKeepsCatalog ==
    Settled /\ ~ overlapped /\ ~ wounded =>
        LET loaded == LoadCatalog(file)
        IN  /\ loaded.namespaces = saved.namespaces
            /\ loaded.tables_by_id = saved.tables_by_id
            /\ TableNames(saved) \subseteq TableNames(loaded)
            /\ Shadowed(saved) = {} =>
                  loaded.tables_by_name = saved.tables_by_name

(* Remove a table from the catalog: the next process does not have it      *)
(* either.                                                                 *)
DroppedStaysDropped ==
    Settled /\ ~ overlapped /\ ~ wounded =>
        TableNames(LoadCatalog(file)) \subseteq TableNames(saved)

(* A catalog once saved outlives a crash: the tables in it can be found by *)
(* the next process.                                                       *)
SavedOutlivesCrash ==
    Settled /\ ~ overlapped =>
        TableNames(saved) \subseteq TableNames(LoadCatalog(file))
=============================================================================

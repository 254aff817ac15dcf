------------------------------ MODULE Catalog ------------------------------
(***************************************************************************)
(* The catalog of rustafari-core (catalog.rs): namespaces, tables and the  *)
(* identifiers they are given, as operators over a record with the fields  *)
(* of struct Catalog. Every method of the code runs under the catalog's    *)
(* RwLock, so each operator is one atomic step of the modules that use it. *)
(* A table's schema is an opaque value; its identifiers are naturals (the  *)
(* code's u64 counters start at 0 and grow by one per table).              *)
(***************************************************************************)
EXTENDS Integers, SequencesExt

CONSTANTS
    Namespaces,  \* names of namespaces, such as "public"
    Names,       \* names of tables
    Schemas      \* schemas a table can have

(* TableMeta; storage_format is always "row" and is left out. *)
TableMetas == [id : Nat, namespace_id : Nat, name : Names, schema : Schemas]

(* Catalog::new: every counter is zero, every map is empty. *)
EmptyCatalog ==
    [next_namespace_id |-> 0, next_table_id |-> 0,
     namespaces |-> <<>>, tables_by_name |-> <<>>, tables_by_id |-> <<>>]

(* HashMap::insert and HashMap::remove. *)
With(map, key, value) ==
    [k \in DOMAIN map \cup {key} |-> IF k = key THEN value ELSE map[k]]

Without(map, key) == Restrict(map, DOMAIN map \ {key})

(* create_namespace: an existing name keeps its identifier. *)
CreateNamespace(cat, ns) ==
    IF ns \in DOMAIN cat.namespaces
    THEN cat
    ELSE [cat EXCEPT !.next_namespace_id = @ + 1,
                     !.namespaces = With(@, ns, cat.next_namespace_id)]

(* The metadata create_table gives the table it makes. *)
NewTable(cat, ns, name, schema) ==
    [id           |-> cat.next_table_id,
     namespace_id |-> CreateNamespace(cat, ns).namespaces[ns],
     name         |-> name,
     schema       |-> schema]

(* create_table does not look for an older table of the same name: the new *)
(* one takes the name over and the old one stays in tables_by_id.          *)
CreateTable(cat, ns, name, schema) ==
    LET table == NewTable(cat, ns, name, schema)
    IN  [CreateNamespace(cat, ns) EXCEPT
            !.next_table_id  = @ + 1,
            !.tables_by_name = With(@, <<table.namespace_id, name>>, table),
            !.tables_by_id   = With(@, table.id, table)]

(* get_table(namespace, name).is_some() *)
HasTable(cat, ns, name) ==
    /\ ns \in DOMAIN cat.namespaces
    /\ <<cat.namespaces[ns], name>> \in DOMAIN cat.tables_by_name

GetTable(cat, ns, name) == cat.tables_by_name[<<cat.namespaces[ns], name>>]

ListNamespaces(cat) == DOMAIN cat.namespaces

ListTables(cat, ns) == {name \in Names : HasTable(cat, ns, name)}

(* Fault for the runs: the name is left behind. *)
DropTableKeepsName(cat, ns, name) ==
    IF HasTable(cat, ns, name)
    THEN [cat EXCEPT !.tables_by_id = Without(@, GetTable(cat, ns, name).id)]
    ELSE cat

(* drop_table goes by name: it removes the entry the name has now, and the *)
(* entry of that table's identifier.                                       *)
DropTable(cat, ns, name) ==
    IF HasTable(cat, ns, name)
    THEN [cat EXCEPT
             !.tables_by_name = Without(@, <<cat.namespaces[ns], name>>),
             !.tables_by_id   = Without(@, GetTable(cat, ns, name).id)]
    ELSE cat

-----------------------------------------------------------------------------
(* Snapshots. *)

NameOf(table) == <<table.namespace_id, table.name>>

NamespaceEntries(cat) ==
    {<<ns, cat.namespaces[ns]>> : ns \in DOMAIN cat.namespaces}

(* Fault for the runs: a namespace without tables is not written. *)
SnapshotsOfUsedNamespaces(cat) ==
    LET tables == Range(cat.tables_by_id)
        used   == {entry \in NamespaceEntries(cat) :
                      \E table \in tables : table.namespace_id = entry[2]}
    IN  [namespaces : SetToSeqs(used), tables : SetToSeqs(tables)]

(* The snapshots to_snapshot may build: every namespace with its           *)
(* identifier, and the tables of tables_by_id. A HashMap iterates over its *)
(* entries in an order that differs from run to run.                       *)
Snapshots(cat) ==
    [namespaces : SetToSeqs(NamespaceEntries(cat)),
     tables     : SetToSeqs(Range(cat.tables_by_id))]

(* HashMap::insert of some entries in turn: the last one of a key counts.  *)
MapOf(entries) ==
    [key \in {entries[i][1] : i \in DOMAIN entries} |->
        entries[Max({i \in DOMAIN entries : entries[i][1] = key})][2]]

ByName(tables) == MapOf([i \in DOMAIN tables |-> <<NameOf(tables[i]), tables[i]>>])
ById(tables)   == MapOf([i \in DOMAIN tables |-> <<tables[i].id, tables[i]>>])

NamespaceIds(snap) == {entry[2] : entry \in ToSet(snap.namespaces)}
TableIds(snap)     == {table.id : table \in ToSet(snap.tables)}

(* Fault for the runs: the counters restart at the largest identifier. *)
LoadSnapshotReusesId(snap) ==
    [next_namespace_id |-> Max({0} \cup NamespaceIds(snap)),
     next_table_id     |-> Max({0} \cup TableIds(snap)),
     namespaces        |-> MapOf(snap.namespaces),
     tables_by_name    |-> ByName(snap.tables),
     tables_by_id      |-> ById(snap.tables)]

(* load_snapshot: entries are inserted in their order, and both counters   *)
(* restart one above the largest identifier, or at one if there is none.   *)
LoadSnapshot(snap) ==
    [next_namespace_id |-> Max({0} \cup NamespaceIds(snap)) + 1,
     next_table_id     |-> Max({0} \cup TableIds(snap)) + 1,
     namespaces        |-> MapOf(snap.namespaces),
     tables_by_name    |-> ByName(snap.tables),
     tables_by_id      |-> ById(snap.tables)]

-----------------------------------------------------------------------------
(* What every catalog reached by the operators above satisfies. *)

IsMap(f, keys, values) ==
    IsFiniteSet(DOMAIN f) /\ DOMAIN f \subseteq keys /\ f \in [DOMAIN f -> values]

CatalogTypeOK(cat) ==
    /\ DOMAIN cat = {"next_namespace_id", "next_table_id", "namespaces",
                     "tables_by_name", "tables_by_id"}
    /\ cat.next_namespace_id \in Nat
    /\ cat.next_table_id \in Nat
    /\ IsMap(cat.namespaces, Namespaces, Nat)
    /\ IsMap(cat.tables_by_name, Nat \X Names, TableMetas)
    /\ IsMap(cat.tables_by_id, Nat, TableMetas)

(* No identifier in use will be given out again. *)
IdsBelowCounters(cat) ==
    /\ \A ns \in DOMAIN cat.namespaces :
          cat.namespaces[ns] < cat.next_namespace_id
    /\ \A id \in DOMAIN cat.tables_by_id : id < cat.next_table_id

(* A name leads to a table of that name, and the two table maps agree. *)
NamesResolve(cat) ==
    /\ \A id \in DOMAIN cat.tables_by_id : cat.tables_by_id[id].id = id
    /\ \A key \in DOMAIN cat.tables_by_name :
          LET table == cat.tables_by_name[key]
          IN  /\ NameOf(table) = key
              /\ table.id \in DOMAIN cat.tables_by_id
              /\ cat.tables_by_id[table.id] = table

(* Two namespaces never share an identifier. *)
NamespaceIdsDiffer(cat) ==
    \A a, b \in DOMAIN cat.namespaces :
        cat.namespaces[a] = cat.namespaces[b] => a = b

TablesHaveNamespaces(cat) ==
    \A id \in DOMAIN cat.tables_by_id : \E ns \in DOMAIN cat.namespaces :
        cat.namespaces[ns] = cat.tables_by_id[id].namespace_id

CatalogOK(cat) ==
    /\ CatalogTypeOK(cat)
    /\ IdsBelowCounters(cat)
    /\ NamesResolve(cat)
    /\ NamespaceIdsDiffer(cat)
    /\ TablesHaveNamespaces(cat)

(* What is left of that in a catalog loaded from any snapshot at all.      *)
EntriesOK(cat) ==
    /\ CatalogTypeOK(cat)
    /\ IdsBelowCounters(cat)
    /\ \A id \in DOMAIN cat.tables_by_id : cat.tables_by_id[id].id = id

(* Tables no name leads to any more: a later table took the name over. *)
Shadowed(cat) ==
    {id \in DOMAIN cat.tables_by_id :
        ~ \E key \in DOMAIN cat.tables_by_name :
              cat.tables_by_name[key].id = id}
=============================================================================

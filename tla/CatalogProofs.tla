--------------------------- MODULE CatalogProofs ---------------------------
(***************************************************************************)
(* What the operations of a catalog preserve, for every set of names and   *)
(* schemas. The modules that keep a catalog in a variable cite these       *)
(* lemmas for the steps that change it.                                    *)
(***************************************************************************)
EXTENDS Catalog, FiniteSetTheorems, TLAPS

(* HashMap::insert keeps the type of a map. *)
LEMMA WithIsMap ==
    ASSUME NEW keys, NEW vals, NEW map, IsMap(map, keys, vals),
           NEW key \in keys, NEW value \in vals
    PROVE  IsMap(With(map, key, value), keys, vals)
  <1>1. IsFiniteSet(DOMAIN map \cup {key})
    BY FS_AddElement DEF IsMap
  <1> QED
    BY <1>1 DEF IsMap, With

(* HashMap::remove keeps the type of a map. *)
LEMMA WithoutIsMap ==
    ASSUME NEW keys, NEW vals, NEW map, IsMap(map, keys, vals), NEW key
    PROVE  IsMap(Without(map, key), keys, vals)
  <1>1. IsFiniteSet(DOMAIN map \ {key})
    BY FS_Subset DEF IsMap
  <1> QED
    BY <1>1 DEF IsMap, Without, Restrict

-----------------------------------------------------------------------------
(* A lookup that succeeds returns the metadata of a table the catalog has. *)
LEMMA GetTableOK ==
    ASSUME NEW cat, CatalogOK(cat), NEW ns, NEW name, HasTable(cat, ns, name)
    PROVE  /\ GetTable(cat, ns, name) \in TableMetas
           /\ GetTable(cat, ns, name).id \in DOMAIN cat.tables_by_id
  BY DEF CatalogOK, CatalogTypeOK, NamesResolve, IsMap, HasTable, GetTable

(* create_namespace keeps the catalog well formed and gives the namespace  *)
(* an identifier.                                                          *)
LEMMA CreateNamespaceOK ==
    ASSUME NEW cat, CatalogOK(cat), NEW ns \in Namespaces
    PROVE  /\ CatalogOK(CreateNamespace(cat, ns))
           /\ ns \in DOMAIN CreateNamespace(cat, ns).namespaces
           /\ CreateNamespace(cat, ns).next_table_id = cat.next_table_id
  <1>1. CASE ns \in DOMAIN cat.namespaces
    BY <1>1 DEF CreateNamespace
  <1>2. CASE ns \notin DOMAIN cat.namespaces
    <2> DEFINE next == [cat EXCEPT !.next_namespace_id = @ + 1,
                              !.namespaces = With(@, ns, cat.next_namespace_id)]
    <2>1. CreateNamespace(cat, ns) = next
      BY <1>2 DEF CreateNamespace
    <2>2. /\ DOMAIN next = DOMAIN cat
          /\ next.next_namespace_id = cat.next_namespace_id + 1
          /\ next.next_table_id = cat.next_table_id
          /\ next.namespaces = With(cat.namespaces, ns, cat.next_namespace_id)
          /\ next.tables_by_name = cat.tables_by_name
          /\ next.tables_by_id = cat.tables_by_id
      BY DEF CatalogOK, CatalogTypeOK
    <2> HIDE DEF next
    <2>3. CatalogTypeOK(next)
      BY <2>2, WithIsMap DEF CatalogOK, CatalogTypeOK
    <2>4. IdsBelowCounters(next)
      BY <2>2
         DEF CatalogOK, CatalogTypeOK, IdsBelowCounters, IsMap, With
    <2>5. NamesResolve(next)
      BY <2>2 DEF CatalogOK, NamesResolve
    <2>6. NamespaceIdsDiffer(next)
      BY <2>2
         DEF CatalogOK, CatalogTypeOK, IdsBelowCounters, NamespaceIdsDiffer, IsMap, With
    <2>7. ns \in DOMAIN next.namespaces
      BY <2>2 DEF With
    <2>8. TablesHaveNamespaces(next)
      BY <2>2, <1>2 DEF CatalogOK, TablesHaveNamespaces, With
    <2> QED
      BY <2>1, <2>2, <2>3, <2>4, <2>5, <2>6, <2>7, <2>8 DEF CatalogOK
  <1> QED
    BY <1>1, <1>2

(* create_table keeps the catalog well formed, though it may take the name *)
(* of an older table: the new identifier was never in use.                 *)
LEMMA CreateTableOK ==
    ASSUME NEW cat, CatalogOK(cat), NEW ns \in Namespaces, NEW name \in Names,
           NEW schema \in Schemas
    PROVE  /\ CatalogOK(CreateTable(cat, ns, name, schema))
           /\ NewTable(cat, ns, name, schema) \in TableMetas
  <1> DEFINE base  == CreateNamespace(cat, ns)
             table == NewTable(cat, ns, name, schema)
             next  == CreateTable(cat, ns, name, schema)
  <1>1. /\ CatalogOK(base)
        /\ ns \in DOMAIN base.namespaces
        /\ base.next_table_id = cat.next_table_id
    BY CreateNamespaceOK
  <1>2. /\ table = [id |-> base.next_table_id,
                    namespace_id |-> base.namespaces[ns],
                    name |-> name, schema |-> schema]
        /\ table \in TableMetas
    BY <1>1 DEF NewTable, TableMetas, CatalogOK, CatalogTypeOK, IsMap
  <1>3. /\ DOMAIN next = DOMAIN base
        /\ next.next_namespace_id = base.next_namespace_id
        /\ next.next_table_id = base.next_table_id + 1
        /\ next.namespaces = base.namespaces
        /\ next.tables_by_name = With(base.tables_by_name, <<table.namespace_id, name>>, table)
        /\ next.tables_by_id = With(base.tables_by_id, table.id, table)
    BY <1>1 DEF CreateTable, CatalogOK, CatalogTypeOK
  <1> HIDE DEF base, table, next
  <1>4. CatalogTypeOK(next)
    <2>1. <<table.namespace_id, name>> \in Nat \X Names /\ table.id \in Nat
      BY <1>2 DEF TableMetas
    <2>2. /\ IsMap(next.tables_by_name, Nat \X Names, TableMetas)
          /\ IsMap(next.tables_by_id, Nat, TableMetas)
      <3>1. /\ IsMap(base.tables_by_name, Nat \X Names, TableMetas)
            /\ IsMap(base.tables_by_id, Nat, TableMetas)
        BY <1>1 DEF CatalogOK, CatalogTypeOK
      <3> QED
        BY <1>2, <1>3, <2>1, <3>1, WithIsMap
    <2> QED
      BY <1>1, <1>3, <2>2 DEF CatalogOK, CatalogTypeOK
  <1>5. IdsBelowCounters(next)
    BY <1>1, <1>2, <1>3
       DEF CatalogOK, CatalogTypeOK, IdsBelowCounters, IsMap, With
  <1>6. NamesResolve(next)
    <2>1. table.id \notin DOMAIN base.tables_by_id
      BY <1>1, <1>2 DEF CatalogOK, CatalogTypeOK, IdsBelowCounters, IsMap
    <2>2. ASSUME NEW id \in DOMAIN next.tables_by_id
          PROVE  next.tables_by_id[id].id = id
      BY <1>1, <1>3 DEF CatalogOK, NamesResolve, With
    <2>3. ASSUME NEW key \in DOMAIN next.tables_by_name
          PROVE  LET t == next.tables_by_name[key]
                 IN  /\ NameOf(t) = key
                     /\ t.id \in DOMAIN next.tables_by_id
                     /\ next.tables_by_id[t.id] = t
      <3>1. CASE key = <<table.namespace_id, name>>
        BY <1>2, <1>3, <3>1 DEF NameOf, With
      <3>2. CASE key # <<table.namespace_id, name>>
        <4>1. key \in DOMAIN base.tables_by_name
              /\ next.tables_by_name[key] = base.tables_by_name[key]
          BY <1>3, <3>2 DEF With
        <4>2. LET t == base.tables_by_name[key]
              IN  /\ NameOf(t) = key
                  /\ t.id \in DOMAIN base.tables_by_id
                  /\ base.tables_by_id[t.id] = t
          BY <1>1, <4>1 DEF CatalogOK, NamesResolve
        <4> QED
          BY <1>3, <2>1, <4>1, <4>2 DEF With
      <3> QED
        BY <3>1, <3>2
    <2> QED
      BY <2>2, <2>3 DEF NamesResolve
  <1>7. NamespaceIdsDiffer(next)
    BY <1>1, <1>3 DEF CatalogOK, NamespaceIdsDiffer
  <1>8. TablesHaveNamespaces(next)
    <2>1. ASSUME NEW id \in DOMAIN next.tables_by_id
          PROVE  \E m \in DOMAIN next.namespaces :
                    next.namespaces[m] = next.tables_by_id[id].namespace_id
      <3>1. CASE id = table.id
        BY <1>1, <1>2, <1>3, <3>1 DEF With
      <3>2. CASE id # table.id
        BY <1>1, <1>3, <3>2 DEF CatalogOK, TablesHaveNamespaces, With
      <3> QED
        BY <3>1, <3>2
    <2> QED
      BY <2>1 DEF TablesHaveNamespaces
  <1> QED
    BY <1>2, <1>4, <1>5, <1>6, <1>7, <1>8 DEF CatalogOK, table, next

(* drop_table keeps the catalog well formed: it takes a name and the table *)
(* the name stands for out of both maps.                                   *)
LEMMA DropTableOK ==
    ASSUME NEW cat, CatalogOK(cat), NEW ns, NEW name
    PROVE  CatalogOK(DropTable(cat, ns, name))
  <1>1. CASE ~ HasTable(cat, ns, name)
    BY <1>1 DEF DropTable
  <1>2. CASE HasTable(cat, ns, name)
    <2> DEFINE gone == <<cat.namespaces[ns], name>>
               id   == GetTable(cat, ns, name).id
               next == DropTable(cat, ns, name)
    <2>1. /\ DOMAIN next = DOMAIN cat
          /\ next.next_namespace_id = cat.next_namespace_id
          /\ next.next_table_id = cat.next_table_id
          /\ next.namespaces = cat.namespaces
          /\ next.tables_by_name = Without(cat.tables_by_name, gone)
          /\ next.tables_by_id = Without(cat.tables_by_id, id)
      BY <1>2 DEF DropTable, CatalogOK, CatalogTypeOK
    <2>2. gone \in DOMAIN cat.tables_by_name /\ id = cat.tables_by_name[gone].id
      BY <1>2 DEF HasTable, GetTable
    <2> HIDE DEF gone, id, next
    <2>3. CatalogTypeOK(next)
      BY <2>1, WithoutIsMap DEF CatalogOK, CatalogTypeOK
    <2>4. IdsBelowCounters(next)
      BY <2>1 DEF CatalogOK, IdsBelowCounters, Without, Restrict
    <2>5. NamesResolve(next)
      <3>1. ASSUME NEW i \in DOMAIN next.tables_by_id
            PROVE  next.tables_by_id[i].id = i
        BY <2>1 DEF CatalogOK, NamesResolve, Without, Restrict
      <3>2. ASSUME NEW key \in DOMAIN next.tables_by_name
            PROVE  LET t == next.tables_by_name[key]
                   IN  /\ NameOf(t) = key
                       /\ t.id \in DOMAIN next.tables_by_id
                       /\ next.tables_by_id[t.id] = t
        <4>1. /\ key \in DOMAIN cat.tables_by_name /\ key # gone
              /\ next.tables_by_name[key] = cat.tables_by_name[key]
          BY <2>1 DEF Without, Restrict
        <4>2. /\ NameOf(cat.tables_by_name[key]) = key
              /\ cat.tables_by_name[key].id \in DOMAIN cat.tables_by_id
              /\ cat.tables_by_id[cat.tables_by_name[key].id]
                    = cat.tables_by_name[key]
          BY <4>1 DEF CatalogOK, NamesResolve
        <4>3. /\ NameOf(cat.tables_by_name[gone]) = gone
              /\ cat.tables_by_id[id] = cat.tables_by_name[gone]
          BY <2>2 DEF CatalogOK, NamesResolve
        <4>4. cat.tables_by_name[key].id # id
          BY <4>1, <4>2, <4>3
        <4> QED
          BY <2>1, <4>1, <4>2, <4>4 DEF Without, Restrict
      <3> QED
        BY <3>1, <3>2 DEF NamesResolve
    <2>6. NamespaceIdsDiffer(next)
      BY <2>1 DEF CatalogOK, NamespaceIdsDiffer
    <2>7. TablesHaveNamespaces(next)
      BY <2>1 DEF CatalogOK, TablesHaveNamespaces, Without, Restrict
    <2> QED
      BY <2>3, <2>4, <2>5, <2>6, <2>7 DEF CatalogOK, next
  <1> QED
    BY <1>1, <1>2

-----------------------------------------------------------------------------
(* What the operations do to the names and tables of a catalog. *)

(* Two names never lead to one table. *)
LEMMA NamesDiffer ==
    ASSUME NEW cat, CatalogOK(cat), NEW ns, NEW name, NEW m, NEW n,
           HasTable(cat, ns, name), HasTable(cat, m, n),
           GetTable(cat, ns, name).id = GetTable(cat, m, n).id
    PROVE  ns = m /\ name = n
  <1>1. /\ NameOf(GetTable(cat, ns, name)) = <<cat.namespaces[ns], name>>
        /\ NameOf(GetTable(cat, m, n)) = <<cat.namespaces[m], n>>
        /\ GetTable(cat, ns, name) = GetTable(cat, m, n)
    BY DEF CatalogOK, NamesResolve, HasTable, GetTable
  <1>2. cat.namespaces[ns] = cat.namespaces[m] /\ name = n
    BY <1>1
  <1> QED
    BY <1>2 DEF CatalogOK, NamespaceIdsDiffer, HasTable

(* A lookup returns the table under the identifier it returns. *)
LEMMA GetTableById ==
    ASSUME NEW cat, CatalogOK(cat), NEW ns, NEW name, HasTable(cat, ns, name)
    PROVE  LET table == GetTable(cat, ns, name)
           IN  /\ table.id \in DOMAIN cat.tables_by_id
               /\ cat.tables_by_id[table.id] = table
               /\ table.id \in Nat /\ table.id < cat.next_table_id
  BY DEF CatalogOK, CatalogTypeOK, IdsBelowCounters, NamesResolve, IsMap,
         HasTable, GetTable

(* create_table adds one table, under an identifier that is new, and gives *)
(* it one name; every other name stays what it was.                        *)
LEMMA CreateTableAdds ==
    ASSUME NEW cat, CatalogOK(cat), NEW ns \in Namespaces, NEW name \in Names,
           NEW schema \in Schemas
    PROVE  LET table == NewTable(cat, ns, name, schema)
               next  == CreateTable(cat, ns, name, schema)
           IN  /\ table.id = cat.next_table_id /\ table.schema = schema
               /\ next.next_table_id = cat.next_table_id + 1
               /\ DOMAIN next.tables_by_id = DOMAIN cat.tables_by_id \cup {table.id}
               /\ next.tables_by_id[table.id] = table
               /\ \A id \in DOMAIN cat.tables_by_id :
                     next.tables_by_id[id] = cat.tables_by_id[id]
               /\ HasTable(next, ns, name) /\ GetTable(next, ns, name) = table
               /\ \A m, n : <<m, n>> # <<ns, name>> =>
                     /\ HasTable(next, m, n) <=> HasTable(cat, m, n)
                     /\ HasTable(cat, m, n) =>
                           GetTable(next, m, n) = GetTable(cat, m, n)
  <1> DEFINE base  == CreateNamespace(cat, ns)
             table == NewTable(cat, ns, name, schema)
             next  == CreateTable(cat, ns, name, schema)
  <1>1. /\ CatalogOK(base)
        /\ ns \in DOMAIN base.namespaces
        /\ base.next_table_id = cat.next_table_id
    BY CreateNamespaceOK
  <1>2. /\ base.tables_by_name = cat.tables_by_name
        /\ base.tables_by_id = cat.tables_by_id
        /\ DOMAIN base.namespaces = DOMAIN cat.namespaces \cup {ns}
        /\ \A m \in DOMAIN cat.namespaces : base.namespaces[m] = cat.namespaces[m]
        /\ ns \notin DOMAIN cat.namespaces => base.namespaces[ns] = cat.next_namespace_id
    BY DEF CreateNamespace, With, CatalogOK, CatalogTypeOK
  <1>3. /\ next.next_table_id = base.next_table_id + 1
        /\ next.namespaces = base.namespaces
        /\ next.tables_by_name = With(base.tables_by_name, <<table.namespace_id, name>>, table)
        /\ next.tables_by_id = With(base.tables_by_id, table.id, table)
    BY <1>1 DEF CreateTable, CatalogOK, CatalogTypeOK
  <1>4. /\ table.id = cat.next_table_id /\ table.schema = schema
        /\ table.namespace_id = base.namespaces[ns]
    BY DEF NewTable
  <1>5. cat.next_table_id \notin DOMAIN cat.tables_by_id
    BY DEF CatalogOK, CatalogTypeOK, IdsBelowCounters, IsMap
  <1>6. ns \notin DOMAIN cat.namespaces =>
            \A key \in DOMAIN cat.tables_by_name : key[1] # cat.next_namespace_id
    <2> SUFFICES ASSUME NEW key \in DOMAIN cat.tables_by_name
                 PROVE  key[1] # cat.next_namespace_id
      OBVIOUS
    <2>1. PICK m \in DOMAIN cat.namespaces :
             cat.namespaces[m] = cat.tables_by_name[key].namespace_id
      BY DEF CatalogOK, NamesResolve, TablesHaveNamespaces
    <2>2. key[1] = cat.tables_by_name[key].namespace_id
      BY DEF CatalogOK, NamesResolve, NameOf
    <2> QED
      BY <2>1, <2>2 DEF CatalogOK, CatalogTypeOK, IdsBelowCounters, IsMap
  <1> HIDE DEF base, table, next
  <1>7. HasTable(next, ns, name) /\ GetTable(next, ns, name) = table
    BY <1>1, <1>3, <1>4 DEF HasTable, GetTable, With
  <1>8. ASSUME NEW m, NEW n, <<m, n>> # <<ns, name>>
        PROVE  /\ HasTable(next, m, n) <=> HasTable(cat, m, n)
               /\ HasTable(cat, m, n) => GetTable(next, m, n) = GetTable(cat, m, n)
    <2>1. m \in DOMAIN base.namespaces =>
             <<base.namespaces[m], n>> # <<table.namespace_id, name>>
      BY <1>1, <1>4, <1>8 DEF CatalogOK, NamespaceIdsDiffer
    <2>2. HasTable(next, m, n) <=>
             /\ m \in DOMAIN base.namespaces
             /\ <<base.namespaces[m], n>> \in DOMAIN cat.tables_by_name
      BY <1>2, <1>3, <2>1 DEF HasTable, With
    <2>3. CASE m \in DOMAIN cat.namespaces
      BY <1>2, <1>3, <2>1, <2>2, <2>3 DEF HasTable, GetTable, With
    <2>4. CASE m \notin DOMAIN cat.namespaces
      <3>1. ~ HasTable(cat, m, n)
        BY <2>4 DEF HasTable
      <3>2. ~ HasTable(next, m, n)
        BY <1>2, <1>6, <2>2, <2>4
      <3> QED
        BY <3>1, <3>2
    <2> QED
      BY <2>3, <2>4
  <1>9. /\ DOMAIN next.tables_by_id = DOMAIN cat.tables_by_id \cup {table.id}
        /\ next.tables_by_id[table.id] = table
        /\ \A id \in DOMAIN cat.tables_by_id :
              next.tables_by_id[id] = cat.tables_by_id[id]
    BY <1>2, <1>3, <1>4, <1>5 DEF With
  <1> QED
    BY <1>1, <1>3, <1>4, <1>7, <1>8, <1>9 DEF table, next

(* drop_table takes out one table and its name, and nothing else.          *)
LEMMA DropTableRemoves ==
    ASSUME NEW cat, CatalogOK(cat), NEW ns, NEW name, HasTable(cat, ns, name)
    PROVE  LET table == GetTable(cat, ns, name)
               next  == DropTable(cat, ns, name)
           IN  /\ next.next_table_id = cat.next_table_id
               /\ DOMAIN next.tables_by_id = DOMAIN cat.tables_by_id \ {table.id}
               /\ \A id \in DOMAIN next.tables_by_id :
                     next.tables_by_id[id] = cat.tables_by_id[id]
               /\ ~ HasTable(next, ns, name)
               /\ \A m, n : <<m, n>> # <<ns, name>> =>
                     /\ HasTable(next, m, n) <=> HasTable(cat, m, n)
                     /\ HasTable(cat, m, n) =>
                           GetTable(next, m, n) = GetTable(cat, m, n)
  <1> DEFINE gone == <<cat.namespaces[ns], name>>
             id   == GetTable(cat, ns, name).id
             next == DropTable(cat, ns, name)
  <1>1. /\ next.next_table_id = cat.next_table_id
        /\ next.namespaces = cat.namespaces
        /\ next.tables_by_name = Without(cat.tables_by_name, gone)
        /\ next.tables_by_id = Without(cat.tables_by_id, id)
    BY DEF DropTable, CatalogOK, CatalogTypeOK
  <1>2. ASSUME NEW m, NEW n, m \in DOMAIN cat.namespaces, <<m, n>> # <<ns, name>>
        PROVE  <<cat.namespaces[m], n>> # gone
    BY <1>2 DEF HasTable, CatalogOK, NamespaceIdsDiffer
  <1>3. gone = <<cat.namespaces[ns], name>>
    OBVIOUS
  <1> HIDE DEF gone, id, next
  <1>4. /\ DOMAIN next.tables_by_id = DOMAIN cat.tables_by_id \ {id}
        /\ \A i \in DOMAIN next.tables_by_id : next.tables_by_id[i] = cat.tables_by_id[i]
    BY <1>1 DEF Without, Restrict
  <1>5. ~ HasTable(next, ns, name)
    BY <1>1, <1>3 DEF HasTable, Without, Restrict
  <1>6. \A m, n : <<m, n>> # <<ns, name>> =>
           /\ HasTable(next, m, n) <=> HasTable(cat, m, n)
           /\ HasTable(cat, m, n) => GetTable(next, m, n) = GetTable(cat, m, n)
    BY <1>1, <1>2 DEF HasTable, GetTable, Without, Restrict
  <1> QED
    BY <1>1, <1>4, <1>5, <1>6 DEF id, next

-----------------------------------------------------------------------------
(* What the operations keep of a catalog that any snapshot may have left.  *)

(* create_namespace: the namespace has an identifier below the counter.    *)
LEMMA CreateNamespaceEntries ==
    ASSUME NEW cat, EntriesOK(cat), NEW ns \in Namespaces
    PROVE  /\ EntriesOK(CreateNamespace(cat, ns))
           /\ ns \in DOMAIN CreateNamespace(cat, ns).namespaces
  <1>1. CASE ns \in DOMAIN cat.namespaces
    BY <1>1 DEF CreateNamespace
  <1>2. CASE ns \notin DOMAIN cat.namespaces
    <2> DEFINE next == CreateNamespace(cat, ns)
    <2>1. /\ DOMAIN next = DOMAIN cat
          /\ next.next_namespace_id = cat.next_namespace_id + 1
          /\ next.next_table_id = cat.next_table_id
          /\ next.namespaces = With(cat.namespaces, ns, cat.next_namespace_id)
          /\ next.tables_by_name = cat.tables_by_name
          /\ next.tables_by_id = cat.tables_by_id
      BY <1>2 DEF CreateNamespace, EntriesOK, CatalogTypeOK
    <2> HIDE DEF next
    <2>2. CatalogTypeOK(next)
      BY <2>1, WithIsMap DEF EntriesOK, CatalogTypeOK
    <2>3. IdsBelowCounters(next)
      BY <2>1 DEF EntriesOK, CatalogTypeOK, IdsBelowCounters, IsMap, With
    <2> QED
      BY <2>1, <2>2, <2>3 DEF EntriesOK, With, next
  <1> QED
    BY <1>1, <1>2

(* create_table: the table takes an identifier no entry has.               *)
LEMMA CreateTableEntries ==
    ASSUME NEW cat, EntriesOK(cat), NEW ns \in Namespaces, NEW name \in Names,
           NEW schema \in Schemas
    PROVE  EntriesOK(CreateTable(cat, ns, name, schema))
  <1> DEFINE base  == CreateNamespace(cat, ns)
             table == NewTable(cat, ns, name, schema)
             next  == CreateTable(cat, ns, name, schema)
  <1>1. /\ EntriesOK(base)
        /\ ns \in DOMAIN base.namespaces
        /\ base.next_table_id = cat.next_table_id
    <2>1. base.next_table_id = cat.next_table_id
      BY DEF CreateNamespace, EntriesOK, CatalogTypeOK
    <2> QED
      BY <2>1, CreateNamespaceEntries
  <1>2. /\ table.id = base.next_table_id /\ table \in TableMetas
        /\ <<table.namespace_id, name>> \in Nat \X Names
    BY <1>1 DEF NewTable, TableMetas, EntriesOK, CatalogTypeOK, IsMap
  <1>3. /\ DOMAIN next = DOMAIN base
        /\ next.next_namespace_id = base.next_namespace_id
        /\ next.next_table_id = base.next_table_id + 1
        /\ next.namespaces = base.namespaces
        /\ next.tables_by_name = With(base.tables_by_name, <<table.namespace_id, name>>, table)
        /\ next.tables_by_id = With(base.tables_by_id, table.id, table)
    BY <1>1 DEF CreateTable, EntriesOK, CatalogTypeOK
  <1> HIDE DEF base, table, next
  <1>4. CatalogTypeOK(next)
    <2>1. /\ IsMap(next.tables_by_name, Nat \X Names, TableMetas)
          /\ IsMap(next.tables_by_id, Nat, TableMetas)
      <3>1. /\ IsMap(base.tables_by_name, Nat \X Names, TableMetas)
            /\ IsMap(base.tables_by_id, Nat, TableMetas)
            /\ table.id \in Nat
        BY <1>1, <1>2 DEF EntriesOK, CatalogTypeOK
      <3> QED
        BY <1>2, <1>3, <3>1, WithIsMap
    <2> QED
      BY <1>1, <1>3, <2>1 DEF EntriesOK, CatalogTypeOK
  <1>5. IdsBelowCounters(next)
    BY <1>1, <1>2, <1>3
       DEF EntriesOK, CatalogTypeOK, IdsBelowCounters, IsMap, With
  <1>6. \A id \in DOMAIN next.tables_by_id : next.tables_by_id[id].id = id
    BY <1>1, <1>3 DEF EntriesOK, With
  <1> QED
    BY <1>4, <1>5, <1>6 DEF EntriesOK, next

(* drop_table only takes entries out.                                      *)
LEMMA DropTableEntries ==
    ASSUME NEW cat, EntriesOK(cat), NEW ns, NEW name
    PROVE  EntriesOK(DropTable(cat, ns, name))
  <1>1. CASE ~ HasTable(cat, ns, name)
    BY <1>1 DEF DropTable
  <1>2. CASE HasTable(cat, ns, name)
    <2> DEFINE gone == <<cat.namespaces[ns], name>>
               id   == GetTable(cat, ns, name).id
               next == DropTable(cat, ns, name)
    <2>1. /\ DOMAIN next = DOMAIN cat
          /\ next.next_namespace_id = cat.next_namespace_id
          /\ next.next_table_id = cat.next_table_id
          /\ next.namespaces = cat.namespaces
          /\ next.tables_by_name = Without(cat.tables_by_name, gone)
          /\ next.tables_by_id = Without(cat.tables_by_id, id)
      BY <1>2 DEF DropTable, EntriesOK, CatalogTypeOK
    <2> HIDE DEF gone, id, next
    <2>2. CatalogTypeOK(next)
      BY <2>1, WithoutIsMap DEF EntriesOK, CatalogTypeOK
    <2>3. /\ IdsBelowCounters(next)
          /\ \A i \in DOMAIN next.tables_by_id : next.tables_by_id[i].id = i
      BY <2>1 DEF EntriesOK, IdsBelowCounters, Without, Restrict
    <2> QED
      BY <2>2, <2>3 DEF EntriesOK, next
  <1> QED
    BY <1>1, <1>2
=============================================================================

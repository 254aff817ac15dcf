------------------------- MODULE CatalogFileProofs -------------------------
(***************************************************************************)
(* What a restart finds: a catalog that was written and read again is well *)
(* formed and has every table and namespace it had, for any number of      *)
(* processes, names and tables.                                            *)
(***************************************************************************)
EXTENDS CatalogFile, CatalogProofs, WellFoundedInduction, TLAPS

(* A set of numbers below a bound has a largest one. *)
LEMMA MaxOfBounded ==
    ASSUME NEW S \in SUBSET Nat, S # {}, NEW bound \in Nat, \A x \in S : x <= bound
    PROVE  Max(S) \in S /\ \A x \in S : x <= Max(S)
  <1> DEFINE R == OpToRel(<, Nat)
             Below == {bound - x : x \in S}
  <1>1. IsWellFoundedOn(R, Nat)
    BY NatLessThanWellFounded
  <1>2. Below \subseteq Nat /\ Below # {}
    <2>1. PICK x \in S : TRUE
      OBVIOUS
    <2>2. bound - x \in Below
      OBVIOUS
    <2>3. \A y \in S : y \in Nat /\ bound - y \in Nat
      OBVIOUS
    <2> QED
      BY <2>2, <2>3
  <1>3. PICK least \in Below : \A y \in Below : ~ (<<y, least>> \in R)
    <2> HIDE DEF R, Below
    <2> QED
      BY <1>1, <1>2, WFMin
  <1>4. PICK max \in S : least = bound - max
    BY <1>3
  <1>5. ASSUME NEW x \in S PROVE x <= max
    <2>1. bound - x \in Below /\ bound - x \in Nat /\ least \in Nat
      BY <1>2, <1>3
    <2>2. ~ (bound - x < least)
      BY <1>3, <2>1 DEF OpToRel
    <2> QED
      BY <1>4, <2>1, <2>2
  <1> QED
    BY <1>4, <1>5 DEF Max

(* Finitely many numbers have a bound. *)
LEMMA ListIsBounded ==
    ASSUME NEW n \in Nat, NEW f \in [1..n -> Nat]
    PROVE  \E bound \in Nat : \A i \in 1..n : f[i] <= bound
  <1> DEFINE R       == OpToRel(<, Nat)
             Good(k) == \E bound \in Nat : \A i \in 1..k : f[i] <= bound
             Bad     == {k \in 0..n : ~ Good(k)}
  <1>1. SUFFICES ASSUME Bad # {} PROVE FALSE
    <2>1. n \in 0..n
      OBVIOUS
    <2> HIDE DEF Good
    <2>2. Good(n)
      BY <2>1
    <2> QED
      BY <2>2 DEF Good
  <1>2. PICK k \in Bad : \A j \in Bad : ~ (<<j, k>> \in R)
    <2>1. IsWellFoundedOn(R, Nat)
      BY NatLessThanWellFounded
    <2> HIDE DEF R, Good
    <2>2. Bad \subseteq Nat
      OBVIOUS
    <2> HIDE DEF Bad
    <2> QED
      BY <1>1, <2>1, <2>2, WFMin
  <1>3. k # 0
    <2>1. Good(0)
      <3>1. 0 \in Nat /\ \A i \in 1..0 : f[i] <= 0
        OBVIOUS
      <3> QED
        BY <3>1
    <2> QED
      BY <1>2, <2>1
  <1>4. Good(k - 1)
    <2>1. k - 1 \in 0..n /\ k - 1 \in Nat /\ k \in Nat /\ k - 1 < k
      BY <1>3
    <2>2. <<k - 1, k>> \in R
      BY <2>1 DEF OpToRel
    <2> HIDE DEF Good, R
    <2> QED
      BY <1>2, <2>1, <2>2
  <1>5. PICK bound \in Nat : \A i \in 1..(k - 1) : f[i] <= bound
    BY <1>4
  <1>6. f[k] \in Nat /\ bound + f[k] \in Nat
    BY <1>3
  <1>7. ASSUME NEW i \in 1..k PROVE f[i] <= bound + f[k]
    <2>1. CASE i = k
      BY <1>6, <2>1
    <2>2. CASE i # k
      <3>1. i \in 1..(k - 1) /\ f[i] \in Nat
        BY <2>2
      <3> QED
        BY <1>5, <1>6, <3>1
    <2> QED
      BY <2>1, <2>2
  <1> QED
    BY <1>2, <1>6, <1>7

(* load_snapshot: the counter is above every identifier of the snapshot.   *)
LEMMA MaxOfList ==
    ASSUME NEW n \in Nat, NEW f \in [1..n -> Nat], NEW S,
           S = {0} \cup {f[i] : i \in 1..n}
    PROVE  Max(S) \in Nat /\ \A i \in 1..n : f[i] <= Max(S)
  <1>1. PICK bound \in Nat : \A i \in 1..n : f[i] <= bound
    BY ListIsBounded
  <1>2. S \in SUBSET Nat /\ S # {} /\ \A x \in S : x <= bound
    BY <1>1
  <1>3. Max(S) \in S /\ \A x \in S : x <= Max(S)
    BY <1>2, MaxOfBounded
  <1> QED
    BY <1>2, <1>3

(* Catalog::new *)
LEMMA EmptyCatalogOK == CatalogOK(EmptyCatalog)
  <1>1. DOMAIN <<>> = {}
    OBVIOUS
  <1>2. \A keys, vals : IsMap(<<>>, keys, vals)
    <2>1. <<>> = [x \in {} |-> x]
      OBVIOUS
    <2> QED
      BY <2>1, FS_EmptySet DEF IsMap
  <1> QED
    BY <1>1, <1>2
       DEF EmptyCatalog, CatalogOK, CatalogTypeOK, IdsBelowCounters, NamesResolve,
           NamespaceIdsDiffer, TablesHaveNamespaces

(* The keys of a map are those of n entries, each with the value of one.   *)
HasEntries(map, n, entries) ==
    /\ \A i \in 1..n : entries[i][1] \in DOMAIN map
    /\ \A key \in DOMAIN map : \E i \in 1..n : entries[i] = <<key, map[key]>>

(* HashMap::insert of a list of entries makes such a map.                  *)
LEMMA MapOfEntries ==
    ASSUME NEW keys, NEW vals, NEW n \in Nat, NEW entries \in [1..n -> keys \X vals]
    PROVE  IsMap(MapOf(entries), keys, vals) /\ HasEntries(MapOf(entries), n, entries)
  <1> DEFINE map     == MapOf(entries)
             used    == {entries[i][1] : i \in 1..n}
             At(key) == {i \in 1..n : entries[i][1] = key}
  <1>1. map = [key \in used |-> entries[Max(At(key))][2]]
    BY DEF MapOf
  <1>2. ASSUME NEW key \in used PROVE Max(At(key)) \in 1..n /\ entries[Max(At(key))][1] = key
    <2>1. /\ At(key) \in SUBSET Nat /\ At(key) # {}
          /\ \A x \in At(key) : x <= n
      OBVIOUS
    <2>2. Max(At(key)) \in At(key)
      <3> HIDE DEF At
      <3> QED
        BY <2>1, MaxOfBounded
    <2> QED
      BY <2>2
  <1>3. \A i \in 1..n : entries[i] \in keys \X vals
    OBVIOUS
  <1>4. IsFiniteSet(used)
    <2> DEFINE key == [i \in 1..n |-> entries[i][1]]
    <2>1. key \in Surjection(1..n, used)
      BY DEF Surjection
    <2>2. IsFiniteSet(1..n)
      BY FS_Interval
    <2> QED
      BY <2>1, <2>2, FS_Surjection
  <1> HIDE DEF map, At
  <1>5. \A key \in used : map[key] \in vals
    BY <1>1, <1>2, <1>3
  <1>6. used \subseteq keys
    BY <1>3
  <1>7. ASSUME NEW key \in used PROVE \E i \in 1..n : entries[i] = <<key, map[key]>>
    <2>1. entries[Max(At(key))] \in keys \X vals
      BY <1>2, <1>3
    <2>2. map[key] = entries[Max(At(key))][2]
      BY <1>1
    <2> QED
      BY <1>2, <2>1, <2>2
  <1>8. DOMAIN map = used /\ map \in [DOMAIN map -> vals]
    BY <1>1, <1>5
  <1>9. IsMap(map, keys, vals)
    BY <1>4, <1>6, <1>8 DEF IsMap
  <1> QED
    BY <1>7, <1>8, <1>9 DEF HasEntries, map

(* A list of a finite set, as a HashMap's iterator makes it, has all of    *)
(* the set.                                                                *)
LEMMA ListsAll ==
    ASSUME NEW S, IsFiniteSet(S), NEW list \in SetToSeqs(S)
    PROVE  /\ Cardinality(S) \in Nat /\ list \in [1..Cardinality(S) -> S]
           /\ ToSet(list) = S
  <1> DEFINE D == 1..Cardinality(S)
  <1>1. Cardinality(S) \in Nat
    BY FS_CardinalityType
  <1>2. list \in Injection(D, S)
    BY DEF SetToSeqs, Injection, IsInjective
  <1>3. IsFiniteSet(D) /\ Cardinality(D) = Cardinality(S)
    BY <1>1, FS_Interval
  <1>4. list \in Surjection(D, S)
    BY <1>2, <1>3, FS_Injection
  <1> QED
    BY <1>1, <1>4 DEF Surjection, ToSet

(* A catalog has the n namespaces and m tables of a snapshot, unless later *)
(* ones have taken their place.                                            *)
IsLoadedFrom(loaded, n, m, s) ==
    /\ EntriesOK(loaded)
    /\ HasEntries(loaded.namespaces, n, s.namespaces)
    /\ \A i \in 1..m : /\ NameOf(s.tables[i]) \in DOMAIN loaded.tables_by_name
                       /\ s.tables[i].id \in DOMAIN loaded.tables_by_id
    /\ \A key \in DOMAIN loaded.tables_by_name : \E i \in 1..m :
          s.tables[i] = loaded.tables_by_name[key] /\ NameOf(s.tables[i]) = key
    /\ \A id \in DOMAIN loaded.tables_by_id : \E i \in 1..m :
          s.tables[i] = loaded.tables_by_id[id] /\ s.tables[i].id = id

(* What load_snapshot makes of a snapshot, whatever is in it.              *)
LEMMA LoadedEntries ==
    ASSUME NEW n \in Nat, NEW m \in Nat, NEW s,
           s.namespaces \in [1..n -> Namespaces \X Nat],
           s.tables \in [1..m -> TableMetas]
    PROVE  IsLoadedFrom(LoadSnapshot(s), n, m, s)
  <1> DEFINE loaded == LoadSnapshot(s)
             names  == [i \in 1..m |-> <<NameOf(s.tables[i]), s.tables[i]>>]
             ids    == [i \in 1..m |-> <<s.tables[i].id, s.tables[i]>>]
  <1>1. \A i \in 1..m : /\ s.tables[i] \in TableMetas /\ s.tables[i].id \in Nat
                        /\ NameOf(s.tables[i]) \in Nat \X Names
    BY DEF TableMetas, NameOf
  <1>2. /\ names \in [1..m -> (Nat \X Names) \X TableMetas]
        /\ ids \in [1..m -> Nat \X TableMetas]
    BY <1>1
  <1>3. /\ loaded.namespaces = MapOf(s.namespaces)
        /\ loaded.tables_by_name = MapOf(names)
        /\ loaded.tables_by_id = MapOf(ids)
        /\ loaded.next_namespace_id = Max({0} \cup NamespaceIds(s)) + 1
        /\ loaded.next_table_id = Max({0} \cup TableIds(s)) + 1
        /\ DOMAIN loaded = {"next_namespace_id", "next_table_id", "namespaces",
                            "tables_by_name", "tables_by_id"}
    BY DEF LoadSnapshot, ByName, ById
  <1> HIDE DEF loaded
  <1>4. /\ IsMap(loaded.namespaces, Namespaces, Nat)
        /\ HasEntries(loaded.namespaces, n, s.namespaces)
    <2> DEFINE list == s.namespaces
    <2>1. list \in [1..n -> Namespaces \X Nat]
      OBVIOUS
    <2> HIDE DEF list
    <2>2. IsMap(MapOf(list), Namespaces, Nat) /\ HasEntries(MapOf(list), n, list)
      BY <2>1, MapOfEntries, Zenon
    <2> QED
      BY <1>3, <2>2 DEF list
  <1>5. /\ IsMap(loaded.tables_by_name, Nat \X Names, TableMetas)
        /\ \A i \in 1..m : NameOf(s.tables[i]) \in DOMAIN loaded.tables_by_name
        /\ \A key \in DOMAIN loaded.tables_by_name : \E i \in 1..m :
              /\ s.tables[i] = loaded.tables_by_name[key]
              /\ NameOf(s.tables[i]) = key
    <2> HIDE DEF names
    <2>1. IsMap(MapOf(names), Nat \X Names, TableMetas) /\ HasEntries(MapOf(names), m, names)
      BY <1>2, MapOfEntries, Zenon
    <2> QED
      BY <1>3, <2>1 DEF names, HasEntries
  <1>6. /\ IsMap(loaded.tables_by_id, Nat, TableMetas)
        /\ \A i \in 1..m : s.tables[i].id \in DOMAIN loaded.tables_by_id
        /\ \A id \in DOMAIN loaded.tables_by_id : \E i \in 1..m :
              s.tables[i] = loaded.tables_by_id[id] /\ s.tables[i].id = id
    <2> HIDE DEF ids
    <2>1. IsMap(MapOf(ids), Nat, TableMetas) /\ HasEntries(MapOf(ids), m, ids)
      BY <1>2, MapOfEntries, Zenon
    <2> QED
      BY <1>3, <2>1 DEF ids, HasEntries
  <1> HIDE DEF names, ids
  <1>7. /\ loaded.next_namespace_id \in Nat
        /\ \A i \in 1..n : s.namespaces[i][2] < loaded.next_namespace_id
    <2> DEFINE number == [i \in 1..n |-> s.namespaces[i][2]]
               S      == {0} \cup NamespaceIds(s)
    <2>1. number \in [1..n -> Nat] /\ \A i \in 1..n : number[i] = s.namespaces[i][2]
      OBVIOUS
    <2>2. S = {0} \cup {number[i] : i \in 1..n}
      BY DEF NamespaceIds, ToSet
    <2> HIDE DEF S, number
    <2>3. Max(S) \in Nat /\ \A i \in 1..n : number[i] <= Max(S)
      BY <2>1, <2>2, MaxOfList
    <2>4. loaded.next_namespace_id = Max(S) + 1
      BY <1>3 DEF S
    <2>5. \A i \in 1..n : number[i] \in Nat
      BY <2>1
    <2> QED
      BY <2>1, <2>3, <2>4, <2>5
  <1>8. /\ loaded.next_table_id \in Nat
        /\ \A i \in 1..m : s.tables[i].id < loaded.next_table_id
    <2> DEFINE number == [i \in 1..m |-> s.tables[i].id]
               S      == {0} \cup TableIds(s)
    <2>1. number \in [1..m -> Nat] /\ \A i \in 1..m : number[i] = s.tables[i].id
      BY <1>1
    <2>2. S = {0} \cup {number[i] : i \in 1..m}
      BY DEF TableIds, ToSet
    <2> HIDE DEF S, number
    <2>3. Max(S) \in Nat /\ \A i \in 1..m : number[i] <= Max(S)
      BY <2>1, <2>2, MaxOfList
    <2>4. loaded.next_table_id = Max(S) + 1
      BY <1>3 DEF S
    <2>5. \A i \in 1..m : number[i] \in Nat
      BY <2>1
    <2> QED
      BY <2>1, <2>3, <2>4, <2>5
  <1>9. CatalogTypeOK(loaded)
    BY <1>3, <1>4, <1>5, <1>6, <1>7, <1>8 DEF CatalogTypeOK
  <1>10. IdsBelowCounters(loaded)
    <2>1. ASSUME NEW ns \in DOMAIN loaded.namespaces
          PROVE  loaded.namespaces[ns] < loaded.next_namespace_id
      <3>1. PICK i \in 1..n : s.namespaces[i] = <<ns, loaded.namespaces[ns]>>
        BY <1>4 DEF HasEntries
      <3> QED
        BY <1>7, <3>1
    <2> QED
      BY <1>6, <1>8, <2>1 DEF IdsBelowCounters
  <1> QED
    BY <1>4, <1>5, <1>6, <1>9, <1>10 DEF EntriesOK, IsLoadedFrom, loaded

(* What load_snapshot finds in what to_snapshot wrote: every entry of both *)
(* maps, in some order.                                                    *)
LEMMA SnapshotEntries ==
    ASSUME NEW c, EntriesOK(c), NEW s \in Snapshots(c)
    PROVE  LET entries == NamespaceEntries(c)
               tables  == Range(c.tables_by_id)
               n       == Cardinality(entries)
               m       == Cardinality(tables)
           IN  /\ s.namespaces \in [1..n -> entries]
               /\ \A e \in entries : \E i \in 1..n : s.namespaces[i] = e
               /\ s.tables \in [1..m -> tables]
               /\ \A table \in tables : \E i \in 1..m : s.tables[i] = table
               /\ IsLoadedFrom(LoadSnapshot(s), n, m, s)
  <1> DEFINE tables  == Range(c.tables_by_id)
             entries == NamespaceEntries(c)
             n       == Cardinality(entries)
             m       == Cardinality(tables)
  <1>1. IsMap(c.namespaces, Namespaces, Nat) /\ IsMap(c.tables_by_id, Nat, TableMetas)
    BY DEF EntriesOK, CatalogTypeOK
  <1>2. IsFiniteSet(tables) /\ tables \subseteq TableMetas
    <2>1. c.tables_by_id \in Surjection(DOMAIN c.tables_by_id, tables)
      BY <1>1 DEF IsMap, Surjection, Range
    <2> QED
      BY <1>1, <2>1, FS_Surjection DEF IsMap, Range
  <1>3. IsFiniteSet(entries) /\ entries \subseteq Namespaces \X Nat
    <2> DEFINE entry == [ns \in DOMAIN c.namespaces |-> <<ns, c.namespaces[ns]>>]
    <2>1. entry \in Surjection(DOMAIN c.namespaces, entries)
      BY DEF Surjection, NamespaceEntries
    <2>2. IsFiniteSet(entries)
      BY <1>1, <2>1, FS_Surjection DEF IsMap
    <2> QED
      BY <1>1, <2>2 DEF IsMap, NamespaceEntries
  <1>4. s.namespaces \in SetToSeqs(entries) /\ s.tables \in SetToSeqs(tables)
    BY DEF Snapshots
  <1> HIDE DEF tables, entries
  <1>5. n \in Nat /\ s.namespaces \in [1..n -> entries] /\ ToSet(s.namespaces) = entries
    BY <1>3, <1>4, ListsAll
  <1>6. m \in Nat /\ s.tables \in [1..m -> tables] /\ ToSet(s.tables) = tables
    BY <1>2, <1>4, ListsAll
  <1> HIDE DEF n, m
  <1>7. s.namespaces \in [1..n -> Namespaces \X Nat] /\ s.tables \in [1..m -> TableMetas]
    BY <1>2, <1>3, <1>5, <1>6
  <1>8. IsLoadedFrom(LoadSnapshot(s), n, m, s)
    BY <1>5, <1>6, <1>7, LoadedEntries
  <1>9. \A e \in entries : \E i \in 1..n : s.namespaces[i] = e
    BY <1>5 DEF ToSet
  <1>10. \A table \in tables : \E i \in 1..m : s.tables[i] = table
    BY <1>6 DEF ToSet
  <1> QED
    BY <1>5, <1>6, <1>8, <1>9, <1>10 DEF tables, entries, n, m

(* load_snapshot of what to_snapshot wrote, in whatever order.             *)
LEMMA LoadSnapshotOK ==
    ASSUME NEW c, CatalogOK(c), NEW s \in Snapshots(c)
    PROVE  /\ CatalogOK(LoadSnapshot(s))
           /\ LoadSnapshot(s).namespaces = c.namespaces
           /\ LoadSnapshot(s).tables_by_id = c.tables_by_id
           /\ TableNames(c) \subseteq TableNames(LoadSnapshot(s))
           /\ Shadowed(c) = {} => LoadSnapshot(s).tables_by_name = c.tables_by_name
  <1> DEFINE tables  == Range(c.tables_by_id)
             entries == NamespaceEntries(c)
             loaded  == LoadSnapshot(s)
             n       == Cardinality(entries)
             m       == Cardinality(tables)
  <1>1. /\ IsMap(c.namespaces, Namespaces, Nat) /\ IsMap(c.tables_by_id, Nat, TableMetas)
        /\ IsMap(c.tables_by_name, Nat \X Names, TableMetas)
        /\ \A id \in DOMAIN c.tables_by_id : c.tables_by_id[id].id = id
    BY DEF CatalogOK, CatalogTypeOK, NamesResolve
  <1>2. /\ \A table \in tables : /\ table.id \in DOMAIN c.tables_by_id
                                 /\ c.tables_by_id[table.id] = table
        /\ \A id \in DOMAIN c.tables_by_id : c.tables_by_id[id] \in tables
    BY <1>1 DEF IsMap, Range
  <1>3. /\ \A e \in entries : e[1] \in DOMAIN c.namespaces /\ e = <<e[1], c.namespaces[e[1]]>>
        /\ \A ns \in DOMAIN c.namespaces : <<ns, c.namespaces[ns]>> \in entries
    BY DEF NamespaceEntries
  <1>4. /\ s.namespaces \in [1..n -> entries]
        /\ \A e \in entries : \E i \in 1..n : s.namespaces[i] = e
        /\ s.tables \in [1..m -> tables]
        /\ \A table \in tables : \E i \in 1..m : s.tables[i] = table
        /\ IsLoadedFrom(loaded, n, m, s)
    <2>1. EntriesOK(c)
      BY DEF CatalogOK, EntriesOK, NamesResolve
    <2> QED
      BY <2>1, SnapshotEntries
  <1> HIDE DEF tables, entries, loaded, n, m
  <1>5. loaded.namespaces = c.namespaces
    <2>1. ASSUME NEW ns \in DOMAIN c.namespaces PROVE ns \in DOMAIN loaded.namespaces
      <3>1. PICK i \in 1..n : s.namespaces[i] = <<ns, c.namespaces[ns]>>
        BY <1>3, <1>4
      <3> QED
        BY <1>4, <3>1 DEF IsLoadedFrom, HasEntries
    <2>2. ASSUME NEW ns \in DOMAIN loaded.namespaces
          PROVE  ns \in DOMAIN c.namespaces /\ loaded.namespaces[ns] = c.namespaces[ns]
      <3>1. PICK i \in 1..n : s.namespaces[i] = <<ns, loaded.namespaces[ns]>>
        BY <1>4 DEF IsLoadedFrom, HasEntries
      <3>2. s.namespaces[i] \in entries
        BY <1>4
      <3> QED
        BY <1>3, <3>1, <3>2
    <2>3. IsMap(loaded.namespaces, Namespaces, Nat)
      BY <1>4 DEF IsLoadedFrom, EntriesOK, CatalogTypeOK
    <2>4. DOMAIN loaded.namespaces = DOMAIN c.namespaces
      BY <2>1, <2>2
    <2> QED
      BY <1>1, <2>2, <2>3, <2>4 DEF IsMap
  <1>6. loaded.tables_by_id = c.tables_by_id
    <2>1. ASSUME NEW id \in DOMAIN c.tables_by_id PROVE id \in DOMAIN loaded.tables_by_id
      <3>1. PICK i \in 1..m : s.tables[i] = c.tables_by_id[id]
        BY <1>2, <1>4
      <3> QED
        BY <1>1, <1>4, <3>1 DEF IsLoadedFrom
    <2>2. ASSUME NEW id \in DOMAIN loaded.tables_by_id
          PROVE  id \in DOMAIN c.tables_by_id /\ loaded.tables_by_id[id] = c.tables_by_id[id]
      <3>1. PICK i \in 1..m : s.tables[i] = loaded.tables_by_id[id] /\ s.tables[i].id = id
        BY <1>4 DEF IsLoadedFrom
      <3>2. s.tables[i] \in tables
        BY <1>4
      <3> QED
        BY <1>2, <3>1, <3>2
    <2>3. IsMap(loaded.tables_by_id, Nat, TableMetas)
      BY <1>4 DEF IsLoadedFrom, EntriesOK, CatalogTypeOK
    <2>4. DOMAIN loaded.tables_by_id = DOMAIN c.tables_by_id
      BY <2>1, <2>2
    <2> QED
      BY <1>1, <2>2, <2>3, <2>4 DEF IsMap
  <1>7. \A key \in DOMAIN loaded.tables_by_name :
            /\ loaded.tables_by_name[key] \in tables
            /\ NameOf(loaded.tables_by_name[key]) = key
    BY <1>4 DEF IsLoadedFrom
  <1>8. \A table \in tables : NameOf(table) \in DOMAIN loaded.tables_by_name
    BY <1>4 DEF IsLoadedFrom
  <1>9. CatalogOK(loaded)
    <2>1. NamesResolve(loaded)
      BY <1>1, <1>2, <1>6, <1>7 DEF NamesResolve
    <2>2. NamespaceIdsDiffer(loaded) /\ TablesHaveNamespaces(loaded)
      BY <1>5, <1>6 DEF CatalogOK, NamespaceIdsDiffer, TablesHaveNamespaces
    <2> QED
      BY <1>4, <2>1, <2>2 DEF CatalogOK, EntriesOK, IsLoadedFrom
  <1>10. ASSUME NEW name \in TableNames(c) PROVE name \in TableNames(loaded)
    <2> DEFINE key   == <<c.namespaces[name[1]], name[2]>>
               table == c.tables_by_name[key]
    <2>1. /\ name[1] \in DOMAIN c.namespaces /\ key \in DOMAIN c.tables_by_name
          /\ name \in Namespaces \X Names
      BY <1>10 DEF TableNames, HasTable
    <2>2. NameOf(table) = key /\ table \in tables
      BY <1>2, <2>1 DEF CatalogOK, NamesResolve
    <2>3. key \in DOMAIN loaded.tables_by_name
      BY <1>8, <2>2
    <2> QED
      BY <1>5, <2>1, <2>3 DEF TableNames, HasTable
  <1>11. ASSUME Shadowed(c) = {} PROVE loaded.tables_by_name = c.tables_by_name
    <2>1. ASSUME NEW table \in tables
          PROVE  /\ NameOf(table) \in DOMAIN c.tables_by_name
                 /\ c.tables_by_name[NameOf(table)] = table
      <3>1. PICK key \in DOMAIN c.tables_by_name : c.tables_by_name[key].id = table.id
        BY <1>2, <1>11 DEF Shadowed
      <3>2. c.tables_by_name[key] = table /\ NameOf(table) = key
        BY <1>2, <3>1 DEF CatalogOK, NamesResolve
      <3> QED
        BY <3>2
    <2>2. ASSUME NEW key \in DOMAIN c.tables_by_name
          PROVE  key \in DOMAIN loaded.tables_by_name
      BY <1>2, <1>8 DEF CatalogOK, NamesResolve
    <2>3. ASSUME NEW key \in DOMAIN loaded.tables_by_name
          PROVE  /\ key \in DOMAIN c.tables_by_name
                 /\ loaded.tables_by_name[key] = c.tables_by_name[key]
      BY <1>7, <2>1
    <2>4. IsMap(loaded.tables_by_name, Nat \X Names, TableMetas)
      BY <1>4 DEF IsLoadedFrom, EntriesOK, CatalogTypeOK
    <2>5. DOMAIN loaded.tables_by_name = DOMAIN c.tables_by_name
      BY <2>2, <2>3
    <2> QED
      BY <1>1, <2>3, <2>4, <2>5 DEF IsMap
  <1> QED
    BY <1>5, <1>6, <1>9, <1>10, <1>11 DEF loaded

(* What a start finds in a file that was written whole, or is none. *)
LEMMA LoadCatalogOK ==
    ASSUME NEW c, EntriesOK(c), NEW content \in SnapshotFiles(c) \cup {Absent, Torn}
    PROVE  /\ EntriesOK(LoadCatalog(content))
           /\ CatalogOK(c) => CatalogOK(LoadCatalog(content))
  <1>1. CASE content \in SnapshotFiles(c)
    <2>1. PICK s \in Snapshots(c) : LoadCatalog(content) = LoadSnapshot(s)
      BY <1>1 DEF SnapshotFiles, Whole, LoadCatalog
    <2>2. EntriesOK(LoadSnapshot(s))
      BY SnapshotEntries DEF IsLoadedFrom
    <2> QED
      BY <2>1, <2>2, LoadSnapshotOK
  <1>2. CASE content \in {Absent, Torn}
    BY <1>2, EmptyCatalogOK DEF Absent, Torn, LoadCatalog, CatalogOK, EntriesOK, NamesResolve
  <1> QED
    BY <1>1, <1>2

(* What bytes of two snapshots may read as. *)
LEMMA LoadMixtureEntries ==
    ASSUME NEW content \in {Torn} \cup Mixtures
    PROVE  EntriesOK(LoadCatalog(content))
  <1>1. CASE content = Torn
    BY <1>1, EmptyCatalogOK DEF Torn, LoadCatalog, CatalogOK, NamesResolve, EntriesOK
  <1>2. CASE content \in Mixtures
    <2>1. PICK snap \in [namespaces : SeqOf(Namespaces \X MixedIds, MixedLength),
                         tables : SeqOf(MixedTables, MixedLength)] : content = Whole(snap)
      BY <1>2 DEF Mixtures
    <2>2. MixedIds \subseteq Nat
      BY MixturesAssumption DEF MixedIds
    <2>3. PICK n \in 0..MixedLength : snap.namespaces \in [1..n -> Namespaces \X MixedIds]
      BY <2>1 DEF SeqOf
    <2>4. PICK m \in 0..MixedLength : snap.tables \in [1..m -> MixedTables]
      BY <2>1 DEF SeqOf
    <2>5. n \in Nat /\ m \in Nat
      BY MixturesAssumption
    <2>6. MixedTables \subseteq TableMetas
      BY <2>2 DEF MixedTables, TableMetas
    <2>7. /\ snap.namespaces \in [1..n -> Namespaces \X Nat]
          /\ snap.tables \in [1..m -> TableMetas]
      BY <2>2, <2>3, <2>4, <2>6
    <2>8. EntriesOK(LoadSnapshot(snap))
      BY <2>5, <2>7, LoadedEntries DEF IsLoadedFrom
    <2> QED
      BY <2>1, <2>8 DEF Whole, LoadCatalog
  <1> QED
    BY <1>1, <1>2

-----------------------------------------------------------------------------
(* What holds of the file and of those who write it. *)

(* What a process writes is the catalog it has. *)
WritesItsCatalog ==
    \A p \in Processes : pc[p] = "write" => writing[p] \in SnapshotFiles(cat[p])

(* One process at a time: the one that writes has the file to itself, and  *)
(* what is written in full is what was saved last.                         *)
OneAtATime ==
    ~ overlapped =>
        /\ mixtures = 0
        /\ \A p, q \in Processes : Up(p) /\ Up(q) => p = q
        /\ \A p \in Processes : pc[p] = "write" => alone[p]
        /\ Settled /\ ~ wounded =>
              \/ file = Absent /\ saved = EmptyCatalog
              \/ file \in SnapshotFiles(saved)

FileInvariant == TypeOK /\ WritesItsCatalog /\ OneAtATime

LEMMA EmptyIsGood == EntriesOK(EmptyCatalog) /\ CatalogOK(EmptyCatalog)
  BY EmptyCatalogOK DEF CatalogOK, EntriesOK, NamesResolve

LEMMA FileInit == Init => FileInvariant
  <1> SUFFICES ASSUME Init PROVE FileInvariant
    OBVIOUS
  <1>1. LoadCatalog(file) = EmptyCatalog
    BY DEF Init, LoadCatalog, Absent
  <1>2. \A c \in Catalogs : EntriesOK(c) /\ CatalogOK(c)
    BY <1>1, EmptyIsGood DEF Init, Catalogs
  <1>3. TypeOK
    <2>1. mixtures \in 0..MaxMixtures
      BY MixturesAssumption DEF Init
    <2>2. /\ pc \in [Processes -> {"down", "ready", "save", "write"}]
          /\ mode \in [Processes -> {"shell", "query"}]
          /\ DOMAIN cat = Processes /\ DOMAIN writing = Processes
          /\ alone \in [Processes -> BOOLEAN]
          /\ overlapped \in BOOLEAN /\ wounded \in BOOLEAN
      BY DEF Init
    <2> QED
      BY <1>2, <2>1, <2>2 DEF TypeOK
  <1> QED
    BY <1>3 DEF Init, FileInvariant, WritesItsCatalog, OneAtATime, Up

(* What is read from a file two processes have open does not parse, or is  *)
(* counted as a mixture.                                                   *)
LEMMA GarbledLoads ==
    ASSUME mixtures \in 0..MaxMixtures, NEW content \in {Torn} \cup Mixtures,
           Garbled(content)
    PROVE  /\ mixtures' \in 0..MaxMixtures /\ (mixtures' = 0 => mixtures = 0)
           /\ EntriesOK(LoadCatalog(content))
           /\ mixtures' = 0 => CatalogOK(LoadCatalog(content))
  <1>1. EntriesOK(LoadCatalog(content))
    BY LoadMixtureEntries
  <1>2. CASE content = Torn /\ UNCHANGED mixtures
    <2>1. LoadCatalog(content) = EmptyCatalog
      BY <1>2 DEF Torn, LoadCatalog
    <2> QED
      BY <1>1, <1>2, <2>1, EmptyIsGood
  <1>3. CASE mixtures < MaxMixtures /\ mixtures' = mixtures + 1
    BY <1>1, <1>3, MixturesAssumption
  <1> QED
    BY <1>2, <1>3 DEF Garbled

LEMMA MixturesNext ==
    FileInvariant /\ [Next]_vars =>
        mixtures' \in 0..MaxMixtures /\ (mixtures' = 0 => mixtures = 0)
  <1> SUFFICES ASSUME FileInvariant, [Next]_vars
               PROVE  mixtures' \in 0..MaxMixtures /\ (mixtures' = 0 => mixtures = 0)
    OBVIOUS
  <1>1. mixtures \in 0..MaxMixtures
    BY DEF FileInvariant, TypeOK
  <1>2. ASSUME NEW p \in Processes, Launch(p) \/ WriteSome(p)
        PROVE  \/ UNCHANGED mixtures
               \/ \E content \in {Torn} \cup Mixtures : Garbled(content)
    BY <1>2 DEF Launch, WriteSome
  <1>3. ASSUME NEW p \in Processes,
               \/ Execute(p) \/ ExecuteFails(p) \/ Truncate(p) \/ SaveRefused(p)
               \/ Write(p) \/ WriteFails(p) \/ Exit(p) \/ Crash(p)
        PROVE  UNCHANGED mixtures
    BY <1>3 DEF Execute, ExecuteFails, Truncate, SaveRefused, Write, WriteFails,
                CloseFile, Exit, Crash
  <1> QED
    BY <1>1, <1>2, <1>3, GarbledLoads DEF Next, vars

(* Every catalog in memory stays well formed, and so does what is loaded.  *)
LEMMA CatalogsNext ==
    FileInvariant /\ [Next]_vars =>
        /\ DOMAIN cat' = Processes
        /\ \A c \in Catalogs' : EntriesOK(c) /\ (mixtures' = 0 => CatalogOK(c))
  <1> DEFINE Good(c) == EntriesOK(c) /\ (mixtures' = 0 => CatalogOK(c))
  <1> SUFFICES ASSUME FileInvariant, [Next]_vars
               PROVE  DOMAIN cat' = Processes /\ \A c \in Catalogs' : Good(c)
    OBVIOUS
  <1>1. DOMAIN cat = Processes /\ mixtures \in 0..MaxMixtures
    BY DEF FileInvariant, TypeOK
  <1>2. \A p \in Processes : Good(cat[p])
    BY MixturesNext DEF FileInvariant, TypeOK, Catalogs
  <1>3. Good(saved) /\ Good(LoadCatalog(file))
    BY MixturesNext DEF FileInvariant, TypeOK, Catalogs
  <1>4. Good(EmptyCatalog)
    BY EmptyIsGood
  <1>5. LoadCatalog(Torn) = EmptyCatalog
    BY DEF LoadCatalog, Torn
  <1> DEFINE CatGood  == DOMAIN cat' = Processes /\ \A p \in Processes : Good(cat'[p])
             FileGood == Good(saved') /\ Good(LoadCatalog(file'))
  <1>6. SUFFICES CatGood /\ FileGood
    BY <1>6 DEF Catalogs
  <1>7. ASSUME NEW p \in Processes, Launch(p) PROVE CatGood /\ FileGood
    <2>1. PICK c : Good(c) /\ cat' = [cat EXCEPT ![p] = c]
      <3>1. CASE cat' = [cat EXCEPT ![p] = LoadCatalog(file)]
        BY <1>3, <3>1
      <3>2. CASE \E content \in {Torn} \cup Mixtures :
                    Garbled(content) /\ cat' = [cat EXCEPT ![p] = LoadCatalog(content)]
        BY <1>1, <3>2, GarbledLoads
      <3> QED
        BY <1>7, <3>1, <3>2 DEF Launch
    <2>2. file' = file /\ saved' \in {saved, EmptyCatalog}
      BY <1>7 DEF Launch
    <2> HIDE DEF Good
    <2> QED
      BY <1>1, <1>2, <1>3, <1>4, <2>1, <2>2
  <1>8. ASSUME NEW p \in Processes, Execute(p) PROVE CatGood /\ FileGood
    <2>1. \/ cat' = cat
          \/ \E c : Good(c) /\ cat' = [cat EXCEPT ![p] = c]
      <3>1. ASSUME NEW ns \in Namespaces, NEW name \in Names, NEW schema \in Schemas
            PROVE  Good(CreateTable(cat[p], ns, name, schema))
        BY <1>2, CreateTableOK, CreateTableEntries
      <3>2. ASSUME NEW ns \in Namespaces, NEW name \in Names
            PROVE  Good(DropTable(cat[p], ns, name))
        BY <1>2, DropTableOK, DropTableEntries
      <3> HIDE DEF Good
      <3> QED
        BY <1>8, <3>1, <3>2 DEF Execute
    <2>2. file' = file /\ saved' = saved
      BY <1>8 DEF Execute
    <2> HIDE DEF Good
    <2> QED
      BY <1>1, <1>2, <1>3, <2>1, <2>2
  <1>9. ASSUME NEW p \in Processes, Truncate(p) PROVE CatGood /\ FileGood
    <2> HIDE DEF Good
    <2> QED
      BY <1>1, <1>2, <1>3, <1>4, <1>5, <1>9 DEF Truncate
  <1>10. ASSUME NEW p \in Processes,
                ExecuteFails(p) \/ SaveRefused(p) \/ Exit(p) \/ Crash(p)
         PROVE  CatGood /\ FileGood
    <2> HIDE DEF Good
    <2> QED
      BY <1>1, <1>2, <1>3, <1>4, <1>10
         DEF ExecuteFails, SaveRefused, AfterStatement, End, Exit, Crash
  <1>11. ASSUME NEW p \in Processes, WriteSome(p) PROVE CatGood /\ FileGood
    <2>1. Good(LoadCatalog(file'))
      BY <1>1, <1>11, GarbledLoads DEF WriteSome
    <2>2. cat' = cat /\ saved' = saved
      BY <1>11 DEF WriteSome
    <2> HIDE DEF Good
    <2> QED
      BY <1>1, <1>2, <1>3, <2>1, <2>2
  <1>12. ASSUME NEW p \in Processes, Write(p) \/ WriteFails(p) PROVE CatGood /\ FileGood
    <2>1. Good(LoadCatalog(file'))
      <3>1. CASE file' = file
        BY <1>3, <3>1
      <3>2. CASE file' = writing[p] /\ pc[p] = "write"
        <4>1. writing[p] \in SnapshotFiles(cat[p])
          BY <3>2 DEF FileInvariant, WritesItsCatalog
        <4> QED
          BY <1>2, <3>2, <4>1, LoadCatalogOK
      <3> QED
        BY <1>12, <3>1, <3>2 DEF Write, WriteFails
    <2>2. cat' \in {cat, [cat EXCEPT ![p] = EmptyCatalog]} /\ saved' \in {saved, cat[p]}
      BY <1>12 DEF Write, WriteFails, CloseFile, AfterStatement, End
    <2> HIDE DEF Good
    <2> QED
      BY <1>1, <1>2, <1>3, <1>4, <2>1, <2>2
  <1>13. CASE UNCHANGED vars
    BY <1>1, <1>2, <1>3, <1>13 DEF vars
  <1> HIDE DEF CatGood, FileGood
  <1> QED
    BY <1>7, <1>8, <1>9, <1>10, <1>11, <1>12, <1>13 DEF Next

LEMMA TypeNext == FileInvariant /\ [Next]_vars => TypeOK'
  <1> SUFFICES ASSUME FileInvariant, [Next]_vars PROVE TypeOK'
    OBVIOUS
  <1>1. /\ pc \in [Processes -> {"down", "ready", "save", "write"}]
        /\ mode \in [Processes -> {"shell", "query"}]
        /\ DOMAIN writing = Processes /\ alone \in [Processes -> BOOLEAN]
        /\ overlapped \in BOOLEAN /\ wounded \in BOOLEAN
    BY DEF FileInvariant, TypeOK
  <1>2. /\ pc' \in [Processes -> {"down", "ready", "save", "write"}]
        /\ mode' \in [Processes -> {"shell", "query"}]
    BY <1>1 DEF Next, vars, Launch, Execute, ExecuteFails, Truncate, SaveRefused,
                WriteSome, Write, WriteFails, Exit, Crash, Goto, End, AfterStatement,
                CloseFile
  <1>3. DOMAIN writing' = Processes /\ alone' \in [Processes -> BOOLEAN]
    BY <1>1 DEF Next, vars, Launch, Execute, ExecuteFails, Truncate, SaveRefused,
                WriteSome, Write, WriteFails, Exit, Crash, CloseFile
  <1>4. overlapped' \in BOOLEAN /\ wounded' \in BOOLEAN
    BY <1>1 DEF Next, vars, Launch, Execute, ExecuteFails, Truncate, SaveRefused,
                WriteSome, Write, WriteFails, Exit, Crash, CloseFile
  <1> QED
    BY <1>2, <1>3, <1>4, MixturesNext, CatalogsNext DEF TypeOK

LEMMA WritesItsCatalogNext == FileInvariant /\ [Next]_vars => WritesItsCatalog'
  <1> SUFFICES ASSUME FileInvariant, [Next]_vars PROVE WritesItsCatalog'
    OBVIOUS
  <1> USE DEF FileInvariant, TypeOK, WritesItsCatalog, Goto, End, AfterStatement,
              CloseFile
  <1>1. ASSUME NEW p \in Processes,
               \/ Execute(p) \/ ExecuteFails(p) \/ SaveRefused(p)
               \/ WriteSome(p) \/ Exit(p) \/ Crash(p)
        PROVE  WritesItsCatalog'
    BY <1>1 DEF Execute, ExecuteFails, SaveRefused, WriteSome, Exit, Crash
  <1>2. ASSUME NEW p \in Processes, Launch(p) PROVE WritesItsCatalog'
    <2>1. \A q \in Processes \ {p} : pc'[q] = pc[q] /\ cat'[q] = cat[q]
      BY <1>2 DEF Launch
    <2>2. pc'[p] = "ready" /\ writing' = writing
      BY <1>2 DEF Launch
    <2> QED
      BY <2>1, <2>2
  <1>3. ASSUME NEW p \in Processes, Truncate(p) PROVE WritesItsCatalog'
    <2>1. writing'[p] \in SnapshotFiles(cat[p]) /\ cat' = cat
      BY <1>3 DEF Truncate
    <2>2. \A q \in Processes \ {p} : pc'[q] = pc[q] /\ writing'[q] = writing[q]
      BY <1>3 DEF Truncate
    <2> QED
      BY <2>1, <2>2
  <1>4. ASSUME NEW p \in Processes, Write(p) \/ WriteFails(p)
        PROVE  WritesItsCatalog'
    <2>1. pc'[p] # "write"
      BY <1>4 DEF Write, WriteFails
    <2>2. \A q \in Processes \ {p} :
             pc'[q] = pc[q] /\ writing'[q] = writing[q] /\ cat'[q] = cat[q]
      BY <1>4 DEF Write, WriteFails
    <2> QED
      BY <2>1, <2>2
  <1>5. CASE UNCHANGED vars
    BY <1>5 DEF vars
  <1> QED
    BY <1>1, <1>2, <1>3, <1>4, <1>5 DEF Next

LEMMA OneAtATimeNext == FileInvariant /\ [Next]_vars => OneAtATime'
  <1> SUFFICES ASSUME FileInvariant, [Next]_vars, ~ overlapped' PROVE OneAtATime'
    BY DEF OneAtATime
  <1> USE DEF FileInvariant, TypeOK, OneAtATime, Goto, End, AfterStatement,
              CloseFile, Up, Settled
  <1>1. ASSUME NEW p \in Processes, Launch(p) PROVE OneAtATime'
    <2>1. \A q \in Processes : pc[q] = "down"
      BY <1>1 DEF Launch
    <2>2. Settled /\ ~ overlapped /\ UNCHANGED <<file, saved, wounded>>
      BY <1>1, <2>1 DEF Launch
    <2>3. \A q \in Processes : pc'[q] = IF q = p THEN "ready" ELSE "down"
      BY <1>1, <2>1 DEF Launch
    <2> QED
      BY <1>1, <2>2, <2>3 DEF Launch
  <1>2. ASSUME NEW p \in Processes,
               \/ Execute(p) \/ ExecuteFails(p) \/ SaveRefused(p) \/ Exit(p)
        PROVE  OneAtATime'
    BY <1>2 DEF Execute, ExecuteFails, SaveRefused, Exit
  <1>3. ASSUME NEW p \in Processes, Crash(p) PROVE OneAtATime'
    BY <1>3 DEF Crash
  <1>4. ASSUME NEW p \in Processes, Truncate(p) PROVE OneAtATime'
    BY <1>4 DEF Truncate
  <1>5. ASSUME NEW p \in Processes, Write(p) PROVE OneAtATime'
    <2>1. alone[p] /\ ~ overlapped
      BY <1>5 DEF Write
    <2>2. file' \in SnapshotFiles(saved')
      BY <1>5, <2>1 DEF Write, WritesItsCatalog
    <2> QED
      BY <1>5, <2>2 DEF Write
  <1>6. ASSUME NEW p \in Processes, WriteFails(p) PROVE OneAtATime'
    BY <1>6 DEF WriteFails
  <1>7. ASSUME NEW p \in Processes, WriteSome(p) PROVE OneAtATime'
    BY <1>7 DEF WriteSome
  <1>8. CASE UNCHANGED vars
    BY <1>8 DEF vars
  <1> QED
    BY <1>1, <1>2, <1>3, <1>4, <1>5, <1>6, <1>7, <1>8 DEF Next

THEOREM FileCorrect == Spec => []FileInvariant
  <1>1. FileInvariant /\ [Next]_vars => FileInvariant'
    BY TypeNext, WritesItsCatalogNext, OneAtATimeNext DEF FileInvariant
  <1> QED
    BY FileInit, <1>1, PTL DEF Spec

(* Whatever crashes, fails or overlaps, every catalog a process loads or   *)
(* has is well formed, unless bytes of two processes that had the file     *)
(* open at once have made a text that parses. Even then its entries have   *)
(* their types and no identifier in use will be given out again.           *)
THEOREM CatalogsAreOK == Spec => []TypeOK
  <1>1. FileInvariant => TypeOK
    BY DEF FileInvariant
  <1> QED
    BY FileCorrect, <1>1, PTL

(* Processes that run one after the other find the catalog they left.      *)
THEOREM ReloadKeeps == Spec => []ReloadKeepsCatalog
  <1>1. FileInvariant => ReloadKeepsCatalog
    <2> SUFFICES ASSUME FileInvariant, Settled, ~ overlapped, ~ wounded
                 PROVE  LET loaded == LoadCatalog(file)
                        IN  /\ loaded.namespaces = saved.namespaces
                            /\ loaded.tables_by_id = saved.tables_by_id
                            /\ TableNames(saved) \subseteq TableNames(loaded)
                            /\ Shadowed(saved) = {} =>
                                  loaded.tables_by_name = saved.tables_by_name
      BY DEF ReloadKeepsCatalog
    <2>1. CASE file = Absent /\ saved = EmptyCatalog
      BY <2>1 DEF LoadCatalog, Absent
    <2>2. CASE file \in SnapshotFiles(saved)
      <3>1. PICK s \in Snapshots(saved) : LoadCatalog(file) = LoadSnapshot(s)
        BY <2>2 DEF SnapshotFiles, Whole, LoadCatalog
      <3> QED
        BY <3>1, LoadSnapshotOK DEF FileInvariant, TypeOK, OneAtATime, Catalogs
    <2> QED
      BY <2>1, <2>2 DEF FileInvariant, OneAtATime
  <1> QED
    BY FileCorrect, <1>1, PTL
=============================================================================

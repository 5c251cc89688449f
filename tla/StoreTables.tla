---- MODULE StoreTables ----
(***************************************************************************)
(* What the two storage modules are built from: a PostgreSQL table is a    *)
(* set of rows, a Vec of InMemoryStorage a sequence of them and a HashMap  *)
(* of it a function.  Rows are records; `at' is the time a list is ordered *)
(* by.                                                                     *)
(***************************************************************************)
EXTENDS Naturals, Sequences, FiniteSets, SequencesExt

CONSTANT None

\* INSERT ... ON CONFLICT (key) DO UPDATE: Same says which row has the key,
\* Kept what becomes of it.
Put(T, Same(_), new, Kept(_)) ==
  IF \E r \in T : Same(r) THEN {IF Same(r) THEN Kept(r) ELSE r : r \in T} ELSE T \cup {new}

\* UPDATE ... SET ... WHERE
Set(T, Is(_), Changed(_)) == {IF Is(r) THEN Changed(r) ELSE r : r \in T}

\* SELECT ... WHERE with fetch_optional
Row(T, Is(_)) == IF \E r \in T : Is(r) THEN CHOOSE r \in T : Is(r) ELSE None

Take(s, limit) == SubSeq(s, 1, IF limit < Len(s) THEN limit ELSE Len(s))

\* ORDER BY at DESC LIMIT
Newest(T, limit) == Take(SetToSortSeq(T, LAMBDA a, b : a.at > b.at), limit)

\* iter_mut().find(Same): change the first such element, or push
Place(v, Same(_), new, Kept(_)) ==
  IF \E i \in DOMAIN v : Same(v[i])
  THEN LET i == CHOOSE j \in DOMAIN v : Same(v[j]) /\ \A k \in 1..(j - 1) : ~Same(v[k])
       IN [v EXCEPT ![i] = Kept(@)]
  ELSE Append(v, new)

\* Changed elements, in place
Alter(v, Is(_), Changed(_)) == [i \in DOMAIN v |-> IF Is(v[i]) THEN Changed(v[i]) ELSE v[i]]

\* iter().find(Is)
Find(v, Is(_)) ==
  IF \E i \in DOMAIN v : Is(v[i])
  THEN v[CHOOSE j \in DOMAIN v : Is(v[j]) /\ \A k \in 1..(j - 1) : ~Is(v[k])] ELSE None

\* sort_by_key(Reverse(at)), truncate
Sorted(v, limit) == Take(SortSeq(v, LAMBDA a, b : a.at > b.at), limit)

\* iter().rev().take(limit)
Backwards(v, limit) == Take(Reverse(v), limit)

\* HashMap::insert and get
Insert(f, key, value) == [k \in DOMAIN f \cup {key} |-> IF k = key THEN value ELSE f[k]]
Get(f, key, default) == IF key \in DOMAIN f THEN f[key] ELSE default

\* Entries of g replace those of f: jsonb ||, Map::extend
Override(f, g) == [k \in DOMAIN f \cup DOMAIN g |-> IF k \in DOMAIN g THEN g[k] ELSE f[k]]

RowsOf(v) == {v[i] : i \in DOMAIN v}
Lesser(a, b) == IF a < b THEN a ELSE b
Greater(a, b) == IF a > b THEN a ELSE b
====

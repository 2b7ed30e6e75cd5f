-------------------------- MODULE AxiosHeaders_proofs --------------------------
(***************************************************************************)
(* Proofs about AxiosHeaders: that entries are found under their own name, *)
(* and that no list is shared that was not given out, for any number of    *)
(* objects, names and casings.                                             *)
(***************************************************************************)
EXTENDS AxiosHeaders, FiniteSetTheorems, SequenceTheorems, WellFoundedInduction, TLAPS

(***************************************************************************)
(* Sets of places in a sequence have a first and a last.                   *)
(***************************************************************************)

LEMMA Smallest ==
  ASSUME NEW T, T \subseteq Nat, T # {}
  PROVE  \E x \in T : \A y \in T : x <= y
<1>1. \E x \in T : \A y \in T : <<y, x>> \notin OpToRel(<, Nat)
  BY NatLessThanWellFounded, WFMin
<1>2. PICK x \in T : \A y \in T : <<y, x>> \notin OpToRel(<, Nat)
  BY <1>1
<1>3. ASSUME NEW y \in T PROVE x <= y
  <2>1. ~(y < x)
    BY <1>2 DEF OpToRel
  <2> QED BY <2>1
<1> QED BY <1>3

LEMMA Largest ==
  ASSUME NEW n \in Nat, NEW T, T \subseteq 1 .. n, T # {}
  PROVE  \E x \in T : \A y \in T : y <= x
<1> DEFINE D == {n - x : x \in T}
<1>1. \A x \in T : x \in Nat /\ n - x \in Nat
  OBVIOUS
<1>2. D \subseteq Nat
  BY <1>1
<1>3. D # {}
  OBVIOUS
<1>4. \A x \in T : n - x \in D
  OBVIOUS
<1>5. \A d \in D : \E x \in T : d = n - x
  OBVIOUS
<1> HIDE DEF D
<1>6. PICK d \in D : \A e \in D : d <= e
  BY <1>2, <1>3, Smallest
<1>7. PICK x \in T : d = n - x
  BY <1>5
<1>8. ASSUME NEW y \in T PROVE y <= x
  <2>1. n - x <= n - y
    BY <1>4, <1>6, <1>7
  <2> QED BY <1>1, <2>1
<1> QED BY <1>8

\* What a function makes of a finite set is finite.
LEMMA FiniteImage ==
  ASSUME NEW S, IsFiniteSet(S), NEW f
  PROVE  IsFiniteSet({f[x] : x \in S})
<1> DEFINE T == {f[x] : x \in S}
           g == [x \in S |-> f[x]]
<1>1. g \in Surjection(S, T)
  BY DEF Surjection
<1> QED BY <1>1, FS_Surjection

(***************************************************************************)
(* Entries are found under their own name.                                 *)
(***************************************************************************)

At(e, k) == e \in Entries /\ Key(e.name) = k

LEMMA StampType ==
  ASSUME NEW maker \in Objects \cup {None}, CanMake(maker)
  PROVE  NewStamp(maker) \in Stamps
<1> DEFINE n == CHOOSE n \in 1 .. MaxLists : Fresh(<<maker, n>>)
<1>1. n \in 1 .. MaxLists
  BY Zenon DEF CanMake
<1>2. NewStamp(maker) = <<maker, n>>
  BY DEF NewStamp
<1> HIDE DEF n
<1> QED BY <1>1, <1>2 DEF Stamps

LEMMA SourceType ==
  ASSUME TypeOK, NEW source \in Sources, NEW k \in Keys, FirstOf(source, k) # None
  PROVE  At(FirstOf(source, k), k) /\ At(LastOf(source, k), k)
<1>1. CASE source \in Objects
  BY <1>1 DEF TypeOK, Maps, FirstOf, LastOf, At
<1>2. CASE source \notin Objects
  <2>1. Mentions(k) # {}
    BY <1>2 DEF FirstOf
  <2>2. Mentions(k) \subseteq 1 .. Len(plain) /\ Len(plain) \in Nat
    BY LenProperties DEF TypeOK, Mentions
  <2>3. ASSUME NEW i \in Mentions(k) PROVE At(plain[i], k)
    <3>1. plain[i] \in [name : Names, value : Values \cup {Undefined}]
      BY <2>2, ElementOfSeq DEF TypeOK
    <3> QED BY <3>1 DEF Mentions, Entries, At
  <2>4. \E i \in Mentions(k) : \A j \in Mentions(k) : i <= j
    BY <2>1, <2>2, Smallest
  <2>5. \E i \in Mentions(k) : \A j \in Mentions(k) : j <= i
    BY <2>1, <2>2, Largest
  <2>6. (CHOOSE i \in Mentions(k) : \A j \in Mentions(k) : i <= j) \in Mentions(k)
    BY <2>4, Zenon
  <2>7. (CHOOSE i \in Mentions(k) : \A j \in Mentions(k) : j <= i) \in Mentions(k)
    BY <2>5, Zenon
  <2>8. At(FirstOf(source, k), k)
    BY <1>2, <2>1, <2>3, <2>6 DEF FirstOf
  <2>9. At(LastOf(source, k), k)
    BY <1>2, <2>1, <2>3, <2>7 DEF LastOf
  <2> QED BY <2>8, <2>9
<1> QED BY <1>1, <1>2

LEMMA SetInMapType ==
  ASSUME NEW stamp \in Stamps, NEW k \in Keys, NEW rewrite,
         NEW entry, entry = None \/ At(entry, k),
         NEW first, NEW last, first # None => At(first, k) /\ At(last, k)
  PROVE  LET new == SetInMap(entry, first, last, rewrite, stamp, k)
         IN  new = None \/ At(new, k)
<1> DEFINE value == (IF rewrite THEN last ELSE first).value
           name == (IF entry = None THEN first ELSE entry).name
<1>1. CASE first = None \/ (~rewrite /\ entry # None)
  BY <1>1 DEF SetInMap
<1>2. CASE ~(first = None \/ (~rewrite /\ entry # None))
  <2>1. SetInMap(entry, first, last, rewrite, stamp, k)
          = [name |-> name, value |-> Normalized(value, stamp, k)]
    BY <1>2 DEF SetInMap
  <2>2. value \in Values /\ name \in Names /\ Key(name) = k
    BY <1>2 DEF At, Entries
  <2>3. Normalized(value, stamp, k) \in Values
    BY <2>2 DEF Normalized, Values, Lists
  <2> HIDE DEF value, name
  <2> QED BY <2>1, <2>2, <2>3 DEF At, Entries
<1> QED BY <1>1, <1>2

\* A map whose entries are at their place.
Proper(map) == map \in Maps /\ \A k \in Keys : map[k] = None \/ At(map[k], k)

LEMMA MergedType ==
  ASSUME TypeOK, NEW map, Proper(map), NEW source \in Sources, NEW rewrite, NEW stamp \in Stamps
  PROVE  Proper(Merged(map, source, rewrite, stamp))
<1> DEFINE new == Merged(map, source, rewrite, stamp)
<1>1. ASSUME NEW k \in Keys PROVE new[k] = None \/ At(new[k], k)
  <2>1. new[k] = SetInMap(map[k], FirstOf(source, k), LastOf(source, k), rewrite, stamp, k)
    BY DEF Merged
  <2> QED BY <2>1, SetInMapType, SourceType DEF Proper
<1>2. new = [k \in Keys |-> new[k]]
  BY DEF Merged
<1> HIDE DEF new
<1>3. new \in Maps
  BY <1>1, <1>2 DEF Maps, At
<1>4. Proper(new)
  BY <1>1, <1>3 DEF Proper
<1> QED BY <1>4 DEF new

LEMMA StoreType ==
  ASSUME TypeOK, NEW o \in Objects, NEW map, Proper(map),
         store' = [store EXCEPT ![o] = map], plain' = plain, of' \in {None, of},
         answer' \in BOOLEAN
  PROVE  TypeOK'
<1>1. store' \in [Objects -> Maps]
  BY DEF TypeOK, Proper
<1>2. ASSUME NEW p \in Objects, NEW k \in Keys, store'[p][k] # None
      PROVE  Key(store'[p][k].name) = k
  <2>1. CASE p = o
    BY <1>2, <2>1 DEF TypeOK, Proper, At
  <2>2. CASE p # o
    BY <1>2, <2>2 DEF TypeOK
  <2> QED BY <2>1, <2>2
<1>3. plain' \in Seq([name : Names, value : Values \cup {Undefined}])
  BY DEF TypeOK
<1>4. of' \in Objects \cup {None}
  BY DEF TypeOK
<1> QED BY <1>1, <1>2, <1>3, <1>4 DEF TypeOK

LEMMA StoredType ==
  ASSUME TypeOK, NEW o \in Objects
  PROVE  Proper(store[o])
BY DEF TypeOK, Proper, At, Maps

\* What the store is made of, whatever is in it.
Shaped ==
  /\ store = [o \in Objects |-> store[o]]
  /\ \A o \in Objects : store[o] = [k \in Keys |-> store[o][k]]

ApartInv == Shaped /\ ListsStayApart

\* Where the entry for k may come from when a call makes new lists under stamp.
Stems(new, old, stamp, k) ==
  \/ new = None
  \/ old # None /\ new.value = old.value
  \/ new.value = <<stamp, k>>
  \/ new.value \notin Lists

(***************************************************************************)
(* Nobody has the lists a call is about to make.                           *)
(***************************************************************************)

LEMMA StampIsFresh ==
  ASSUME NEW maker, CanMake(maker)
  PROVE  Fresh(NewStamp(maker)) /\ NewStamp(maker) \in {maker} \X (1 .. MaxLists)
<1> DEFINE n == CHOOSE n \in 1 .. MaxLists : Fresh(<<maker, n>>)
<1>1. n \in 1 .. MaxLists /\ Fresh(<<maker, n>>)
  BY Zenon DEF CanMake
<1>2. NewStamp(maker) = <<maker, n>>
  BY DEF NewStamp
<1> HIDE DEF n
<1> QED BY <1>1, <1>2

LEMMA FreshIsNobodys ==
  ASSUME NEW stamp, Fresh(stamp), NEW x \in Names \cup Keys
  PROVE  <<stamp, x>> \notin ListsOfPlain /\ \A o \in Objects : <<stamp, x>> \notin ListsOf(o)
BY DEF Fresh, Held

(***************************************************************************)
(* What merging a source into a map makes of each entry.                   *)
(***************************************************************************)

LEMMA SetInMapStems ==
  ASSUME NEW entry, NEW first, NEW last, NEW rewrite, NEW stamp, NEW k
  PROVE  LET new == SetInMap(entry, first, last, rewrite, stamp, k)
         IN  \/ new = entry
             \/ new.value = <<stamp, k>>
             \/ new.value \notin Lists
<1> DEFINE value == (IF rewrite THEN last ELSE first).value
           name == (IF entry = None THEN first ELSE entry).name
<1>1. CASE first = None \/ (~rewrite /\ entry # None)
  BY <1>1 DEF SetInMap
<1>2. CASE ~(first = None \/ (~rewrite /\ entry # None))
  <2>1. SetInMap(entry, first, last, rewrite, stamp, k)
          = [name |-> name, value |-> Normalized(value, stamp, k)]
    BY <1>2 DEF SetInMap
  <2>2. SetInMap(entry, first, last, rewrite, stamp, k).value = Normalized(value, stamp, k)
    BY <2>1
  <2>3. Normalized(value, stamp, k) = <<stamp, k>> \/ Normalized(value, stamp, k) \notin Lists
    BY DEF Normalized
  <2> QED BY <2>2, <2>3
<1> QED BY <1>1, <1>2

LEMMA MergedStems ==
  ASSUME NEW map, NEW source, NEW rewrite, NEW stamp, NEW k \in Keys
  PROVE  LET new == Merged(map, source, rewrite, stamp)[k]
         IN  new = map[k] \/ new.value = <<stamp, k>> \/ new.value \notin Lists
<1>1. Merged(map, source, rewrite, stamp)[k]
        = SetInMap(map[k], FirstOf(source, k), LastOf(source, k), rewrite, stamp, k)
  BY DEF Merged
<1> QED BY <1>1, SetInMapStems

(***************************************************************************)
(* An object whose entries stem from its own, or are new, shares nothing.  *)
(***************************************************************************)

LEMMA Becoming ==
  ASSUME ApartInv, NEW o \in Objects, NEW map, NEW stamp, Fresh(stamp),
         map = [k \in Keys |-> map[k]],
         \A k \in Keys : Stems(map[k], store[o][k], stamp, k),
         store' = [store EXCEPT ![o] = map], plain' = plain,
         \/ of' = of
         \/ /\ \A k \in Keys : Stems(map[k], None, stamp, k)
            /\ of' = IF of = o THEN None ELSE of
  PROVE  ApartInv'
<1>1. store'[o] = map /\ \A p \in Objects \ {o} : store'[p] = store[p]
  BY DEF ApartInv, Shaped
<1>2. Shaped'
  BY <1>1 DEF ApartInv, Shaped
<1>3. ListsOfPlain' = ListsOfPlain /\ \A p \in Objects \ {o} : ListsOf(p)' = ListsOf(p)
  BY <1>1 DEF ListsOfPlain, ListsOf
<1>4. ASSUME NEW x \in ListsOf(o)'
      PROVE  \E k \in Keys :
               \/ x \in ListsOf(o) /\ x = store[o][k].value /\ ~Stems(map[k], None, stamp, k)
               \/ x = <<stamp, k>>
  <2>1. PICK k \in Keys : map[k] # None /\ x = map[k].value /\ x \in Lists
    BY <1>1 DEF ListsOf
  <2>2. CASE x = <<stamp, k>>
    BY <2>2
  <2>3. CASE x # <<stamp, k>>
    <3>1. store[o][k] # None /\ x = store[o][k].value
      BY <2>1, <2>3 DEF Stems
    <3>2. x \in ListsOf(o)
      BY <2>1, <3>1 DEF ListsOf
    <3>3. ~Stems(map[k], None, stamp, k)
      BY <2>1, <2>3 DEF Stems
    <3> QED BY <3>1, <3>2, <3>3
  <2> QED BY <2>2, <2>3
<1>5. ASSUME NEW x \in ListsOf(o)', x \notin ListsOf(o)
      PROVE  x \notin ListsOfPlain /\ \A p \in Objects : x \notin ListsOf(p)
  <2>1. PICK k \in Keys : x = <<stamp, k>>
    BY <1>4, <1>5
  <2> QED BY <2>1, FreshIsNobodys
<1>6. ASSUME NEW p \in Objects, NEW q \in Objects, p # q
      PROVE  (ListsOf(p) \cap ListsOf(q))' = {}
  <2>1. \A r \in Objects \ {o} : (ListsOf(o) \cap ListsOf(r))' = {}
    BY <1>3, <1>5 DEF ApartInv, ListsStayApart
  <2>2. CASE p # o /\ q # o
    BY <1>3, <1>6, <2>2 DEF ApartInv, ListsStayApart
  <2> QED BY <1>6, <2>1, <2>2
<1>7. ASSUME NEW p \in Objects, of' # p
      PROVE  (ListsOf(p) \cap ListsOfPlain)' = {}
  <2>1. CASE p = o
    <3>1. CASE of # o
      BY <1>3, <1>5, <2>1, <3>1 DEF ApartInv, ListsStayApart
    <3>2. CASE of = o
      <4>1. \A k \in Keys : Stems(map[k], None, stamp, k)
        BY <1>7, <2>1, <3>2
      <4>2. \A x \in ListsOf(o)' : \E k \in Keys : x = <<stamp, k>>
        BY <1>4, <4>1
      <4>3. \A x \in ListsOf(o)' : x \notin ListsOfPlain
        BY <4>2, FreshIsNobodys
      <4> QED BY <1>3, <2>1, <4>3
    <3> QED BY <3>1, <3>2
  <2>2. CASE p # o
    <3>1. of # p
      BY <1>7, <2>2
    <3> QED BY <1>3, <2>2, <3>1 DEF ApartInv, ListsStayApart
  <2> QED BY <2>1, <2>2
<1>8. ASSUME NEW p \in Objects, NEW k \in Keys, NEW l \in Keys, k # l,
             store'[p][k] # None, store'[p][l] # None, store'[p][k].value \in Lists
      PROVE  store'[p][k].value # store'[p][l].value
  <2>1. CASE p # o
    BY <1>1, <1>8, <2>1 DEF ApartInv, ListsStayApart
  <2>2. CASE p = o
    <3>1. SUFFICES ASSUME map[k].value = map[l].value PROVE FALSE
      BY <1>1, <2>2
    <3>2. map[k] # None /\ map[l] # None /\ map[k].value \in Lists
      BY <1>1, <1>8, <2>2
    <3>3. \/ store[o][k] # None /\ map[k].value = store[o][k].value
          \/ map[k].value = <<stamp, k>>
      BY <3>2 DEF Stems
    <3>4. \/ store[o][l] # None /\ map[l].value = store[o][l].value
          \/ map[l].value = <<stamp, l>>
      BY <3>1, <3>2 DEF Stems
    <3>5. \A m \in Keys : store[o][m] # None /\ store[o][m].value \in Lists
                          => store[o][m].value \in ListsOf(o)
      BY DEF ListsOf
    <3>6. <<stamp, k>> \notin ListsOf(o) /\ <<stamp, l>> \notin ListsOf(o)
      BY FreshIsNobodys
    <3>7. <<stamp, k>> # <<stamp, l>>
      BY <1>8
    <3>8. CASE map[k].value = <<stamp, k>>
      BY <3>1, <3>2, <3>4, <3>5, <3>6, <3>7, <3>8
    <3>9. CASE store[o][k] # None /\ map[k].value = store[o][k].value
      <4>1. map[l].value # <<stamp, l>>
        BY <3>1, <3>2, <3>5, <3>6, <3>9
      <4>2. store[o][l] # None /\ map[l].value = store[o][l].value
        BY <3>4, <4>1
      <4> QED BY <1>8, <3>1, <3>2, <3>9, <4>2 DEF ApartInv, ListsStayApart
    <3> QED BY <3>3, <3>8, <3>9
  <2> QED BY <2>1, <2>2
<1>9. ListsStayApart'
  BY <1>6, <1>7, <1>8 DEF ListsStayApart
<1> QED BY <1>2, <1>9 DEF ApartInv

(***************************************************************************)
(* The calls, one by one.                                                  *)
(***************************************************************************)

\* Setting, merging, removing and renaming leave every entry with its list, or
\* with a new one.
LEMMA EditStep ==
  ASSUME ApartInv, NEW o \in Objects, NEW stamp, Fresh(stamp), NEW map,
         map = [k \in Keys |-> map[k]],
         \A k \in Keys : Stems(map[k], store[o][k], stamp, k),
         Becomes(o, map)
  PROVE  ApartInv'
BY Becoming DEF Becomes

LEMMA ConcatStep ==
  ASSUME ApartInv, NEW o \in Objects, NEW stamp, Fresh(stamp), NEW sources,
         Concat(o, sources, stamp)
  PROVE  ApartInv'
<1> DEFINE one == Merged(Empty, sources[1], TRUE, stamp)
           two == Merged(one, sources[2], TRUE, stamp)
           map == IF Len(sources) = 1 THEN one ELSE two
<1>1. \A k \in Keys : Stems(one[k], None, stamp, k)
  <2>1. \A k \in Keys : Empty[k] = None
    BY DEF Empty
  <2> QED BY <2>1, MergedStems DEF Stems
<1>2. \A k \in Keys : Stems(two[k], None, stamp, k)
  <2> HIDE DEF one
  <2> QED BY <1>1, MergedStems DEF Stems
<1>3. one = [k \in Keys |-> one[k]] /\ two = [k \in Keys |-> two[k]]
  <2>1. ASSUME NEW m, NEW s PROVE LET r == Merged(m, s, TRUE, stamp) IN r = [k \in Keys |-> r[k]]
    BY DEF Merged
  <2> QED BY <2>1
<1> HIDE DEF one, two
<1>4. map = [k \in Keys |-> map[k]] /\ \A k \in Keys : Stems(map[k], None, stamp, k)
  BY <1>1, <1>2, <1>3
<1>5. store' = [store EXCEPT ![o] = map] /\ plain' = plain /\ of' = IF of = o THEN None ELSE of
  BY DEF Concat, one, two
<1> HIDE DEF map
<1>6. \A k \in Keys : Stems(map[k], store[o][k], stamp, k)
  BY <1>4 DEF Stems
<1> QED BY <1>4, <1>5, <1>6, Becoming

LEMMA SetStep ==
  ASSUME ApartInv, NEW o \in Objects, NEW name \in Names, NEW value, NEW rewrite,
         NEW stamp, Fresh(stamp), Set(o, name, value, rewrite, stamp)
  PROVE  ApartInv'
<1> DEFINE entry == IF value = Undefined THEN None ELSE [name |-> name, value |-> value]
           put == SetInMap(store[o][Key(name)], entry, entry, rewrite, stamp, Key(name))
           map == [store[o] EXCEPT ![Key(name)] = put]
<1>1. Becomes(o, map)
  BY DEF Set
<1>2. \A k \in Keys : map[k] = IF k = Key(name) THEN put ELSE store[o][k]
  BY DEF ApartInv, Shaped
<1>3. map = [k \in Keys |-> map[k]]
  BY DEF ApartInv, Shaped
<1>4. put = store[o][Key(name)] \/ put.value = <<stamp, Key(name)>> \/ put.value \notin Lists
  <2> HIDE DEF entry
  <2> QED BY SetInMapStems
<1> HIDE DEF map, put
<1>5. \A k \in Keys : Stems(map[k], store[o][k], stamp, k)
  BY <1>2, <1>4 DEF Stems
<1> QED BY <1>1, <1>3, <1>5, EditStep

LEMMA SetAllStep ==
  ASSUME ApartInv, NEW o \in Objects, NEW source, NEW rewrite,
         NEW stamp, Fresh(stamp), SetAll(o, source, rewrite, stamp)
  PROVE  ApartInv'
<1> DEFINE map == Merged(store[o], source, rewrite, stamp)
<1>1. Becomes(o, map)
  BY DEF SetAll
<1>2. map = [k \in Keys |-> map[k]]
  BY DEF Merged
<1>3. \A k \in Keys : Stems(map[k], store[o][k], stamp, k)
  BY MergedStems DEF Stems
<1> HIDE DEF map
<1> QED BY <1>1, <1>2, <1>3, EditStep

\* Delete and Normalize make no list: no list has the number zero.
LEMMA KeepStep ==
  ASSUME ApartInv, NEW o \in Objects, NEW map, map = [k \in Keys |-> map[k]],
         \A k \in Keys : \/ map[k] = None
                         \/ store[o][k] # None /\ map[k].value = store[o][k].value,
         Becomes(o, map)
  PROVE  ApartInv'
<1>1. \A x : <<<<o, 0>>, x>> \notin Lists
  <2>1. 0 \notin 1 .. MaxLists
    OBVIOUS
  <2> QED BY <2>1 DEF Lists, Stamps
<1>2. Fresh(<<o, 0>>)
  BY <1>1 DEF Fresh, Held, ListsOf, ListsOfPlain
<1>3. \A k \in Keys : Stems(map[k], store[o][k], <<o, 0>>, k)
  BY DEF Stems
<1> QED BY <1>2, <1>3, EditStep

LEMMA DeleteStep ==
  ASSUME ApartInv, NEW o \in Objects, NEW keys, Delete(o, keys)
  PROVE  ApartInv'
<1> DEFINE there == {k \in keys : store[o][k] # None}
           map == [k \in Keys |-> IF k \in there THEN None ELSE store[o][k]]
<1>1. Becomes(o, map)
  BY DEF Delete
<1>2. \A k \in Keys : \/ map[k] = None
                      \/ store[o][k] # None /\ map[k].value = store[o][k].value
  OBVIOUS
<1>3. map = [k \in Keys |-> map[k]]
  OBVIOUS
<1> HIDE DEF map
<1> QED BY <1>1, <1>2, <1>3, KeepStep

LEMMA NormalizeStep ==
  ASSUME ApartInv, TypeOK, NEW o \in Objects, Normalize(o)
  PROVE  ApartInv'
<1> DEFINE map == [k \in Keys |-> IF store[o][k] = None THEN None
                                  ELSE [store[o][k] EXCEPT !.name = Titled(@)]]
<1>1. Becomes(o, map)
  BY DEF Normalize
<1>2. ASSUME NEW k \in Keys
      PROVE  \/ map[k] = None
             \/ store[o][k] # None /\ map[k].value = store[o][k].value
  <2>1. store[o][k] = None \/ store[o][k] \in Entries
    BY DEF TypeOK, Maps
  <2>2. CASE store[o][k] # None
    <3>1. map[k] = [store[o][k] EXCEPT !.name = Titled(@)]
      BY <2>2
    <3> QED BY <2>1, <2>2, <3>1 DEF Entries
  <2> QED BY <2>2
<1>3. map = [k \in Keys |-> map[k]]
  OBVIOUS
<1> HIDE DEF map
<1> QED BY <1>1, <1>2, <1>3, KeepStep

LEMMA ToJSONStep ==
  ASSUME ApartInv, NEW o \in Objects, ToJSON(o)
  PROVE  ApartInv'
<1>1. \A i \in DOMAIN plain' : plain'[i] \in Shown(store[o])
  BY DEF ToJSON, SetToSeqs
<1>2. ListsOfPlain' \subseteq ListsOf(o)
  BY <1>1 DEF ListsOfPlain, ListsOf, Shown
<1>3. store' = store /\ of' = o
  BY DEF ToJSON
<1>4. \A p \in Objects : ListsOf(p)' = ListsOf(p)
  BY <1>3 DEF ListsOf
<1>5. \A p \in Objects : of' # p => (ListsOf(p) \cap ListsOfPlain)' = {}
  BY <1>2, <1>3, <1>4 DEF ApartInv, ListsStayApart
<1> QED BY <1>3, <1>4, <1>5 DEF ApartInv, ListsStayApart, Shaped

LEMMA WriteStep ==
  ASSUME ApartInv, NEW literal \in Literals, NEW stamp, Fresh(stamp), Write(literal, stamp)
  PROVE  ApartInv'
<1>1. store' = store /\ \A p \in Objects : ListsOf(p)' = ListsOf(p)
  BY DEF Write, ListsOf
<1>2. ASSUME NEW i \in DOMAIN plain'
      PROVE  plain'[i].value \notin Lists
             \/ \E x \in Names : plain'[i].value = <<stamp, x>>
  <2>1. i \in DOMAIN literal /\ plain'[i] = IF literal[i].value = AList
                    THEN [literal[i] EXCEPT !.value = <<stamp, literal[i].name>>]
                    ELSE literal[i]
    BY DEF Write
  <2>2. literal[i] \in [name : Names, value : Texts \cup Off \cup {Undefined, AList}]
    <3>1. literal \in Seq([name : Names, value : Texts \cup Off \cup {Undefined, AList}])
      BY LiteralsAssumption
    <3> QED BY <2>1, <3>1, ElementOfSeq, LenProperties
  <2>3. CASE literal[i].value = AList
    BY <2>1, <2>2, <2>3
  <2>4. CASE literal[i].value # AList
    <3>1. literal[i].value \in Texts \cup Off \cup {Undefined}
      BY <2>2, <2>4
    <3>2. literal[i].value \notin Lists
      BY <3>1, LiteralsAssumption DEF Values
    <3> QED BY <2>1, <2>4, <3>2
  <2> QED BY <2>3, <2>4
<1>3. \A x \in ListsOfPlain' : \E y \in Names : x = <<stamp, y>>
  BY <1>2 DEF ListsOfPlain
<1>4. \A p \in Objects : (ListsOf(p) \cap ListsOfPlain)' = {}
  BY <1>1, <1>3, FreshIsNobodys
<1> QED BY <1>1, <1>4 DEF ApartInv, ListsStayApart, Shaped

(***************************************************************************)
(* Types, call by call.                                                    *)
(***************************************************************************)

LEMMA ConcatType ==
  ASSUME TypeOK, NEW o \in Objects, NEW stamp \in Stamps,
         NEW source \in Sources, NEW other \in Sources,
         Concat(o, <<source>>, stamp) \/ Concat(o, <<source, other>>, stamp)
  PROVE  TypeOK'
<1> DEFINE one == Merged(Empty, source, TRUE, stamp)
           two == Merged(one, other, TRUE, stamp)
<1>1. Proper(Empty)
  BY DEF Empty, Proper, Maps
<1>2. Proper(one)
  BY <1>1, MergedType
<1>3. Proper(two)
  <2> HIDE DEF one
  <2> QED BY <1>2, MergedType
<1>4. PICK map \in {one, two} : store' = [store EXCEPT ![o] = map]
  <2>1. CASE Concat(o, <<source>>, stamp)
    BY <2>1 DEF Concat
  <2>2. CASE Concat(o, <<source, other>>, stamp)
    BY <2>2 DEF Concat
  <2> QED BY <2>1, <2>2
<1>5. plain' = plain /\ of' \in {None, of} /\ answer' \in BOOLEAN
  BY DEF Concat
<1> HIDE DEF one, two
<1> QED BY <1>2, <1>3, <1>4, <1>5, StoreType

LEMMA SetType ==
  ASSUME TypeOK, NEW o \in Objects, NEW stamp \in Stamps, NEW name \in Names,
         NEW value \in Texts \cup Off \cup {Undefined} \cup Held, NEW rewrite,
         Set(o, name, value, rewrite, stamp)
  PROVE  TypeOK'
<1> DEFINE entry == IF value = Undefined THEN None ELSE [name |-> name, value |-> value]
           put == SetInMap(store[o][Key(name)], entry, entry, rewrite, stamp, Key(name))
           map == [store[o] EXCEPT ![Key(name)] = put]
<1>1. Key(name) \in Keys
  BY DEF Keys
<1>2. value # Undefined => value \in Values
  BY DEF Values, Held, ListsOf, ListsOfPlain
<1>3. entry # None => At(entry, Key(name))
  BY <1>2 DEF At, Entries
<1>4. Proper(store[o])
  BY StoredType
<1> HIDE DEF entry
<1>5. put = None \/ At(put, Key(name))
  BY <1>1, <1>3, <1>4, SetInMapType DEF Proper
<1> HIDE DEF put
<1>6. map \in Maps
  BY <1>1, <1>4, <1>5 DEF Proper, Maps, At
<1>7. \A k \in Keys : map[k] = IF k = Key(name) THEN put ELSE store[o][k]
  BY <1>4 DEF Proper, Maps
<1>8. Proper(map)
  BY <1>4, <1>5, <1>6, <1>7 DEF Proper
<1>9. store' = [store EXCEPT ![o] = map] /\ plain' = plain /\ of' = of /\ answer' = TRUE
  BY DEF Set, Becomes, put, entry
<1> HIDE DEF map
<1> QED BY <1>8, <1>9, StoreType

LEMMA SetAllType ==
  ASSUME TypeOK, NEW o \in Objects, NEW stamp \in Stamps, NEW source \in Sources,
         NEW rewrite, SetAll(o, source, rewrite, stamp)
  PROVE  TypeOK'
<1> DEFINE map == Merged(store[o], source, rewrite, stamp)
<1>1. Proper(map)
  BY StoredType, MergedType
<1>2. store' = [store EXCEPT ![o] = map] /\ plain' = plain /\ of' = of /\ answer' = TRUE
  BY DEF SetAll, Becomes
<1> HIDE DEF map
<1> QED BY <1>1, <1>2, StoreType

LEMMA DeleteType ==
  ASSUME TypeOK, NEW o \in Objects, NEW keys, Delete(o, keys)
  PROVE  TypeOK'
<1> DEFINE there == {k \in keys : store[o][k] # None}
           map == [k \in Keys |-> IF k \in there THEN None ELSE store[o][k]]
<1>1. Proper(store[o])
  BY StoredType
<1>2. \A k \in Keys : map[k] = None \/ map[k] = store[o][k]
  OBVIOUS
<1>3. map = [k \in Keys |-> map[k]]
  OBVIOUS
<1>4. store' = [store EXCEPT ![o] = map] /\ plain' = plain /\ of' = of /\ answer' \in BOOLEAN
  BY DEF Delete, Becomes
<1> HIDE DEF map
<1>5. Proper(map)
  BY <1>1, <1>2, <1>3 DEF Proper, Maps
<1> QED BY <1>4, <1>5, StoreType

LEMMA NormalizeType ==
  ASSUME TypeOK, NEW o \in Objects, Normalize(o)
  PROVE  TypeOK'
<1> DEFINE map == [k \in Keys |-> IF store[o][k] = None THEN None
                                  ELSE [store[o][k] EXCEPT !.name = Titled(@)]]
<1>1. Proper(store[o])
  BY StoredType
<1>2. ASSUME NEW k \in Keys PROVE map[k] = None \/ At(map[k], k)
  <2>1. CASE store[o][k] # None
    <3>1. map[k] = [store[o][k] EXCEPT !.name = Titled(@)]
      BY <2>1
    <3>2. At(store[o][k], k)
      BY <1>1, <2>1 DEF Proper
    <3> QED BY <3>1, <3>2, NamesAssumption DEF At, Entries
  <2> QED BY <2>1
<1>3. map = [k \in Keys |-> map[k]]
  OBVIOUS
<1>4. store' = [store EXCEPT ![o] = map] /\ plain' = plain /\ of' = of /\ answer' = TRUE
  BY DEF Normalize, Becomes
<1> HIDE DEF map
<1>5. Proper(map)
  BY <1>2, <1>3 DEF Proper, Maps, At
<1> QED BY <1>4, <1>5, StoreType

LEMMA ToJSONType ==
  ASSUME TypeOK, NEW o \in Objects, ToJSON(o)
  PROVE  TypeOK'
<1> DEFINE D == {k \in Keys : store[o][k] # None /\ store[o][k].value \notin Off}
           S == Shown(store[o])
<1>1. IsFiniteSet(Keys)
  <2> DEFINE f == [name \in Names |-> Key(name)]
  <2>1. Keys = {f[name] : name \in Names}
    BY DEF Keys
  <2> HIDE DEF f
  <2> QED BY <2>1, NamesAssumption, FiniteImage
<1>2. IsFiniteSet(D)
  BY <1>1, FS_Subset
<1>3. S = {store[o][k] : k \in D}
  BY DEF Shown
<1>4. IsFiniteSet(S)
  <2> DEFINE f == store[o]
  <2>1. S = {f[k] : k \in D}
    BY <1>3
  <2> HIDE DEF D, S, f
  <2> QED BY <1>2, <2>1, FiniteImage
<1>5. S \subseteq [name : Names, value : Values \cup {Undefined}]
  <2>1. \A k \in D : store[o][k] \in Entries
    BY StoredType DEF Proper, At
  <2> HIDE DEF D, S
  <2> QED BY <1>3, <2>1 DEF Entries
<1>6. Cardinality(S) \in Nat
  BY <1>4, FS_CardinalityType
<1>7. plain' \in [1 .. Cardinality(S) -> S]
  BY DEF ToJSON, SetToSeqs
<1> HIDE DEF S
<1>8. plain' \in [1 .. Cardinality(S) -> [name : Names, value : Values \cup {Undefined}]]
  BY <1>5, <1>7
<1>9. plain' \in Seq([name : Names, value : Values \cup {Undefined}])
  BY <1>6, <1>8, SeqDef
<1> QED BY <1>9 DEF ToJSON, TypeOK

LEMMA WriteType ==
  ASSUME TypeOK, NEW literal \in Literals, NEW stamp \in Stamps, Write(literal, stamp)
  PROVE  TypeOK'
<1> DEFINE V == [name : Names, value : Values \cup {Undefined}]
<1>1. literal \in Seq([name : Names, value : Texts \cup Off \cup {Undefined, AList}])
  BY LiteralsAssumption
<1>2. DOMAIN literal = 1 .. Len(literal) /\ Len(literal) \in Nat
  BY <1>1, LenProperties
<1>3. ASSUME NEW i \in DOMAIN literal PROVE plain'[i] \in V
  <2>1. literal[i] \in [name : Names, value : Texts \cup Off \cup {Undefined, AList}]
    BY <1>1, <1>2, ElementOfSeq
  <2>2. plain'[i] = IF literal[i].value = AList
                    THEN [literal[i] EXCEPT !.value = <<stamp, literal[i].name>>]
                    ELSE literal[i]
    BY DEF Write
  <2>3. CASE literal[i].value = AList
    <3>1. <<stamp, literal[i].name>> \in Values
      BY <2>1 DEF Values, Lists
    <3> QED BY <2>1, <2>2, <2>3, <3>1
  <2>4. CASE literal[i].value # AList
    <3>1. literal[i].value \in Values \cup {Undefined}
      BY <2>1, <2>4 DEF Values
    <3> QED BY <2>1, <2>2, <2>4, <3>1
  <2> QED BY <2>3, <2>4
<1>4. plain' = [i \in DOMAIN literal |-> plain'[i]]
  BY DEF Write
<1> HIDE DEF V
<1>5. plain' \in [1 .. Len(literal) -> V]
  BY <1>2, <1>3, <1>4
<1>6. plain' \in Seq(V)
  BY <1>2, <1>5, SeqDef
<1> QED BY <1>6 DEF Write, TypeOK, V

(***************************************************************************)
(* The specification.                                                      *)
(***************************************************************************)

Inv == TypeOK /\ ApartInv

LEMMA InvInit ==
  ASSUME Init
  PROVE  Inv
<1>1. \A o \in Objects, k \in Keys : store[o][k] = None
  BY DEF Init, Empty
<1>2. TypeOK
  <2>1. store \in [Objects -> Maps]
    BY DEF Init, Empty, Maps
  <2> QED BY <1>1, <2>1 DEF Init, TypeOK
<1>3. Shaped
  BY DEF Shaped, Init, Empty
<1>4. ListsStayApart
  <2>1. \A o \in Objects : ListsOf(o) = {}
    BY <1>1 DEF ListsOf
  <2> QED BY <1>1, <2>1 DEF ListsStayApart
<1> QED BY <1>2, <1>3, <1>4 DEF Inv, ApartInv

LEMMA RefuseStep ==
  ASSUME Inv, UNCHANGED <<store, plain, of>>, answer' \in BOOLEAN
  PROVE  Inv'
<1>1. TypeOK'
  BY DEF Inv, TypeOK
<1>2. ListsOfPlain' = ListsOfPlain /\ \A o \in Objects : ListsOf(o)' = ListsOf(o)
  BY DEF ListsOf, ListsOfPlain
<1>3. Shaped' /\ ListsStayApart'
  BY <1>2 DEF Inv, ApartInv, Shaped, ListsStayApart
<1> QED BY <1>1, <1>3 DEF Inv, ApartInv

LEMMA CallsStep ==
  ASSUME Inv, NEW o \in Objects, CanMake(o), Calls(o, NewStamp(o))
  PROVE  Inv'
<1> DEFINE stamp == NewStamp(o)
<1>1. stamp \in Stamps /\ Fresh(stamp)
  BY StampType, StampIsFresh
<1> HIDE DEF stamp
<1>2. CASE \E source, other \in Sources :
             Concat(o, <<source>>, stamp) \/ Concat(o, <<source, other>>, stamp)
  BY <1>1, <1>2, ConcatType, ConcatStep DEF Inv
<1>3. CASE \E source \in Sources, rewrite \in BOOLEAN : SetAll(o, source, rewrite, stamp)
  BY <1>1, <1>3, SetAllType, SetAllStep DEF Inv
<1>4. ASSUME NEW name \in Names, NEW value \in Texts \cup Off \cup {Undefined} \cup Held,
             NEW rewrite \in BOOLEAN, Set(o, name, value, rewrite, stamp)
      PROVE  Inv'
  BY <1>1, <1>4, SetType, SetStep DEF Inv
<1>5. ASSUME NEW name \in Names, NEW value \in Texts \cup Off \cup {Undefined} \cup Held,
             Assign(o, name, value, stamp)
      PROVE  Inv'
  <2>1. CASE name \in Members
    BY <1>5, <2>1, RefuseStep DEF Assign, Refuse
  <2>2. CASE name \notin Members
    BY <1>4, <1>5, <2>2 DEF Assign
  <2> QED BY <2>1, <2>2
<1>6. Calls(o, stamp)
  BY DEF stamp
<1>7. CASE \E source \in Sources :
             Concat(o, <<source>>, stamp)
             \/ \E other \in Sources : Concat(o, <<source, other>>, stamp)
  BY <1>2, <1>7
<1> QED BY <1>3, <1>4, <1>5, <1>6, <1>7 DEF Calls

LEMMA InvStep ==
  ASSUME Inv, [Next]_vars
  PROVE  Inv'
<1>1. ASSUME NEW o \in Objects, CanMake(o), Calls(o, NewStamp(o)) PROVE Inv'
  BY <1>1, CallsStep
<1>2. ASSUME NEW o \in Objects, NEW keys, Delete(o, keys) PROVE Inv'
  BY <1>2, DeleteType, DeleteStep DEF Inv
<1>3. ASSUME NEW o \in Objects, NEW name \in Names, DeleteProperty(o, name) PROVE Inv'
  <2>1. CASE name \in Members
    BY <1>3, <2>1, RefuseStep DEF DeleteProperty, Refuse
  <2>2. CASE name \notin Members
    BY <1>2, <1>3, <2>2 DEF DeleteProperty
  <2> QED BY <2>1, <2>2
<1>4. ASSUME NEW o \in Objects, Normalize(o) PROVE Inv'
  BY <1>4, NormalizeType, NormalizeStep DEF Inv
<1>5. ASSUME NEW o \in Objects, ToJSON(o) PROVE Inv'
  BY <1>5, ToJSONType, ToJSONStep DEF Inv
<1>6. ASSUME NEW literal \in Literals, CanMake(None), Write(literal, NewStamp(None)) PROVE Inv'
  <2>1. NewStamp(None) \in Stamps /\ Fresh(NewStamp(None))
    BY <1>6, StampType, StampIsFresh
  <2> QED BY <1>6, <2>1, WriteType, WriteStep DEF Inv
<1>7. CASE UNCHANGED vars
  BY <1>7, RefuseStep DEF vars, Inv, TypeOK
<1> QED BY <1>1, <1>2, <1>3, <1>4, <1>5, <1>6, <1>7 DEF Next

LEMMA InvAlways == Spec => []Inv
<1>1. Init => Inv
  BY InvInit
<1>2. Inv /\ [Next]_vars => Inv'
  BY InvStep
<1> QED BY <1>1, <1>2, PTL DEF Spec

(***************************************************************************)
(* Results.                                                                *)
(***************************************************************************)

\* Whatever was set, merged, removed or normalised, an entry is found under
\* the key of the name it shows, as setInMap and normalize() keep it.
THEOREM FoundUnderTheirName == Spec => []TypeOK
<1>1. Inv => TypeOK
  BY DEF Inv
<1> QED BY <1>1, InvAlways, PTL

\* No two headers objects share a list, none shares one with headers of the
\* application, and no two headers of an object do, as normalizeHeaderValue
\* copies lists; only what toJSON() gave out is shared.
THEOREM ListsApart == Spec => []ListsStayApart
<1>1. Inv => ListsStayApart
  BY DEF Inv, ApartInv
<1> QED BY <1>1, InvAlways, PTL

(***************************************************************************)
(* The map is the properties axios would keep: a step of one is a step of  *)
(* the other.                                                              *)
(***************************************************************************)

\* What axios is to hold, and be given: lists are one value.
AValues == Texts \cup Off \cup {AList}
AEntries == [name : Names, value : AValues]
Given == [name : Names, value : AValues \cup {Undefined}]

\* Entries by key, without the identity of lists, and the properties they are.
AbstractMap(map) == [k \in Keys |-> IF map[k] = None THEN None ELSE Abstract(map[k])]
Made(f) == {f[k] : k \in {k \in Keys : f[k] # None}}
Placed(f) == f \in [Keys -> AEntries \cup {None}] /\ \A k \in Keys : f[k] # None => Key(f[k].name) = k

LEMMA ValuesApart ==
  /\ Undefined \notin AValues /\ AList \notin Off
  /\ None \notin Entries /\ None \notin AEntries /\ None \notin Given
<1>1. Undefined \notin AValues /\ AList \notin Off
  BY LiteralsAssumption DEF AValues, Values
<1>2. \A S, T : None \notin [name : S, value : T]
  BY DEF None
<1> QED BY <1>1, <1>2 DEF Entries, AEntries, Given

LEMMA AbstractType ==
  /\ \A e \in Entries : /\ Abstract(e) \in AEntries /\ Abstract(e).name = e.name
                        /\ Abstract(e).value = IF e.value \in Lists THEN AList ELSE e.value
  /\ \A e \in [name : Names, value : Values \cup {Undefined}] :
       /\ Abstract(e) \in Given /\ Abstract(e).name = e.name
       /\ Abstract(e).value = IF e.value \in Lists THEN AList ELSE e.value
       /\ Abstract(e).value = Undefined <=> e.value = Undefined
<1>1. ASSUME NEW V, NEW e \in [name : Names, value : V]
      PROVE  /\ Abstract(e).name = e.name
             /\ Abstract(e).value = IF e.value \in Lists THEN AList ELSE e.value
             /\ Abstract(e) \in [name : Names, value : {Abstract(e).value}]
  <2>1. CASE e.value \in Lists
    BY <2>1 DEF Abstract
  <2>2. CASE e.value \notin Lists
    BY <2>2 DEF Abstract
  <2> QED BY <2>1, <2>2
<1>2. \A v \in Values : (IF v \in Lists THEN AList ELSE v) \in AValues
  BY DEF Values, AValues
<1>3. Undefined \notin Lists /\ Undefined # AList
  BY LiteralsAssumption DEF Values
<1>4. ASSUME NEW e \in Entries
      PROVE  /\ Abstract(e) \in AEntries /\ Abstract(e).name = e.name
             /\ Abstract(e).value = IF e.value \in Lists THEN AList ELSE e.value
  <2>1. e \in [name : Names, value : Values]
    BY DEF Entries
  <2>2. /\ Abstract(e).name = e.name
        /\ Abstract(e).value = IF e.value \in Lists THEN AList ELSE e.value
        /\ Abstract(e) \in [name : Names, value : {Abstract(e).value}]
    BY <1>1, <2>1
  <2>3. Abstract(e).value \in AValues
    BY <1>2, <2>1, <2>2
  <2> QED BY <2>2, <2>3 DEF AEntries
<1>5. ASSUME NEW e \in [name : Names, value : Values \cup {Undefined}]
      PROVE  /\ Abstract(e) \in Given /\ Abstract(e).name = e.name
             /\ Abstract(e).value = IF e.value \in Lists THEN AList ELSE e.value
             /\ Abstract(e).value = Undefined <=> e.value = Undefined
  <2>2. /\ Abstract(e).name = e.name
        /\ Abstract(e).value = IF e.value \in Lists THEN AList ELSE e.value
        /\ Abstract(e) \in [name : Names, value : {Abstract(e).value}]
    BY <1>1
  <2>3. Abstract(e).value \in AValues \cup {Undefined}
    BY <1>2, <1>3, <2>2
  <2>4. Abstract(e).value = Undefined <=> e.value = Undefined
    BY <1>3, <2>2
  <2> QED BY <2>2, <2>3, <2>4 DEF Given
<1> QED BY <1>4, <1>5

LEMMA AbstractMapPlaced ==
  ASSUME NEW map, Proper(map)
  PROVE  /\ Placed(AbstractMap(map)) /\ Properties(map) = Made(AbstractMap(map))
         /\ \A k \in Keys : AbstractMap(map)[k] = None <=> map[k] = None
<1>1. \A k \in Keys : map[k] # None => /\ Abstract(map[k]) \in AEntries
                                       /\ Abstract(map[k]) # None
                                       /\ Key(Abstract(map[k]).name) = k
  BY AbstractType, ValuesApart DEF Proper, At
<1>2. \A k \in Keys : AbstractMap(map)[k] = IF map[k] = None THEN None ELSE Abstract(map[k])
  BY DEF AbstractMap
<1>3. AbstractMap(map) \in [Keys -> AEntries \cup {None}]
  BY <1>1 DEF AbstractMap
<1>4. Properties(map) = Made(AbstractMap(map))
  BY <1>1, <1>2 DEF Properties, Made
<1> QED BY <1>1, <1>2, <1>3, <1>4 DEF Placed

\* The one property there can be under a name.
LEMMA FindMade ==
  ASSUME NEW f, Placed(f), NEW name \in Names
  PROVE  Axios!Find(Made(f), name) = IF f[Key(name)] = None THEN {} ELSE {f[Key(name)]}
<1>1. Key(name) \in Keys
  BY DEF Keys
<1>2. \A p : p \in Axios!Find(Made(f), name) <=> p = f[Key(name)] /\ p # None
  BY <1>1 DEF Axios!Find, Made, Placed
<1> QED BY <1>2

\* One property put.
PutOne(old, e, rewrite) ==
  IF e.value = Undefined \/ (~rewrite /\ old # None) THEN old
  ELSE [name |-> IF old = None THEN e.name ELSE old.name, value |-> e.value]
PutAt(f, e, rewrite) == [k \in Keys |-> IF k = Key(e.name) THEN PutOne(f[k], e, rewrite) ELSE f[k]]

LEMMA PutMade ==
  ASSUME NEW f, Placed(f), NEW e \in Given, NEW rewrite \in BOOLEAN
  PROVE  Placed(PutAt(f, e, rewrite)) /\ PutHere(Made(f), e, rewrite) = Made(PutAt(f, e, rewrite))
<1> DEFINE key == Key(e.name)
           old == f[key]
           new == PutOne(old, e, rewrite)
           g == PutAt(f, e, rewrite)
           found == Axios!Find(Made(f), e.name)
<1>1. e.name \in Names /\ e.value \in AValues \cup {Undefined} /\ key \in Keys
  BY DEF Given, Keys
<1>2. found = IF old = None THEN {} ELSE {old}
  BY <1>1, FindMade
<1>3. old = None \/ (old \in AEntries /\ Key(old.name) = key /\ old.name \in Names)
  BY <1>1 DEF Placed, AEntries
<1>4. g = [k \in Keys |-> IF k = key THEN new ELSE f[k]]
  BY DEF PutAt
<1>11. \A p \in found : p = old /\ p.value # Undefined /\ p = [name |-> p.name, value |-> p.value]
  BY <1>1, <1>2, <1>3, ValuesApart DEF AEntries
<1>12. PutHere(Made(f), e, rewrite) =
        IF e.value = Undefined THEN Made(f)
        ELSE Axios!Put(Made(f), e, IF rewrite THEN "true" ELSE "false")
  BY DEF PutHere
<1> HIDE DEF g, found
<1>5. CASE e.value = Undefined \/ (~rewrite /\ found # {})
  <2>1. new = old
    BY <1>2, <1>5 DEF PutOne
  <2>2. g = f
    BY <1>1, <1>4, <2>1 DEF Placed
  <2>3. PutHere(Made(f), e, rewrite) = Made(f)
    <3>1. ASSUME e.value # Undefined
          PROVE  Axios!Put(Made(f), e, "false") = Made(f)
      <4>1. PICK p \in found : p = CHOOSE q \in found : TRUE
        BY <1>5, <3>1
      <4>2. ~Axios!Yields(p, "false")
        BY <1>11, <4>1 DEF Axios!Yields
      <4> QED BY <4>1, <4>2 DEF Axios!Put, found
    <3> QED BY <1>5, <1>12, <3>1
  <2> QED BY <2>2, <2>3 DEF g
<1>6. CASE ~(e.value = Undefined \/ (~rewrite /\ found # {}))
  <2> DEFINE put == [name |-> IF old = None THEN e.name ELSE old.name, value |-> e.value]
  <2>1. new = put
    BY <1>2, <1>6 DEF PutOne
  <2>2. put \in AEntries /\ put.name = (IF old = None THEN e.name ELSE old.name)
    BY <1>1, <1>3, <1>6 DEF AEntries
  <2>3. put # None /\ Key(put.name) = key
    BY <1>3, <2>2, ValuesApart
  <2>4. PutHere(Made(f), e, rewrite) = (Made(f) \ found) \cup {put}
    <3>1. old # None => (CHOOSE p \in found : TRUE) = old
      BY <1>2
    <3>2. CASE old = None
      <4>1. e = put
        BY <3>2 DEF Given
      <4>2. found = {}
        BY <1>2, <3>2
      <4> HIDE DEF put
      <4> QED BY <1>6, <1>12, <4>1, <4>2 DEF Axios!Put, found
    <3>3. CASE old # None
      <4>1. rewrite /\ found = {old} /\ old.value # Undefined
        BY <1>2, <1>6, <1>11, <3>3
      <4>2. [old EXCEPT !.value = e.value] = put
        BY <1>3, <3>3 DEF AEntries
      <4>3. Axios!Yields(old, "true")
        BY DEF Axios!Yields
      <4> HIDE DEF put
      <4>4. Axios!Put(Made(f), e, "true") = (Made(f) \ {old}) \cup {put}
        BY <3>1, <3>3, <4>1, <4>2, <4>3 DEF Axios!Put, found
      <4> QED BY <1>6, <1>12, <4>1, <4>4
    <3> QED BY <3>2, <3>3
  <2> HIDE DEF put, new
  <2>5. Placed(g)
    <3>1. \A k \in Keys : g[k] = IF k = key THEN put ELSE f[k]
      BY <1>4, <2>1
    <3>2. g \in [Keys -> AEntries \cup {None}]
      BY <1>4, <2>1, <2>2 DEF Placed
    <3> QED BY <2>3, <3>1, <3>2 DEF Placed
  <2>6. Made(g) = (Made(f) \ found) \cup {put}
    <3>1. \A k \in Keys : g[k] = IF k = key THEN put ELSE f[k]
      BY <1>4, <2>1
    <3>2. \A p : p \in Made(g) <=> \E k \in Keys : g[k] = p /\ p # None
      BY DEF Made
    <3>3. \A p : p \in Made(f) <=> \E k \in Keys : f[k] = p /\ p # None
      BY DEF Made
    <3>4. \A k \in Keys : f[k] # None => (f[k] = old <=> k = key)
      BY <1>1, <1>3 DEF Placed
    <3>5. \A p : p \in Made(g) <=> p = put \/ (p \in Made(f) /\ p \notin found)
      <4>1. ASSUME NEW p \in Made(g) PROVE p = put \/ (p \in Made(f) /\ p \notin found)
        BY <1>2, <3>1, <3>2, <3>3, <3>4
      <4>2. put \in Made(g)
        BY <1>1, <2>3, <3>1, <3>2
      <4>3. ASSUME NEW p \in Made(f), p \notin found PROVE p \in Made(g)
        <5>1. PICK k \in Keys : f[k] = p /\ p # None
          BY <3>3
        <5>2. k # key
          BY <1>2, <4>3, <5>1
        <5> QED BY <3>1, <3>2, <5>1, <5>2
      <4> QED BY <4>1, <4>2, <4>3
    <3> QED BY <3>5
  <2> QED BY <2>4, <2>5, <2>6 DEF g
<1> QED BY <1>5, <1>6

LEMMA UpTo ==
  ASSUME NEW n \in Nat, NEW T, 0 \in T, \A m \in 1 .. n : m - 1 \in T => m \in T
  PROVE  \A m \in 0 .. n : m \in T
<1> DEFINE F == {m \in 0 .. n : m \notin T}
<1>1. ASSUME F # {} PROVE FALSE
  <2>1. F \subseteq Nat
    OBVIOUS
  <2>2. PICK x \in F : \A y \in F : x <= y
    BY <1>1, <2>1, Smallest
  <2>3. x \in 0 .. n /\ x \notin T /\ x # 0
    BY <2>2
  <2>4. x - 1 \notin F
    BY <2>2, <2>3
  <2>5. x - 1 \in T
    BY <2>3, <2>4
  <2> QED BY <2>3, <2>5
<1> QED BY <1>1

\* What putting the first n entries one after the other comes to.
Said(entries, k, n) == {i \in 1 .. n : Key(entries[i].name) = k /\ entries[i].value # Undefined}
FirstIn(S) == CHOOSE i \in S : \A j \in S : i <= j
LastIn(S) == CHOOSE i \in S : \A j \in S : j <= i
Whole(old, entries, S, rewrite) ==
  IF S = {} \/ (~rewrite /\ old # None) THEN old
  ELSE [name |-> IF old = None THEN entries[FirstIn(S)].name ELSE old.name,
        value |-> entries[IF rewrite THEN LastIn(S) ELSE FirstIn(S)].value]
WholeMap(f, entries, n, rewrite) ==
  [k \in Keys |-> Whole(f[k], entries, Said(entries, k, n), rewrite)]

LEMMA FirstAndLast ==
  ASSUME NEW n \in Nat, NEW S, S \subseteq 1 .. n, S # {}
  PROVE  /\ FirstIn(S) \in S /\ \A j \in S : FirstIn(S) <= j
         /\ LastIn(S) \in S /\ \A j \in S : j <= LastIn(S)
<1>1. \E i \in S : \A j \in S : i <= j
  <2>1. S \subseteq Nat
    OBVIOUS
  <2> QED BY <2>1, Smallest
<1>2. \E i \in S : \A j \in S : j <= i
  BY Largest
<1> QED BY <1>1, <1>2 DEF FirstIn, LastIn

LEMMA OneMore ==
  ASSUME NEW m \in Nat, m > 0, NEW S, S \subseteq 1 .. (m - 1)
  PROVE  /\ LastIn(S \cup {m}) = m
         /\ FirstIn(S \cup {m}) = IF S = {} THEN m ELSE FirstIn(S)
<1> DEFINE T == S \cup {m}
<1>1. T \subseteq 1 .. m /\ T # {} /\ m \in T /\ \A j \in S : j \in T /\ j < m /\ j \in Int
  OBVIOUS
<1> HIDE DEF T
<1>2. /\ FirstIn(T) \in T /\ \A j \in T : FirstIn(T) <= j
      /\ LastIn(T) \in T /\ \A j \in T : j <= LastIn(T)
  BY <1>1, FirstAndLast
<1> DEFINE first == FirstIn(T)
           last == LastIn(T)
<1>3. first \in 1 .. m /\ last \in 1 .. m
  BY <1>1, <1>2
<1> HIDE DEF first, last
<1>4. last = m
  <2>1. m <= last
    BY <1>1, <1>2 DEF last
  <2> QED BY <1>3, <2>1
<1>5. CASE S = {}
  <2>1. first = m
    BY <1>2, <1>5 DEF first, T
  <2> QED BY <1>4, <1>5, <2>1 DEF first, last, T
<1>6. CASE S # {}
  <2> DEFINE old == FirstIn(S)
  <2>1. old \in S /\ \A j \in S : old <= j
    <3>1. m - 1 \in Nat
      OBVIOUS
    <3> QED BY <1>6, <3>1, FirstAndLast
  <2> HIDE DEF old
  <2>2. first <= old /\ old < m /\ old \in Int
    BY <1>1, <1>2, <2>1 DEF first
  <2>3. first # m
    BY <1>3, <2>2
  <2>4. first \in S
    BY <1>2, <2>3 DEF first, T
  <2>5. old <= first
    BY <2>1, <2>4
  <2>6. first = old
    BY <1>3, <2>2, <2>5
  <2> QED BY <1>4, <1>6, <2>6 DEF first, last, old, T
<1> QED BY <1>5, <1>6 DEF T

\* One entry more is one put more.
LEMMA WholeStep ==
  ASSUME NEW f, NEW entries \in Seq(Given), NEW m \in 1 .. Len(entries), NEW rewrite \in BOOLEAN
  PROVE  PutAt(WholeMap(f, entries, m - 1, rewrite), entries[m], rewrite) = WholeMap(f, entries, m, rewrite)
<1> DEFINE e == entries[m]
           before == WholeMap(f, entries, m - 1, rewrite)
           after == WholeMap(f, entries, m, rewrite)
<1>1. ASSUME NEW k \in Keys
      PROVE  (IF k = Key(e.name) THEN PutOne(before[k], e, rewrite) ELSE before[k]) = after[k]
  <2> DEFINE S == Said(entries, k, m - 1)
             T == Said(entries, k, m)
  <2>1. S \subseteq 1 .. (m - 1) /\ m \in Nat /\ m > 0
    BY LenProperties DEF Said
  <2>2. before[k] = Whole(f[k], entries, S, rewrite) /\ after[k] = Whole(f[k], entries, T, rewrite)
    BY DEF WholeMap
  <2>3. T = IF k = Key(e.name) /\ e.value # Undefined THEN S \cup {m} ELSE S
    BY LenProperties DEF Said
  <2> HIDE DEF before, after, S, T
  <2>4. CASE ~(k = Key(e.name) /\ e.value # Undefined)
    <3>1. before[k] = after[k]
      BY <2>2, <2>3, <2>4
    <3> QED BY <2>4, <3>1 DEF PutOne
  <2>5. CASE k = Key(e.name) /\ e.value # Undefined
    <3>1. T = S \cup {m} /\ T # {}
      BY <2>3, <2>5
    <3>2. LastIn(T) = m /\ FirstIn(T) = IF S = {} THEN m ELSE FirstIn(S)
      BY <2>1, <3>1, OneMore
    <3>3. after[k] = IF ~rewrite /\ f[k] # None THEN f[k]
                     ELSE [name |-> IF f[k] = None THEN entries[FirstIn(T)].name ELSE f[k].name,
                           value |-> entries[IF rewrite THEN m ELSE FirstIn(T)].value]
      BY <2>2, <3>1, <3>2 DEF Whole
    <3>4. PutOne(before[k], e, rewrite)
            = IF ~rewrite /\ before[k] # None THEN before[k]
              ELSE [name |-> IF before[k] = None THEN e.name ELSE before[k].name, value |-> e.value]
      BY <2>5 DEF PutOne
    <3>5. CASE S = {}
      <4>1. before[k] = f[k]
        BY <2>2, <3>5 DEF Whole
      <4> QED BY <2>5, <3>2, <3>3, <3>4, <3>5, <4>1
    <3>6. CASE S # {} /\ ~rewrite /\ f[k] # None
      <4>1. before[k] = f[k]
        BY <2>2, <3>6 DEF Whole
      <4> QED BY <2>5, <3>3, <3>4, <3>6, <4>1
    <3>7. CASE S # {} /\ (rewrite \/ f[k] = None)
      <4> DEFINE name == IF f[k] = None THEN entries[FirstIn(S)].name ELSE f[k].name
      <4>1. before[k] = [name |-> name,
                         value |-> entries[IF rewrite THEN LastIn(S) ELSE FirstIn(S)].value]
        BY <2>2, <3>7 DEF Whole
      <4>2. before[k] # None /\ before[k].name = name
        BY <4>1 DEF None
      <4>3. CASE rewrite
        <5>1. after[k] = [name |-> name, value |-> e.value]
          BY <3>2, <3>3, <3>7, <4>3
        <5> QED BY <2>5, <3>4, <4>2, <4>3, <5>1
      <4>4. CASE ~rewrite
        <5>1. after[k] = before[k]
          BY <3>2, <3>3, <3>7, <4>1, <4>4
        <5> QED BY <2>5, <3>4, <4>2, <4>4, <5>1
      <4> QED BY <4>3, <4>4
    <3> QED BY <3>5, <3>6, <3>7
  <2> QED BY <2>4, <2>5
<1>2. before \in [Keys -> {before[k] : k \in Keys}] /\ after = [k \in Keys |-> after[k]]
  BY DEF WholeMap
<1> HIDE DEF before, after
<1>3. PutAt(before, e, rewrite) = after
  BY <1>1, <1>2 DEF PutAt
<1> QED BY <1>3 DEF before, after

\* What two functions agree on, entry for entry, they agree on in the end.
LEMMA InTheEnd ==
  ASSUME NEW n \in Nat, NEW u, NEW v, u[0] = v[0],
         \A m \in 1 .. n : u[m - 1] = v[m - 1] => u[m] = v[m]
  PROVE  u[n] = v[n]
<1> DEFINE T == {m \in 0 .. n : u[m] = v[m]}
<1>1. 0 \in T
  OBVIOUS
<1>2. \A m \in 1 .. n : m - 1 \in T => m \in T
  OBVIOUS
<1> HIDE DEF T
<1>3. \A m \in 0 .. n : m \in T
  BY <1>1, <1>2, UpTo
<1> QED BY <1>3 DEF T

LEMMA WholeMaps ==
  ASSUME NEW f, Placed(f), NEW entries \in Seq(Given), NEW rewrite \in BOOLEAN
  PROVE  /\ WholeMap(f, entries, 0, rewrite) = f
         /\ \A m \in 0 .. Len(entries) : Placed(WholeMap(f, entries, m, rewrite))
         /\ \A m \in 1 .. Len(entries) :
              PutHere(Made(WholeMap(f, entries, m - 1, rewrite)), entries[m], rewrite)
                = Made(WholeMap(f, entries, m, rewrite))
<1> DEFINE n == Len(entries)
           g == [m \in 0 .. n |-> WholeMap(f, entries, m, rewrite)]
<1>1. n \in Nat
  BY LenProperties
<1>2. WholeMap(f, entries, 0, rewrite) = f
  <2>1. \A k \in Keys : WholeMap(f, entries, 0, rewrite)[k] = f[k]
    BY DEF WholeMap, Whole, Said
  <2> QED BY <2>1 DEF WholeMap, Placed
<1>3. \A m \in 1 .. n : m - 1 \in 0 .. n /\ m \in 0 .. n /\ entries[m] \in Given
  BY <1>1, ElementOfSeq
<1>4. \A m \in 1 .. n : PutAt(g[m - 1], entries[m], rewrite) = g[m]
  BY <1>3, WholeStep
<1>5. g[0] = f /\ \A m \in 0 .. n : g[m] = WholeMap(f, entries, m, rewrite)
  BY <1>1, <1>2
<1> HIDE DEF g
<1>6. \A m \in 0 .. n : Placed(g[m])
  <2> DEFINE T == {m \in 0 .. n : Placed(g[m])}
  <2>1. 0 \in T
    BY <1>1, <1>5
  <2>2. ASSUME NEW m \in 1 .. n, m - 1 \in T PROVE m \in T
    BY <1>3, <1>4, <2>2, PutMade
  <2> HIDE DEF T
  <2>3. \A m \in 0 .. n : m \in T
    BY <1>1, <2>1, <2>2, UpTo
  <2> QED BY <2>3 DEF T
<1>7. \A m \in 1 .. n : PutHere(Made(g[m - 1]), entries[m], rewrite) = Made(g[m])
  BY <1>3, <1>4, <1>6, PutMade
<1> QED BY <1>2, <1>3, <1>5, <1>6, <1>7

LEMMA EachMade ==
  ASSUME NEW f, Placed(f), NEW entries \in Seq(Given), NEW rewrite \in BOOLEAN
  PROVE  PutEachHere(Made(f), entries, rewrite) = Made(WholeMap(f, entries, Len(entries), rewrite))
<1> DEFINE n == Len(entries)
           Is(u) == u = [k \in 0 .. n |-> IF k = 0 THEN Made(f)
                                          ELSE PutHere(u[k - 1], entries[k], rewrite)]
           U == [k \in 0 .. n |-> Made(WholeMap(f, entries, k, rewrite))]
           V == CHOOSE u : Is(u)
<1>1. n \in Nat
  BY LenProperties
<1>2. \A m \in 1 .. n : m - 1 \in 0 .. n /\ m \in 0 .. n
  BY <1>1
<1> DEFINE g == [m \in 0 .. n |-> WholeMap(f, entries, m, rewrite)]
<1>10. g[0] = f /\ \A m \in 1 .. n : PutHere(Made(g[m - 1]), entries[m], rewrite) = Made(g[m])
  BY <1>1, <1>2, WholeMaps
<1>11. U = [k \in 0 .. n |-> Made(g[k])]
  OBVIOUS
<1> HIDE DEF g
<1>3. U[0] = Made(f) /\ \A m \in 1 .. n : U[m] = PutHere(U[m - 1], entries[m], rewrite)
  <2>1. \A m \in 0 .. n : U[m] = Made(g[m])
    BY <1>11
  <2>2. 0 \in 0 .. n
    BY <1>1
  <2> HIDE DEF U, V, Is
  <2> QED BY <1>2, <1>10, <2>1, <2>2
<1>4. Is(U)
  BY <1>1, <1>2, <1>10, <1>11
<1>5. Is(V)
  BY <1>4
<1>6. U[n] = Made(WholeMap(f, entries, n, rewrite))
  BY <1>1
<1>7. PutEachHere(Made(f), entries, rewrite) = V[n]
  BY DEF PutEachHere
<1> HIDE DEF U, V
<1>8. V[0] = Made(f) /\ \A m \in 1 .. n : V[m] = PutHere(V[m - 1], entries[m], rewrite)
  BY <1>1, <1>2, <1>5
<1> HIDE DEF n
<1>9. V[n] = U[n]
  <2> HIDE DEF Is
  <2>1. V[0] = U[0]
    BY <1>3, <1>8
  <2>2. \A m \in 1 .. n : V[m - 1] = U[m - 1] => V[m] = U[m]
    BY <1>3, <1>8
  <2> QED BY <1>1, <2>1, <2>2, InTheEnd
<1> QED BY <1>6, <1>7, <1>9 DEF n

(***************************************************************************)
(* Where it does not depart, each put is axios' own.                       *)
(***************************************************************************)

LEMMA PutLikeAxios ==
  ASSUME NEW f, Placed(f), NEW e \in Given, e.value # Undefined,
         NEW rewrite \in BOOLEAN, NEW any \in Rewrites(rewrite),
         any = "undefined" => f[Key(e.name)] = None \/ f[Key(e.name)].value # False,
         any = "matcher" => f[Key(e.name)] = None
  PROVE  Axios!Put(Made(f), e, any) = PutHere(Made(f), e, rewrite)
<1> DEFINE old == f[Key(e.name)]
           found == Axios!Find(Made(f), e.name)
           is == IF rewrite THEN "true" ELSE "false"
<1>1. e.name \in Names /\ Key(e.name) \in Keys
  BY DEF Given, Keys
<1>2. found = IF old = None THEN {} ELSE {old}
  BY <1>1, FindMade
<1>3. PutHere(Made(f), e, rewrite) = Axios!Put(Made(f), e, is)
  BY DEF PutHere
<1> HIDE DEF found
<1>4. CASE old = None
  BY <1>2, <1>3, <1>4 DEF Axios!Put, found
<1>5. CASE old # None
  <2>1. old.value # Undefined
    BY <1>1, <1>5, ValuesApart DEF Placed, AEntries
  <2>2. Axios!Yields(old, any) <=> Axios!Yields(old, is)
    BY <1>5, <2>1 DEF Axios!Yields, Rewrites
  <2>3. (CHOOSE p \in found : TRUE) = old
    BY <1>2, <1>5
  <2> HIDE DEF old, is
  <2>4. \A is2 : Axios!Put(Made(f), e, is2)
                = IF Axios!Yields(old, is2) THEN (Made(f) \ {old}) \cup {[old EXCEPT !.value = e.value]}
                  ELSE Made(f)
    BY <1>2, <1>5, <2>3 DEF Axios!Put, found
  <2> QED BY <1>3, <2>2, <2>4
<1> QED BY <1>4, <1>5

\* What is under a key came from the object or from an earlier entry.
LEMMA NothingInTheWay ==
  ASSUME NEW f, Placed(f), NEW entries \in Seq(Given), NEW rewrite \in BOOLEAN,
         NEW any \in Rewrites(rewrite), ~Departs(Made(f), entries, any),
         NEW m \in 1 .. Len(entries)
  PROVE  LET old == WholeMap(f, entries, m - 1, rewrite)[Key(entries[m].name)]
         IN  /\ entries[m].value # Undefined
             /\ any = "undefined" => old = None \/ old.value # False
             /\ any = "matcher" => old = None
<1> DEFINE e == entries[m]
           key == Key(e.name)
           S == Said(entries, key, m - 1)
           way == InTheWay(Made(f), entries, m)
           old == WholeMap(f, entries, m - 1, rewrite)[key]
<1>1. e \in Given /\ e.name \in Names /\ key \in Keys /\ m \in DOMAIN entries
  <2>1. DOMAIN entries = 1 .. Len(entries)
    BY LenProperties
  <2>2. e \in Given
    BY ElementOfSeq
  <2> QED BY <2>1, <2>2 DEF Given, Keys
<1>2. old = Whole(f[key], entries, S, rewrite)
  BY <1>1 DEF WholeMap
<1>3. Axios!Find(Made(f), e.name) = IF f[key] = None THEN {} ELSE {f[key]}
  BY <1>1, FindMade
<1>4. f[key] # None => f[key] \in way
  BY <1>3 DEF InTheWay
<1>5. \A i \in S : entries[i] \in way
  BY DEF InTheWay, Said
<1>6. /\ e.value # Undefined
      /\ any = "undefined" => \A p \in way : p.value # False
      /\ any = "matcher" => way = {}
  BY <1>1 DEF Departs
<1>7. S # {} => FirstIn(S) \in S /\ LastIn(S) \in S
  <2>1. S \subseteq 1 .. (m - 1) /\ m - 1 \in Nat
    BY LenProperties DEF Said
  <2> HIDE DEF S
  <2> QED BY <2>1, FirstAndLast
<1> HIDE DEF S, way, old, e, key
<1>8. old = None \/ \E p \in way : old.value = p.value
  <2>1. CASE S = {} \/ (~rewrite /\ f[key] # None)
    BY <1>2, <1>4, <2>1 DEF Whole
  <2>2. CASE ~(S = {} \/ (~rewrite /\ f[key] # None))
    <3> DEFINE i == IF rewrite THEN LastIn(S) ELSE FirstIn(S)
    <3>1. i \in S
      BY <1>7, <2>2
    <3>2. old.value = entries[i].value
      BY <1>2, <2>2 DEF Whole
    <3> QED BY <1>5, <3>1, <3>2
  <2> QED BY <2>1, <2>2
<1>9. /\ any = "undefined" => old = None \/ old.value # False
      /\ any = "matcher" => old = None
  BY <1>6, <1>8
<1> QED BY <1>6, <1>9 DEF old, e, key

LEMMA EachLikeAxios ==
  ASSUME NEW f, Placed(f), NEW entries \in Seq(Given), NEW rewrite \in BOOLEAN,
         NEW any \in Rewrites(rewrite), ~Departs(Made(f), entries, any)
  PROVE  Axios!PutEach(Made(f), entries, any) = Made(WholeMap(f, entries, Len(entries), rewrite))
<1> DEFINE n == Len(entries)
           Is(u) == u = [k \in 0 .. n |-> IF k = 0 THEN Made(f)
                                          ELSE Axios!Put(u[k - 1], entries[k], any)]
           U == [k \in 0 .. n |-> Made(WholeMap(f, entries, k, rewrite))]
           V == CHOOSE u : Is(u)
<1>1. n \in Nat
  BY LenProperties
<1>2. \A m \in 1 .. n : m - 1 \in 0 .. n /\ m \in 0 .. n /\ entries[m] \in Given
  BY <1>1, ElementOfSeq
<1>3. ASSUME NEW m \in 1 .. n
      PROVE  Axios!Put(Made(WholeMap(f, entries, m - 1, rewrite)), entries[m], any)
               = Made(WholeMap(f, entries, m, rewrite))
  <2> DEFINE g == WholeMap(f, entries, m - 1, rewrite)
  <2>1. Placed(g)
    BY <1>2, WholeMaps
  <2>2. /\ entries[m].value # Undefined
        /\ any = "undefined" => g[Key(entries[m].name)] = None \/ g[Key(entries[m].name)].value # False
        /\ any = "matcher" => g[Key(entries[m].name)] = None
    BY NothingInTheWay
  <2>3. PutHere(Made(g), entries[m], rewrite) = Made(WholeMap(f, entries, m, rewrite))
    BY WholeMaps
  <2> HIDE DEF g
  <2>4. Axios!Put(Made(g), entries[m], any) = PutHere(Made(g), entries[m], rewrite)
    BY <1>2, <2>1, <2>2, PutLikeAxios
  <2> QED BY <2>3, <2>4 DEF g
<1> DEFINE g == [m \in 0 .. n |-> WholeMap(f, entries, m, rewrite)]
<1>11. g[0] = f /\ \A m \in 1 .. n : Axios!Put(Made(g[m - 1]), entries[m], any) = Made(g[m])
  BY <1>1, <1>2, <1>3, WholeMaps
<1>12. U = [k \in 0 .. n |-> Made(g[k])]
  OBVIOUS
<1> HIDE DEF g
<1>4. U[0] = Made(f) /\ \A m \in 1 .. n : U[m] = Axios!Put(U[m - 1], entries[m], any)
  <2>1. \A m \in 0 .. n : U[m] = Made(g[m])
    BY <1>12
  <2>2. 0 \in 0 .. n
    BY <1>1
  <2> HIDE DEF U, V, Is
  <2> QED BY <1>2, <1>11, <2>1, <2>2
<1>5. Is(U)
  BY <1>1, <1>2, <1>11, <1>12
<1>6. Is(V)
  BY <1>5
<1>7. U[n] = Made(WholeMap(f, entries, n, rewrite))
  BY <1>1
<1>8. Axios!PutEach(Made(f), entries, any) = V[n]
  BY DEF Axios!PutEach
<1> HIDE DEF U, V
<1>9. V[0] = Made(f) /\ \A m \in 1 .. n : V[m] = Axios!Put(V[m - 1], entries[m], any)
  BY <1>1, <1>2, <1>6
<1> HIDE DEF n
<1>10. V[n] = U[n]
  <2> HIDE DEF Is
  <2>1. V[0] = U[0]
    BY <1>4, <1>9
  <2>2. \A m \in 1 .. n : V[m - 1] = U[m - 1] => V[m] = U[m]
    BY <1>4, <1>9
  <2> QED BY <1>1, <2>1, <2>2, InTheEnd
<1> QED BY <1>7, <1>8, <1>10 DEF n

LEMMA AllMade ==
  ASSUME NEW f, Placed(f), NEW entries \in Seq(Given), NEW rewrite \in BOOLEAN,
         NEW any \in Rewrites(rewrite)
  PROVE  PutAll(Made(f), entries, any) = Made(WholeMap(f, entries, Len(entries), rewrite))
<1>1. (any # "false") = rewrite
  BY DEF Rewrites
<1>2. CASE Departs(Made(f), entries, any)
  BY <1>1, <1>2, EachMade DEF PutAll
<1>3. CASE ~Departs(Made(f), entries, any)
  BY <1>3, EachLikeAxios DEF PutAll
<1> QED BY <1>2, <1>3

\* The sequence made of a finite set has all of it.
LEMMA Listing ==
  ASSUME NEW S, IsFiniteSet(S)
  PROVE  LET q == Axios!SetToSeq(S)
         IN  q \in Seq(S) /\ \A x \in S : \E i \in 1 .. Len(q) : q[i] = x
<1> DEFINE n == Cardinality(S)
           q == Axios!SetToSeq(S)
<1>1. n \in Nat
  BY FS_CardinalityType
<1>2. IsFiniteSet(1 .. n) /\ Cardinality(1 .. n) = n
  BY <1>1, FS_Interval
<1>3. ExistsBijection(1 .. n, S)
  BY <1>2, FS_SameCardinalityBij
<1>4. q = CHOOSE f \in [1 .. n -> S] : \A a, b \in DOMAIN f : f[a] = f[b] => a = b
  <2>1. Axios!Cardinality(S) = Cardinality(S)
    BY DEF Axios!Cardinality, Cardinality
  <2> QED BY <2>1 DEF Axios!SetToSeq, Axios!IsInjective
<1>5. \E f \in [1 .. n -> S] : \A a, b \in DOMAIN f : f[a] = f[b] => a = b
  BY <1>3 DEF ExistsBijection, Bijection, Injection, IsInjective
<1> HIDE DEF q
<1>6. q \in [1 .. n -> S] /\ \A a, b \in DOMAIN q : q[a] = q[b] => a = b
  BY <1>4, <1>5
<1>7. q \in Injection(1 .. n, S)
  BY <1>6 DEF Injection, IsInjective
<1>8. q \in Surjection(1 .. n, S)
  BY <1>2, <1>7, FS_Injection
<1> HIDE DEF n
<1>9. q \in Seq(S) /\ Len(q) = n
  BY <1>1, <1>6, SeqDef, LenProperties
<1>10. \A x \in S : \E i \in 1 .. n : q[i] = x
  BY <1>8 DEF Surjection
<1> QED BY <1>9, <1>10 DEF q

\* Entries say the same as a source when, list for list, each key is first and
\* last mentioned as the source has it.
Agrees(entries, S, first, last) ==
  /\ S = {} <=> first = None
  /\ S # {} => /\ first \in Entries /\ last \in Entries
               /\ entries[FirstIn(S)] = Abstract(first)
               /\ entries[LastIn(S)] = Abstract(last)
Speaks(entries, source) ==
  \A k \in Keys : Agrees(entries, Said(entries, k, Len(entries)), FirstOf(source, k), LastOf(source, k))

\* What a source is to axios.
Listed(source) == Axios!EntriesOf(AsSource(source))

LEMMA KeysFinite == IsFiniteSet(Keys)
<1> DEFINE f == [name \in Names |-> Key(name)]
<1>1. Keys = {f[name] : name \in Names}
  BY DEF Keys
<1> HIDE DEF f
<1> QED BY <1>1, NamesAssumption, FiniteImage

LEMMA MadeFinite ==
  ASSUME NEW f
  PROVE  IsFiniteSet(Made(f))
<1> DEFINE D == {k \in Keys : f[k] # None}
<1>1. IsFiniteSet(D)
  BY KeysFinite, FS_Subset
<1>2. Made(f) = {f[k] : k \in D}
  BY DEF Made
<1> HIDE DEF D
<1> QED BY <1>1, <1>2, FiniteImage

LEMMA LiteralType ==
  ASSUME TypeOK
  PROVE  Literal \in Seq(Given) /\ Len(Literal) = Len(plain) /\ Literal \notin Objects
<1>1. plain \in Seq([name : Names, value : Values \cup {Undefined}])
  BY DEF TypeOK
<1>2. DOMAIN plain = 1 .. Len(plain) /\ Len(plain) \in Nat
  BY <1>1, LenProperties
<1>3. \A i \in 1 .. Len(plain) : Abstract(plain[i]) \in Given
  BY <1>1, AbstractType, ElementOfSeq
<1>4. Literal = [i \in 1 .. Len(plain) |-> Abstract(plain[i])]
  BY <1>2 DEF Literal
<1>5. Literal \in [1 .. Len(plain) -> Given]
  BY <1>3, <1>4
<1> HIDE DEF Literal
<1>6. Literal \in Seq(Given) /\ Len(Literal) = Len(plain)
  BY <1>2, <1>5, SeqDef, LenProperties
<1>7. AValues \cup {Undefined} = Texts \cup Off \cup {Undefined, AList}
  BY DEF AValues
<1>8. Literal \in Seq([name : Names, value : Texts \cup Off \cup {Undefined, AList}])
  BY <1>6, <1>7 DEF Given
<1> QED BY <1>6, <1>8, ObjectsAssumption

LEMMA PlainSpeaks ==
  ASSUME TypeOK, NEW source \in Sources, source \notin Objects
  PROVE  Listed(source) \in Seq(Given) /\ Speaks(Listed(source), source)
<1>1. source = plain /\ Listed(source) = Literal /\ Literal \in Seq(Given) /\ Len(Literal) = Len(plain)
  BY LiteralType DEF Sources, Listed, AsSource, Axios!EntriesOf
<1>2. plain \in Seq([name : Names, value : Values \cup {Undefined}])
  BY DEF TypeOK
<1>3. DOMAIN plain = 1 .. Len(plain) /\ Len(plain) \in Nat
  BY <1>2, LenProperties
<1>4. \A i \in 1 .. Len(plain) : /\ plain[i] \in [name : Names, value : Values \cup {Undefined}]
                                 /\ Literal[i] = Abstract(plain[i])
  BY <1>2, <1>3, ElementOfSeq DEF Literal
<1>5. ASSUME NEW k \in Keys
      PROVE  Agrees(Literal, Said(Literal, k, Len(Literal)), FirstOf(source, k), LastOf(source, k))
  <2> DEFINE S == Said(Literal, k, Len(Literal))
  <2>1. S = Mentions(k)
    BY <1>1, <1>3, <1>4, AbstractType DEF Said, Mentions
  <2>2. S \subseteq 1 .. Len(plain)
    BY <1>1 DEF Said
  <2> HIDE DEF S
  <2>3. ASSUME S = {} PROVE Agrees(Literal, S, FirstOf(source, k), LastOf(source, k))
    BY <1>1, <2>1, <2>3 DEF FirstOf, Agrees
  <2>4. ASSUME S # {} PROVE Agrees(Literal, S, FirstOf(source, k), LastOf(source, k))
    <3>1. FirstIn(S) \in S /\ LastIn(S) \in S
      BY <1>3, <2>2, <2>4, FirstAndLast
    <3>2. FirstOf(source, k) = plain[FirstIn(S)] /\ LastOf(source, k) = plain[LastIn(S)]
      BY <1>1, <2>1, <2>4 DEF FirstOf, LastOf, FirstIn, LastIn
    <3>3. \A i \in S : plain[i] \in Entries
      BY <1>4, <2>1, <2>2 DEF Mentions, Entries
    <3>4. FirstOf(source, k) # None
      BY <3>1, <3>2, <3>3, ValuesApart
    <3> QED BY <1>4, <2>2, <2>4, <3>1, <3>2, <3>3, <3>4 DEF Agrees
  <2> QED BY <2>3, <2>4 DEF S
<1> QED BY <1>1, <1>5 DEF Speaks

LEMMA ObjectSpeaks ==
  ASSUME TypeOK, NEW source \in Objects
  PROVE  Listed(source) \in Seq(Given) /\ Speaks(Listed(source), source)
<1> DEFINE f == AbstractMap(store[source])
           q == Axios!SetToSeq(Made(f))
<1>1. Placed(f) /\ Props[source] = Made(f) /\ \A k \in Keys : f[k] = None <=> store[source][k] = None
  BY StoredType, AbstractMapPlaced DEF Props
<1>2. \A k \in Keys : store[source][k] # None => store[source][k] \in Entries /\ f[k] = Abstract(store[source][k])
  BY StoredType DEF Proper, At, AbstractMap
<1>3. Listed(source) = q
  BY <1>1 DEF Listed, AsSource, Axios!EntriesOf
<1> HIDE DEF f
<1>4. q \in Seq(Made(f)) /\ \A x \in Made(f) : \E i \in 1 .. Len(q) : q[i] = x
  BY MadeFinite, Listing
<1>5. Made(f) \subseteq AEntries /\ AEntries \subseteq Given
  BY <1>1 DEF Made, Placed, AEntries, Given
<1> HIDE DEF q
<1>6. q \in Seq(Given)
  <2>1. q \in [1 .. Len(q) -> Made(f)] /\ Len(q) \in Nat
    BY <1>4, LenProperties
  <2>2. q \in [1 .. Len(q) -> Given]
    BY <1>5, <2>1
  <2> QED BY <2>1, <2>2, SeqDef
<1>7. ASSUME NEW k \in Keys
      PROVE  Agrees(q, Said(q, k, Len(q)), FirstOf(source, k), LastOf(source, k))
  <2> DEFINE S == Said(q, k, Len(q))
  <2>1. S \subseteq 1 .. Len(q) /\ Len(q) \in Nat
    BY <1>6, LenProperties DEF Said
  <2>2. ASSUME NEW i \in S PROVE f[k] # None /\ q[i] = f[k]
    <3>1. q[i] \in Made(f) /\ Key(q[i].name) = k
      BY <1>4, <2>1, ElementOfSeq DEF Said
    <3>2. PICK j \in Keys : f[j] # None /\ q[i] = f[j]
      BY <3>1 DEF Made
    <3> QED BY <1>1, <3>1, <3>2 DEF Placed
  <2>3. ASSUME f[k] # None PROVE S # {}
    <3>1. f[k] \in Made(f)
      BY <2>3 DEF Made
    <3>2. PICK i \in 1 .. Len(q) : q[i] = f[k]
      BY <1>4, <3>1
    <3>3. Key(f[k].name) = k /\ f[k].value # Undefined
      BY <1>1, <2>3, ValuesApart DEF Placed, AEntries
    <3> QED BY <3>2, <3>3 DEF Said
  <2>4. FirstOf(source, k) = store[source][k] /\ LastOf(source, k) = store[source][k]
    BY DEF FirstOf, LastOf
  <2> HIDE DEF S
  <2>5. ASSUME S = {} PROVE Agrees(q, S, FirstOf(source, k), LastOf(source, k))
    BY <1>1, <2>3, <2>4, <2>5 DEF Agrees
  <2>6. ASSUME S # {} PROVE Agrees(q, S, FirstOf(source, k), LastOf(source, k))
    <3>1. FirstIn(S) \in S /\ LastIn(S) \in S
      BY <2>1, <2>6, FirstAndLast
    <3> QED BY <1>1, <1>2, <2>2, <2>4, <2>6, <3>1 DEF Agrees
  <2> QED BY <2>5, <2>6 DEF S
<1> QED BY <1>3, <1>6, <1>7 DEF Speaks

\* What is set under a key is, but for the list, what axios would put there.
Bare(entry) == IF entry = None THEN None ELSE Abstract(entry)
Plainly(value) == IF value \in Lists THEN AList ELSE value

BarePut(entry, first, last, rewrite) ==
  IF first = None \/ (~rewrite /\ entry # None) THEN Bare(entry)
  ELSE [name |-> (IF entry = None THEN first ELSE entry).name,
        value |-> Plainly((IF rewrite THEN last ELSE first).value)]

LEMMA SetBare ==
  ASSUME NEW entry \in Entries \cup {None}, NEW first, NEW last, NEW rewrite \in BOOLEAN,
         first # None => first \in Entries /\ last \in Entries,
         NEW stamp \in Stamps, NEW k \in Keys
  PROVE  Bare(SetInMap(entry, first, last, rewrite, stamp, k)) = BarePut(entry, first, last, rewrite)
<1> DEFINE new == SetInMap(entry, first, last, rewrite, stamp, k)
<1>1. CASE first = None \/ (~rewrite /\ entry # None)
  BY <1>1 DEF SetInMap, BarePut
<1>2. CASE ~(first = None \/ (~rewrite /\ entry # None))
  <2> DEFINE name == (IF entry = None THEN first ELSE entry).name
             value == (IF rewrite THEN last ELSE first).value
  <2>1. new = [name |-> name, value |-> Normalized(value, stamp, k)]
    BY <1>2 DEF SetInMap
  <2>2. value \in Values
    BY <1>2 DEF Entries
  <2> HIDE DEF name, value, new
  <2>3. Normalized(value, stamp, k) \in Lists <=> value \in Lists
    BY DEF Normalized, Lists
  <2>4. value \notin Lists => Normalized(value, stamp, k) = value
    BY DEF Normalized
  <2>5. Abstract(new) = [name |-> name, value |-> Plainly(value)]
    BY <2>1, <2>3, <2>4 DEF Abstract, Plainly
  <2>6. new # None
    BY <2>1 DEF None
  <2>7. Bare(new) = [name |-> name, value |-> Plainly(value)]
    BY <2>5, <2>6 DEF Bare
  <2> QED BY <1>2, <2>7 DEF new, name, value, BarePut
<1> QED BY <1>1, <1>2

\* So one merge is the other.
LEMMA MergedMade ==
  ASSUME TypeOK, NEW map, Proper(map), NEW source \in Sources, NEW rewrite \in BOOLEAN,
         NEW any \in Rewrites(rewrite), NEW stamp \in Stamps
  PROVE  PutAll(Properties(map), Axios!EntriesOf(AsSource(source)), any)
           = Properties(Merged(map, source, rewrite, stamp))
<1> DEFINE f == AbstractMap(map)
           new == Merged(map, source, rewrite, stamp)
           entries == Listed(source)
           n == Len(entries)
           whole == WholeMap(f, entries, n, rewrite)
<1>1. entries \in Seq(Given) /\ Speaks(entries, source)
  BY PlainSpeaks, ObjectSpeaks
<1>2. entries = Axios!EntriesOf(AsSource(source))
  BY DEF Listed
<1>3. Placed(f) /\ Properties(map) = Made(f) /\ \A k \in Keys : f[k] = None <=> map[k] = None
  BY AbstractMapPlaced
<1> HIDE DEF entries
<1>4. PutAll(Made(f), entries, any) = Made(whole)
  <2> HIDE DEF f
  <2> QED BY <1>1, <1>3, AllMade
<1>5. Proper(new) /\ Properties(new) = Made(AbstractMap(new))
  BY MergedType, AbstractMapPlaced
<1>6. ASSUME NEW k \in Keys PROVE whole[k] = Bare(new[k])
  <2> DEFINE S == Said(entries, k, n)
             first == FirstOf(source, k)
             last == LastOf(source, k)
             entry == map[k]
  <2>1. whole[k] = Whole(f[k], entries, S, rewrite)
    BY DEF WholeMap
  <2>2. f[k] = Bare(entry)
    BY DEF AbstractMap, Bare
  <2>3. new[k] = SetInMap(entry, first, last, rewrite, stamp, k)
    BY DEF Merged
  <2>4. entry \in Entries \cup {None}
    BY DEF Proper, At
  <2>5. Agrees(entries, S, first, last)
    BY <1>1 DEF Speaks
  <2> HIDE DEF f, new, whole, S, first, last, entry
  <2>6. f[k] # None <=> entry # None
    BY <2>2, <2>4, AbstractType, ValuesApart DEF Bare
  <2>7. first # None => first \in Entries /\ last \in Entries
    BY <2>5 DEF Agrees
  <2>8. Bare(new[k]) = BarePut(entry, first, last, rewrite)
    <3>1. Bare(SetInMap(entry, first, last, rewrite, stamp, k)) = BarePut(entry, first, last, rewrite)
      <4> QED BY <2>4, <2>7, SetBare, ZenonT(60)
    <3> QED BY <2>3, <3>1
  <2>9. CASE first = None \/ (~rewrite /\ entry # None)
    BY <2>1, <2>2, <2>5, <2>6, <2>8, <2>9 DEF Whole, Agrees, BarePut
  <2>10. CASE ~(first = None \/ (~rewrite /\ entry # None))
    <3>1. whole[k] = [name |-> IF f[k] = None THEN entries[FirstIn(S)].name ELSE f[k].name,
                      value |-> entries[IF rewrite THEN LastIn(S) ELSE FirstIn(S)].value]
      BY <2>1, <2>5, <2>6, <2>10 DEF Whole, Agrees
    <3>2. (IF f[k] = None THEN entries[FirstIn(S)].name ELSE f[k].name)
            = (IF entry = None THEN first ELSE entry).name
      BY <2>2, <2>4, <2>5, <2>6, <2>7, <2>10, AbstractType DEF Agrees, Bare
    <3>3. entries[IF rewrite THEN LastIn(S) ELSE FirstIn(S)].value
            = Plainly((IF rewrite THEN last ELSE first).value)
      BY <2>5, <2>7, <2>10, AbstractType DEF Agrees, Plainly
    <3> QED BY <2>8, <2>10, <3>1, <3>2, <3>3 DEF BarePut
  <2> QED BY <2>9, <2>10
<1>7. whole = AbstractMap(new)
  <2>1. whole = [k \in Keys |-> whole[k]]
    BY DEF WholeMap
  <2> HIDE DEF whole, new
  <2> QED BY <1>6, <2>1 DEF AbstractMap, Bare
<1> HIDE DEF new, whole
<1> QED BY <1>2, <1>3, <1>4, <1>5, <1>7 DEF new

(***************************************************************************)
(* Step for step.                                                          *)
(***************************************************************************)

LEMMA PropsBecome ==
  ASSUME TypeOK, NEW o \in Objects, NEW map,
         store' = [store EXCEPT ![o] = map], UNCHANGED plain
  PROVE  Axios!Becomes(o, Properties(map)) /\ Props[o] = Properties(store[o])
<1>1. Props' = [p \in Objects |-> Properties(store'[p])]
  BY DEF Props, Properties, Abstract
<1>2. \A p \in Objects : store'[p] = IF p = o THEN map ELSE store[p]
  BY DEF TypeOK
<1>3. \A p \in Objects : Properties(store'[p]) = IF p = o THEN Properties(map) ELSE Properties(store[p])
  BY <1>2
<1>4. Props' = [Props EXCEPT ![o] = Properties(map)]
  BY <1>1, <1>3 DEF Props
<1>5. Literal' = Literal
  BY DEF Literal, Abstract
<1> QED BY <1>4, <1>5 DEF Axios!Becomes, Props

LEMMA AxiosKept ==
  ASSUME UNCHANGED <<store, plain>>
  PROVE  Props' = Props /\ Literal' = Literal
BY DEF Props, Literal, Properties, Abstract

LEMMA AxiosConcat ==
  ASSUME TypeOK, NEW o \in Objects, NEW stamp \in Stamps,
         NEW source \in Sources, NEW other \in Sources
  PROVE  LET one == PutAll({}, Axios!EntriesOf(AsSource(source)), "undefined")
         IN  /\ Concat(o, <<source>>, stamp) => Axios!Becomes(o, one) /\ answer' = TRUE
             /\ Concat(o, <<source, other>>, stamp)
                => BecomesAll(o, one, Axios!EntriesOf(AsSource(other)), "undefined")
<1> DEFINE one == Merged(Empty, source, TRUE, stamp)
           two == Merged(one, other, TRUE, stamp)
<1>1. Proper(Empty) /\ Properties(Empty) = {}
  BY DEF Proper, Empty, Maps, Properties
<1>2. "undefined" \in Rewrites(TRUE)
  BY DEF Rewrites
<1>3. Proper(one) /\ PutAll({}, Axios!EntriesOf(AsSource(source)), "undefined") = Properties(one)
  <2>1. Proper(one)
    BY <1>1, MergedType
  <2>2. PutAll(Properties(Empty), Axios!EntriesOf(AsSource(source)), "undefined") = Properties(one)
    BY <1>1, <1>2, MergedMade
  <2> QED BY <1>1, <2>1, <2>2
<1> HIDE DEF one
<1>4. PutAll(Properties(one), Axios!EntriesOf(AsSource(other)), "undefined") = Properties(two)
  BY <1>2, <1>3, MergedMade
<1> HIDE DEF two
<1>5. ASSUME Concat(o, <<source>>, stamp) PROVE Axios!Becomes(o, Properties(one)) /\ answer' = TRUE
  <2>1. store' = [store EXCEPT ![o] = one] /\ UNCHANGED plain /\ answer' = TRUE
    BY <1>5 DEF Concat, one
  <2> QED BY <2>1, PropsBecome
<1>6. ASSUME Concat(o, <<source, other>>, stamp)
      PROVE  Axios!Becomes(o, Properties(two)) /\ answer' = TRUE
  <2>1. store' = [store EXCEPT ![o] = two] /\ UNCHANGED plain /\ answer' = TRUE
    BY <1>6 DEF Concat, one, two
  <2> QED BY <2>1, PropsBecome
<1> QED BY <1>3, <1>4, <1>5, <1>6 DEF BecomesAll

LEMMA AxiosSetAll ==
  ASSUME TypeOK, NEW o \in Objects, NEW source \in Sources, NEW rewrite \in BOOLEAN,
         NEW any \in Rewrites(rewrite), NEW stamp \in Stamps, SetAll(o, source, rewrite, stamp)
  PROVE  BecomesAll(o, Props[o], Axios!EntriesOf(AsSource(source)), any)
<1> DEFINE new == Merged(store[o], source, rewrite, stamp)
<1>1. store' = [store EXCEPT ![o] = new] /\ UNCHANGED plain /\ answer' = TRUE
  BY DEF SetAll, Becomes
<1>2. PutAll(Properties(store[o]), Axios!EntriesOf(AsSource(source)), any) = Properties(new)
  BY StoredType, MergedMade
<1> HIDE DEF new
<1>3. Axios!Becomes(o, Properties(new)) /\ Props[o] = Properties(store[o])
  BY <1>1, PropsBecome
<1> QED BY <1>1, <1>2, <1>3 DEF BecomesAll

LEMMA HeaderIs ==
  ASSUME NEW name \in Names, NEW value \in Values \cup {Undefined}
  PROVE  /\ Header(name, value) = [name |-> name, value |-> Plainly(value)]
         /\ Header(name, value) \in Given
         /\ Plainly(value) = Undefined <=> value = Undefined
<1>1. Header(name, value) = [name |-> name, value |-> Plainly(value)]
  BY DEF Header, Abstract, Plainly
<1>2. Plainly(value) \in AValues \cup {Undefined} /\ (Plainly(value) = Undefined <=> value = Undefined)
  BY LiteralsAssumption DEF AValues, Values, Plainly
<1> HIDE DEF Plainly
<1> QED BY <1>1, <1>2 DEF Given

\* One header set.
LEMMA AxiosPut ==
  ASSUME TypeOK, NEW o \in Objects, NEW name \in Names,
         NEW value \in Values \cup {Undefined}, NEW rewrite \in BOOLEAN,
         NEW stamp \in Stamps, Set(o, name, value, rewrite, stamp)
  PROVE  LET f == AbstractMap(store[o])
         IN  /\ Placed(f) /\ Props[o] = Made(f)
             /\ Axios!Becomes(o, Made(PutAt(f, Header(name, value), rewrite)))
             /\ answer' = TRUE
<1> DEFINE key == Key(name)
           map == store[o]
           entry == IF value = Undefined THEN None ELSE [name |-> name, value |-> value]
           set == SetInMap(map[key], entry, entry, rewrite, stamp, key)
           new == [map EXCEPT ![key] = set]
           f == AbstractMap(map)
           e == [name |-> name, value |-> Plainly(value)]
<1>1. key \in Keys /\ Proper(map)
  BY StoredType DEF Keys
<1>2. store' = [store EXCEPT ![o] = new] /\ UNCHANGED plain /\ answer' = TRUE
  BY DEF Set, Becomes
<1>3. (e.value = Undefined <=> value = Undefined) /\ Header(name, value) = e
  BY HeaderIs
<1>4. Placed(f) /\ Properties(map) = Made(f) /\ \A k \in Keys : f[k] = Bare(map[k])
  <2>1. \A k \in Keys : f[k] = Bare(map[k])
    BY DEF AbstractMap, Bare
  <2> HIDE DEF f, map
  <2> QED BY <1>1, <2>1, AbstractMapPlaced DEF f
<1>5. entry # None => entry \in Entries /\ entry.name = name /\ entry.value = value
  BY DEF Entries
<1>6. map[key] \in Entries \cup {None}
  BY <1>1 DEF Proper, At
<1>7. Bare(set) = PutOne(f[key], e, rewrite)
  <2>1. entry = None <=> value = Undefined
    BY DEF None
  <2>2. f[key] = Bare(map[key]) /\ (f[key] = None <=> map[key] = None)
    BY <1>1, <1>4, <1>6, AbstractType, ValuesApart DEF Bare
  <2> HIDE DEF map, entry, f
  <2>3. Bare(set) = BarePut(map[key], entry, entry, rewrite)
    BY <1>1, <1>5, <1>6, SetBare
  <2>4. map[key] # None => f[key].name = map[key].name
    BY <1>6, <2>2, AbstractType DEF Bare
  <2> QED BY <1>3, <1>5, <2>1, <2>2, <2>3, <2>4 DEF PutOne, BarePut
<1>8. Proper(new)
  <2>1. set = None \/ At(set, key)
    <3>1. map[key] = None \/ At(map[key], key)
      BY <1>1 DEF Proper
    <3>2. entry # None => At(entry, key)
      BY <1>5 DEF At
    <3> HIDE DEF map, entry
    <3> QED BY <1>1, <3>1, <3>2, SetInMapType
  <2> HIDE DEF set, map
  <2> QED BY <1>1, <2>1 DEF Proper, Maps, At
<1>9. PutAt(f, e, rewrite) = AbstractMap(new)
  <2>1. \A k \in Keys : new[k] = IF k = key THEN set ELSE map[k]
    <3> HIDE DEF set, map
    <3> QED BY <1>1 DEF Proper, Maps
  <2>2. \A k \in Keys : (IF k = key THEN PutOne(f[k], e, rewrite) ELSE f[k]) = Bare(new[k])
    <3> HIDE DEF set, map, f, new
    <3> QED BY <1>4, <1>7, <2>1
  <2>3. e.name = name
    OBVIOUS
  <2> HIDE DEF set, map, f, new, e
  <2> QED BY <2>2, <2>3 DEF PutAt, AbstractMap, Bare
<1> HIDE DEF set, map, f, new, e
<1>10. Made(PutAt(f, e, rewrite)) = Properties(new)
  BY <1>8, <1>9, AbstractMapPlaced
<1>11. Axios!Becomes(o, Properties(new)) /\ Props[o] = Properties(map)
  BY <1>2, PropsBecome DEF map
<1> QED BY <1>2, <1>3, <1>4, <1>10, <1>11 DEF f, map

LEMMA AxiosSet ==
  ASSUME TypeOK, NEW o \in Objects, NEW name \in Names,
         NEW value \in Values \cup {Undefined}, NEW rewrite \in BOOLEAN,
         NEW any \in Rewrites(rewrite), NEW stamp \in Stamps,
         Set(o, name, value, rewrite, stamp)
  PROVE  BecomesAll(o, Props[o], <<Header(name, value)>>, any)
<1> DEFINE f == AbstractMap(store[o])
           e == Header(name, value)
           q == <<e>>
<1>1. e \in Given
  BY HeaderIs
<1>2. /\ Placed(f) /\ Props[o] = Made(f)
      /\ Axios!Becomes(o, Made(PutAt(f, e, rewrite))) /\ answer' = TRUE
  BY AxiosPut
<1> HIDE DEF e, f
<1>3. q \in Seq(Given) /\ Len(q) = 1 /\ q[1] = e
  BY <1>1
<1> HIDE DEF q
<1>4. WholeMap(f, q, 0, rewrite) = f
  <2>1. Placed(f)
    BY <1>2
  <2> QED BY <1>3, <2>1, WholeMaps
<1>5. PutAt(WholeMap(f, q, 0, rewrite), e, rewrite) = WholeMap(f, q, 1, rewrite)
  <2> DEFINE m == 1
  <2>1. m \in 1 .. Len(q) /\ m - 1 = 0
    BY <1>3
  <2> HIDE DEF m
  <2>2. PutAt(WholeMap(f, q, m - 1, rewrite), q[m], rewrite) = WholeMap(f, q, m, rewrite)
    BY <1>3, <2>1, WholeStep
  <2> QED BY <1>3, <2>1, <2>2 DEF m
<1>6. PutAll(Made(f), q, any) = Made(PutAt(f, e, rewrite))
  <2>1. PutAll(Made(f), q, any) = Made(WholeMap(f, q, Len(q), rewrite))
    BY <1>2, <1>3, AllMade
  <2> QED BY <1>3, <1>4, <1>5, <2>1
<1> QED BY <1>2, <1>6 DEF BecomesAll, q, e

LEMMA AxiosAssign ==
  ASSUME TypeOK, NEW o \in Objects, NEW name \in Names,
         NEW value \in Values \cup {Undefined}, NEW stamp \in Stamps,
         Assign(o, name, value, stamp)
  PROVE  AssignsLikeAxios(o, name, value)
<1> DEFINE f == AbstractMap(store[o])
           e == Header(name, value)
           key == Key(name)
<1>1. CASE name \in Members
  BY <1>1, AxiosKept DEF Assign, Refuse, AssignsLikeAxios, Refused
<1>2. ASSUME name \notin Members PROVE AssignsLikeAxios(o, name, value)
  <2>1. Set(o, name, value, TRUE, stamp)
    BY <1>2 DEF Assign
  <2>2. /\ Placed(f) /\ Props[o] = Made(f)
        /\ Axios!Becomes(o, Made(PutAt(f, e, TRUE))) /\ answer' = TRUE
    BY <2>1, AxiosPut
  <2>3. e = [name |-> name, value |-> Plainly(value)] /\ e \in Given /\ key \in Keys
        /\ (Plainly(value) = Undefined <=> value = Undefined)
    BY HeaderIs DEF Keys
  <2> HIDE DEF f, e
  <2>4. Axios!Becomes(o, PutHere(Props[o], e, TRUE))
    BY <2>2, <2>3, PutMade
  <2> DEFINE found == Axios!Find(Props[o], name)
  <2>5. ASSUME value # Undefined, \A p \in found : p.name = name
        PROVE  Axios!Assign(o, name, e.value)
    <3> DEFINE kept == {p \in Props[o] : p.name # name}
               old == f[key]
    <3>1. found = IF old = None THEN {} ELSE {old}
      BY <2>2, FindMade
    <3>2. \A p \in Props[o] : p.name = name => p \in found
      BY DEF Axios!Find
    <3>3. \A p \in found : p \in Props[o] /\ p.name = name
      BY <2>5 DEF Axios!Find
    <3>4. old = None \/ old \in AEntries
      BY <2>2, <2>3 DEF Placed
    <3>5. PutHere(Props[o], e, TRUE) = Axios!Put(Props[o], e, "true")
      BY <2>3, <2>5 DEF PutHere
    <3>6. e.name = name /\ e = [name |-> name, value |-> e.value]
      BY <2>3
    <3>7. Axios!Find(Props[o], e.name) = found
      BY <3>6
    <3> HIDE DEF found
    <3>8. kept = Props[o] \ found
      BY <3>2, <3>3
    <3> HIDE DEF kept, old
    <3>9. CASE old = None
      BY <2>4, <3>1, <3>5, <3>6, <3>7, <3>8, <3>9, <2>2 DEF Axios!Put, Axios!Assign, kept
    <3>10. CASE old # None
      <4>1. old.name = name /\ (CHOOSE p \in found : TRUE) = old
        BY <3>1, <3>3, <3>10
      <4>2. [old EXCEPT !.value = e.value] = e
        BY <3>4, <3>6, <3>10, <4>1 DEF AEntries
      <4>3. Axios!Yields(old, "true")
        BY DEF Axios!Yields
      <4>4. Axios!Put(Props[o], e, "true") = kept \cup {e}
        BY <3>1, <3>7, <3>8, <3>10, <4>1, <4>2, <4>3 DEF Axios!Put
      <4> QED BY <2>2, <2>4, <3>5, <3>6, <4>4 DEF Axios!Assign, kept
    <3> QED BY <3>9, <3>10
  <2> HIDE DEF found
  <2> QED BY <1>2, <2>2, <2>4, <2>5 DEF AssignsLikeAxios, e, found
<1> QED BY <1>1, <1>2

\* Properties with other names than each other's are told apart.
LEMMA Apart ==
  ASSUME TypeOK, NEW o \in Objects, NEW k \in Keys, NEW l \in Keys,
         store[o][k] # None, store[o][l] # None,
         Abstract(store[o][k]) = Abstract(store[o][l])
  PROVE  k = l
<1>1. At(store[o][k], k) /\ At(store[o][l], l)
  BY StoredType DEF Proper
<1> QED BY <1>1, AbstractType DEF At

LEMMA AxiosDelete ==
  ASSUME TypeOK, NEW o \in Objects, NEW keys \in SUBSET Keys, Delete(o, keys)
  PROVE  Axios!Delete(o, {p \in Props[o] : Key(p.name) \in keys})
<1> DEFINE there == {k \in keys : store[o][k] # None}
           P == {Abstract(store[o][k]) : k \in there}
           map == [k \in Keys |-> IF k \in there THEN None ELSE store[o][k]]
<1>1. store' = [store EXCEPT ![o] = map] /\ UNCHANGED plain /\ answer' = (there # {})
  BY DEF Delete, Becomes
<1>2. Axios!Becomes(o, Properties(map)) /\ Props[o] = Properties(store[o])
  <2> HIDE DEF map
  <2> QED BY <1>1, PropsBecome
<1>3. P \subseteq Properties(store[o])
  BY DEF Properties
<1>4. P # {} <=> there # {}
  OBVIOUS
<1>5. Properties(map) = Properties(store[o]) \ P
  <2>1. \A p : p \in Properties(map) <=> \E k \in Keys : map[k] # None /\ p = Abstract(map[k])
    BY DEF Properties
  <2>2. \A p : p \in Properties(store[o])
               <=> \E k \in Keys : store[o][k] # None /\ p = Abstract(store[o][k])
    BY DEF Properties
  <2>3. \A k \in Keys : map[k] = IF k \in there THEN None ELSE store[o][k]
    OBVIOUS
  <2>4. \A p : p \in P <=> \E k \in there : p = Abstract(store[o][k])
    OBVIOUS
  <2>5. \A k \in there : k \in Keys /\ store[o][k] # None
    OBVIOUS
  <2> HIDE DEF map, P, there
  <2>6. ASSUME NEW p \in Properties(map) PROVE p \in Properties(store[o]) \ P
    <3>1. PICK k \in Keys : map[k] # None /\ p = Abstract(map[k])
      BY <2>1
    <3>2. k \notin there /\ map[k] = store[o][k]
      BY <2>3, <3>1
    <3>3. p \notin P
      BY <2>4, <2>5, <3>1, <3>2, Apart
    <3> QED BY <2>2, <3>1, <3>2, <3>3
  <2>7. ASSUME NEW p \in Properties(store[o]), p \notin P PROVE p \in Properties(map)
    <3>1. PICK k \in Keys : store[o][k] # None /\ p = Abstract(store[o][k])
      BY <2>2
    <3>2. k \notin there
      BY <2>4, <2>7, <3>1
    <3> QED BY <2>1, <2>3, <3>1, <3>2
  <2> QED BY <2>6, <2>7
<1> HIDE DEF map, P, there
<1>6. Axios!Delete(o, P)
  BY <1>1, <1>2, <1>4, <1>5 DEF Axios!Delete
<1>7. P = {p \in Props[o] : Key(p.name) \in keys}
  <2>1. \A k \in Keys : store[o][k] # None => Key(Abstract(store[o][k]).name) = k
    BY StoredType, AbstractType DEF Proper, At
  <2>2. \A p : p \in Properties(store[o])
               <=> \E k \in Keys : store[o][k] # None /\ p = Abstract(store[o][k])
    BY DEF Properties
  <2>3. \A p : p \in P <=> \E k \in keys : store[o][k] # None /\ p = Abstract(store[o][k])
    BY DEF P, there
  <2> QED BY <1>2, <2>1, <2>2, <2>3
<1> QED BY <1>6, <1>7

LEMMA AxiosDeleteProperty ==
  ASSUME TypeOK, NEW o \in Objects, NEW name \in Names, DeleteProperty(o, name)
  PROVE  DeletesLikeAxios(o, name)
<1>1. CASE name \in Members
  BY <1>1, AxiosKept DEF DeleteProperty, Refuse, DeletesLikeAxios, Refused
<1>2. CASE name \notin Members
  <2> DEFINE key == Key(name)
             found == Axios!Find(Props[o], name)
             f == AbstractMap(store[o])
  <2>1. key \in Keys
    BY DEF Keys
  <2>2. Axios!Delete(o, {p \in Props[o] : Key(p.name) \in {key}})
    BY <1>2, <2>1, AxiosDelete DEF DeleteProperty
  <2>3. {p \in Props[o] : Key(p.name) \in {key}} = found
    BY DEF Axios!Find
  <2>4. Axios!Delete(o, found)
    BY <2>2, <2>3
  <2>5. Placed(f) /\ Props[o] = Made(f)
    BY StoredType, AbstractMapPlaced DEF Props
  <2>6. found = IF f[key] = None THEN {} ELSE {f[key]}
    <3> HIDE DEF f
    <3> QED BY <2>5, FindMade
  <2>7. ASSUME NEW p \in Props[o], p.name = name PROVE Axios!DeleteProperty(o, name)
    <3>1. p \in found /\ \A q \in Props[o] : q.name = name => q \in found
      BY <2>7 DEF Axios!Find
    <3>2. found = {p}
      BY <2>6, <3>1
    <3>3. Props[o] \ found = {q \in Props[o] : q.name # name}
      BY <2>7, <3>1, <3>2
    <3> HIDE DEF found
    <3> QED BY <2>4, <3>2, <3>3 DEF Axios!Delete, Axios!DeleteProperty
  <2> HIDE DEF f
  <2> QED BY <1>2, <2>4, <2>7 DEF DeletesLikeAxios
<1> QED BY <1>1, <1>2

LEMMA AxiosNormalize ==
  ASSUME TypeOK, NEW o \in Objects, Normalize(o)
  PROVE  Axios!Normalize(o)
<1> DEFINE old == store[o]
           map == [k \in Keys |-> IF old[k] = None THEN None
                                  ELSE [old[k] EXCEPT !.name = Titled(@)]]
<1>1. store' = [store EXCEPT ![o] = map] /\ UNCHANGED plain /\ answer' = TRUE
  BY DEF Normalize, Becomes
<1>2. Axios!Becomes(o, Properties(map)) /\ Props[o] = Properties(old)
  <2> HIDE DEF map
  <2> QED BY <1>1, PropsBecome
<1>3. \A k \in Keys : old[k] = None \/ old[k] \in Entries
  BY StoredType DEF Proper, At
<1> HIDE DEF old
<1>4. ASSUME NEW k \in Keys, old[k] # None
      PROVE  /\ map[k] # None
             /\ Abstract(map[k]) = [Abstract(old[k]) EXCEPT !.name = Titled(Abstract(old[k]).name)]
  <2> DEFINE e == old[k]
  <2>1. e \in Entries /\ map[k] = [e EXCEPT !.name = Titled(e.name)]
    BY <1>3, <1>4
  <2> HIDE DEF e
  <2>2. e = [name |-> e.name, value |-> e.value]
    BY <2>1 DEF Entries
  <2>3. map[k] = [name |-> Titled(e.name), value |-> e.value]
    BY <2>1, <2>2
  <2>4. map[k] # None
    BY <2>3 DEF None
  <2>5. CASE e.value \in Lists
    <3>1. Abstract(e) = [name |-> e.name, value |-> AList]
      BY <2>2, <2>5 DEF Abstract
    <3>2. Abstract(map[k]) = [name |-> Titled(e.name), value |-> AList]
      BY <2>3, <2>5 DEF Abstract
    <3> QED BY <2>4, <3>1, <3>2 DEF e
  <2>6. CASE e.value \notin Lists
    <3>1. Abstract(e) = [name |-> e.name, value |-> e.value]
      BY <2>2, <2>6 DEF Abstract
    <3>2. Abstract(map[k]) = [name |-> Titled(e.name), value |-> e.value]
      BY <2>3, <2>6 DEF Abstract
    <3> QED BY <2>4, <3>1, <3>2 DEF e
  <2> QED BY <2>5, <2>6
<1>5. \A k \in Keys : old[k] = None <=> map[k] = None
  BY <1>4
<1>6. Properties(map) = {[p EXCEPT !.name = Titled(p.name)] : p \in Properties(old)}
  <2> HIDE DEF map
  <2>1. \A p : p \in Properties(map) <=> \E k \in Keys : map[k] # None /\ p = Abstract(map[k])
    BY DEF Properties
  <2>2. \A p : p \in Properties(old) <=> \E k \in Keys : old[k] # None /\ p = Abstract(old[k])
    BY DEF Properties
  <2>3. ASSUME NEW p \in Properties(map)
        PROVE  \E q \in Properties(old) : p = [q EXCEPT !.name = Titled(q.name)]
    <3>1. PICK k \in Keys : map[k] # None /\ p = Abstract(map[k])
      BY <2>1
    <3>2. Abstract(old[k]) \in Properties(old)
      BY <1>5, <2>2, <3>1
    <3> QED BY <1>4, <1>5, <3>1, <3>2
  <2>4. ASSUME NEW q \in Properties(old)
        PROVE  [q EXCEPT !.name = Titled(q.name)] \in Properties(map)
    <3>1. PICK k \in Keys : old[k] # None /\ q = Abstract(old[k])
      BY <2>2
    <3> QED BY <1>4, <2>1, <3>1
  <2> QED BY <2>3, <2>4
<1> HIDE DEF map
<1> QED BY <1>1, <1>2, <1>6 DEF Axios!Normalize

LEMMA AxiosToJSON ==
  ASSUME TypeOK, NEW o \in Objects, ToJSON(o)
  PROVE  Axios!ToJSON(o)
<1> DEFINE map == store[o]
           D == {k \in Keys : map[k] # None /\ map[k].value \notin Off}
           S == Shown(map)
           Q == {p \in Props[o] : p.value \notin Off \cup {Undefined}}
           abs == [e \in S |-> Abstract(e)]
<1>1. Props' = Props
  BY DEF ToJSON, Props, Properties, Abstract
<1>2. S = {map[k] : k \in D}
  BY DEF Shown
<1>3. \A k \in Keys : map[k] # None => map[k] \in Entries /\ Key(map[k].name) = k
  BY StoredType DEF Proper, At
<1>4. IsFiniteSet(S)
  <2>1. IsFiniteSet(D)
    BY KeysFinite, FS_Subset
  <2> HIDE DEF D, S, map
  <2> QED BY <1>2, <2>1, FiniteImage
<1>5. \A k \in Keys : map[k] # None => /\ Abstract(map[k]).value \notin Off <=> map[k].value \notin Off
                                       /\ Abstract(map[k]).value # Undefined
  <2>1. \A e \in Entries : /\ Abstract(e) \in AEntries
                           /\ Abstract(e).value = IF e.value \in Lists THEN AList ELSE e.value
    BY AbstractType
  <2>2. \A e \in AEntries : e.value # Undefined
    BY ValuesApart DEF AEntries
  <2>3. Off \cap Lists = {} /\ AList \notin Off
    BY LiteralsAssumption, ValuesApart
  <2> QED BY <1>3, <2>1, <2>2, <2>3
<1>6. Props[o] = {Abstract(map[k]) : k \in {k \in Keys : map[k] # None}}
  BY DEF Props, Properties
<1>7. \A p : p \in Q <=> \E k \in D : p = Abstract(map[k])
  <2> HIDE DEF map
  <2> QED BY <1>5, <1>6
<1>8. abs \in Bijection(S, Q)
  <2>1. \A e \in S : abs[e] \in Q
    <3> HIDE DEF Q, D, S, map
    <3> QED BY <1>2, <1>7
  <2>2. \A p \in Q : \E e \in S : abs[e] = p
    <3> HIDE DEF Q, D, S, map
    <3> QED BY <1>2, <1>7
  <2>3. ASSUME NEW d \in S, NEW e \in S, abs[d] = abs[e] PROVE d = e
    <3>1. PICK k \in D : d = map[k]
      BY <1>2
    <3>2. PICK l \in D : e = map[l]
      BY <1>2
    <3> QED BY <2>3, <3>1, <3>2, Apart
  <2>4. abs \in [S -> Q]
    <3> HIDE DEF Q, S
    <3> QED BY <2>1
  <2> HIDE DEF Q, S, abs
  <2> QED BY <2>2, <2>3, <2>4 DEF Bijection, Injection, Surjection, IsInjective
<1> DEFINE n == Cardinality(S)
<1>9. Cardinality(Q) = n
  <2> HIDE DEF Q, S, abs
  <2> QED BY <1>4, <1>8, FS_Bijection DEF ExistsBijection
<1>10. n \in Nat
  BY <1>4, FS_CardinalityType
<1>11. plain' \in [1 .. n -> S] /\ \A i, j \in 1 .. n : i # j => plain'[i] # plain'[j]
  BY DEF ToJSON, SetToSeqs
<1> HIDE DEF n, S, Q
<1>12. Literal' = [i \in 1 .. n |-> abs[plain'[i]]]
  <2>1. DOMAIN plain' = 1 .. n
    BY <1>11
  <2>2. Literal' = [i \in DOMAIN plain' |-> Abstract(plain'[i])]
    BY DEF Literal, Abstract
  <2>3. \A i \in 1 .. n : Abstract(plain'[i]) = abs[plain'[i]]
    BY <1>11
  <2> HIDE DEF abs
  <2> QED BY <2>1, <2>2, <2>3
<1> HIDE DEF abs
<1>13. Literal' \in [1 .. n -> Q] /\ \A i, j \in 1 .. n : i # j => Literal'[i] # Literal'[j]
  BY <1>8, <1>11, <1>12 DEF Bijection, Injection, IsInjective
<1>14. Literal' \in Axios!SetToSeqs(Q)
  <2>1. Axios!Cardinality(Q) = n
    BY <1>9 DEF Axios!Cardinality, Cardinality
  <2> QED BY <1>13, <2>1 DEF Axios!SetToSeqs
<1>15. Axios!Write(Literal')
  BY <1>1 DEF ToJSON, Axios!Write
<1> QED BY <1>14, <1>15 DEF Axios!ToJSON, Q

LEMMA AxiosWrite ==
  ASSUME NEW literal \in Literals, NEW stamp \in Stamps, Write(literal, stamp)
  PROVE  Axios!Write(literal)
<1>1. literal \in Seq([name : Names, value : Texts \cup Off \cup {Undefined, AList}])
  BY LiteralsAssumption
<1>2. \A i \in DOMAIN literal : literal[i] \in [name : Names, value : Texts \cup Off \cup {Undefined, AList}]
  BY <1>1, LenProperties, ElementOfSeq
<1>3. plain' = [i \in DOMAIN literal |->
                  IF literal[i].value = AList THEN [literal[i] EXCEPT !.value = <<stamp, literal[i].name>>]
                  ELSE literal[i]]
  BY DEF Write
<1>4. ASSUME NEW i \in DOMAIN literal PROVE Abstract(plain'[i]) = literal[i]
  <2> DEFINE e == literal[i]
  <2>1. e \in [name : Names, value : Texts \cup Off \cup {Undefined, AList}]
    BY <1>2
  <2>2. plain'[i] = IF e.value = AList THEN [e EXCEPT !.value = <<stamp, e.name>>] ELSE e
    BY <1>3
  <2> HIDE DEF e
  <2>3. CASE e.value = AList
    <3>1. <<stamp, e.name>> \in Lists
      BY <2>1 DEF Lists
    <3>2. plain'[i] = [name |-> e.name, value |-> <<stamp, e.name>>]
      BY <2>1, <2>2, <2>3
    <3>3. Abstract(plain'[i]) = [name |-> e.name, value |-> AList]
      BY <3>1, <3>2 DEF Abstract
    <3> QED BY <2>1, <2>3, <3>3 DEF e
  <2>4. CASE e.value # AList
    <3>1. e.value \notin Lists
      BY <2>1, <2>4, LiteralsAssumption DEF Values
    <3> QED BY <2>2, <2>4, <3>1 DEF e, Abstract
  <2> QED BY <2>3, <2>4
<1>5. Literal' = literal
  <2>1. DOMAIN plain' = DOMAIN literal
    BY <1>3
  <2>2. Literal' = [i \in DOMAIN plain' |-> Abstract(plain'[i])]
    BY DEF Literal, Abstract
  <2>3. Literal' = [i \in DOMAIN literal |-> literal[i]]
    BY <1>4, <2>1, <2>2
  <2> QED BY <1>1, <2>3, LenProperties
<1>6. Props' = Props
  BY DEF Write, Props, Properties, Abstract
<1> QED BY <1>5, <1>6 DEF Write, Axios!Write

LEMMA AxiosCalls ==
  ASSUME Inv, NEW o \in Objects, NEW stamp \in Stamps
  PROVE  EachCall(o, stamp)
<1>1. TypeOK
  BY DEF Inv
<1>2. \A value \in Texts \cup Off \cup {Undefined} \cup Held : value \in Values \cup {Undefined}
  <2>1. Held \subseteq Lists
    BY DEF Held, ListsOf, ListsOfPlain
  <2> QED BY <2>1 DEF Values
<1>3. \A source \in Sources, other \in Sources :
        LET one == PutAll({}, Axios!EntriesOf(AsSource(source)), "undefined")
        IN  /\ Concat(o, <<source>>, stamp) => Axios!Becomes(o, one) /\ answer' = TRUE
            /\ Concat(o, <<source, other>>, stamp)
               => BecomesAll(o, one, Axios!EntriesOf(AsSource(other)), "undefined")
  BY <1>1, AxiosConcat
<1>4. \A source \in Sources, rewrite \in BOOLEAN :
        SetAll(o, source, rewrite, stamp)
        => \A any \in Rewrites(rewrite) :
             BecomesAll(o, Props[o], Axios!EntriesOf(AsSource(source)), any)
  BY <1>1, AxiosSetAll
<1>5. \A name \in Names, value \in Texts \cup Off \cup {Undefined} \cup Held, rewrite \in BOOLEAN :
        Set(o, name, value, rewrite, stamp)
        => \A any \in Rewrites(rewrite) :
             BecomesAll(o, Props[o], <<Header(name, value)>>, any)
  BY <1>1, <1>2, AxiosSet
<1>6. \A name \in Names, value \in Texts \cup Off \cup {Undefined} \cup Held :
        Assign(o, name, value, stamp) => AssignsLikeAxios(o, name, value)
  BY <1>1, <1>2, AxiosAssign
<1> QED BY <1>3, <1>4, <1>5, <1>6 DEF EachCall

LEMMA AxiosInit ==
  ASSUME Init
  PROVE  Axios!Init
<1>1. Props = [o \in Objects |-> {}]
  BY DEF Init, Props, Properties, Empty
<1>2. Literal = <<>>
  BY DEF Init, Literal
<1> QED BY <1>1, <1>2 DEF Axios!Init, Init

LEMMA AxiosStep ==
  ASSUME Inv
  PROVE  LikeAxios
<1>1. TypeOK
  BY DEF Inv
<1>2. \A o \in Objects : CanMake(o) => EachCall(o, NewStamp(o))
  BY StampType, AxiosCalls
<1>3. \A o \in Objects, keys \in SUBSET Keys :
        Delete(o, keys) => Axios!Delete(o, {p \in Props[o] : Key(p.name) \in keys})
  BY <1>1, AxiosDelete
<1>4. \A o \in Objects, name \in Names : DeleteProperty(o, name) => DeletesLikeAxios(o, name)
  BY <1>1, AxiosDeleteProperty
<1>5. \A o \in Objects : /\ Normalize(o) => Axios!Normalize(o)
                         /\ ToJSON(o) => Axios!ToJSON(o)
  BY <1>1, AxiosNormalize, AxiosToJSON
<1>6. \A literal \in Literals :
        CanMake(None) /\ Write(literal, NewStamp(None)) => Axios!Write(literal)
  BY StampType, AxiosWrite
<1> QED BY <1>2, <1>3, <1>4, <1>5, <1>6 DEF LikeAxios

\* Each call does to the headers, and answers, what the same call of axios
\* does to the properties axios keeps, lists being one value, or departs from
\* it as Departs, AssignsLikeAxios and DeletesLikeAxios name it: after any
\* calls on any number of objects.
THEOREM AxiosImplemented == Spec => ImplementsAxios
<1>1. Init => Axios!Init
  BY AxiosInit
<1>2. Inv /\ [Next]_vars => [LikeAxios]_vars
  BY AxiosStep
<1> QED BY <1>1, <1>2, InvAlways, PTL DEF Spec, ImplementsAxios
=============================================================================

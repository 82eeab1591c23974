-------------------------- MODULE ValueTableProofs --------------------------
(***************************************************************************)
(* For every set of JavaScript values, every number of references and      *)
(* every interleaving of imports, re-entries and finalizers, in both       *)
(* shims: what a Go program holds keeps denoting the value it was made     *)
(* from, and two references are equal exactly when their values are.       *)
(***************************************************************************)
EXTENDS ValueTable, TLAPS, FiniteSetTheorems, SequenceTheorems

-----------------------------------------------------------------------------
(* The reference counts and the holders of an id.                          *)

\* The holders of an id are a finite set.
LEMMA HoldersFinite ==
  ASSUME NEW id
  PROVE  IsFiniteSet(Holders(id)) /\ Cardinality(Holders(id)) \in Nat
<1>1. Holders(id) \subseteq Slots
  BY DEF Holders
<1> QED
  BY <1>1, FS_Subset, FS_CardinalityType, SlotsAssumption

\* A free slot that is filled adds itself to the holders of its id only.
LEMMA HoldersGrow ==
  ASSUME TypeOK, NEW s \in Slots, NEW v, NEW i \in Int, NEW temp, i # None,
         Hold(s, v, i, temp), NEW id \in Int, id # None
  PROVE  /\ id # i => Holders(id)' = Holders(id)
         /\ id = i => /\ Holders(id)' = Holders(id) \cup {s}
                      /\ Cardinality(Holders(id)') = Cardinality(Holders(id)) + 1
<1>1. held[s].id = None
  BY DEF Hold, NoRef
<1>2. id # i => Holders(id)' = Holders(id)
  BY <1>1 DEF Holders, Hold, TypeOK
<1>3. id = i => Holders(id)' = Holders(id) \cup {s}
  BY <1>1 DEF Holders, Hold, TypeOK
<1>4. s \notin Holders(id)
  BY <1>1 DEF Holders
<1>5. Cardinality(Holders(id) \cup {s}) = Cardinality(Holders(id)) + 1
  BY <1>4, HoldersFinite, FS_AddElement
<1> QED
  BY <1>2, <1>3, <1>5

\* A slot that is emptied leaves the holders of its id only.
LEMMA HoldersShrink ==
  ASSUME TypeOK, NEW s \in Slots, held' = [held EXCEPT ![s] = NoRef],
         NEW id \in Int, id # None
  PROVE  /\ id # held[s].id => Holders(id)' = Holders(id)
         /\ id = held[s].id =>
              /\ Holders(id)' = Holders(id) \ {s}
              /\ Cardinality(Holders(id)') = Cardinality(Holders(id)) - 1
<1>1. id # held[s].id => Holders(id)' = Holders(id)
  BY DEF Holders, NoRef, TypeOK
<1>2. id = held[s].id => Holders(id)' = Holders(id) \ {s} /\ s \in Holders(id)
  BY DEF Holders, NoRef, TypeOK
<1>3. s \in Holders(id) => Cardinality(Holders(id) \ {s}) = Cardinality(Holders(id)) - 1
  BY HoldersFinite, FS_RemoveElement
<1> QED
  BY <1>1, <1>2, <1>3

\* An id whose count is zero has no holder, and one whose count is one and
\* that s holds is held by s alone.
LEMMA FewHolders ==
  ASSUME TypeOK, Counted, NEW id \in Fixed..(size - 1)
  PROVE  /\ counts[id] = 0 => \A t \in Slots : held[t].id # id
         /\ \A s, t \in Slots :
              counts[id] = 1 /\ held[s].id = id /\ held[t].id = id => s = t
<1>1. Cardinality(Holders(id)) <= counts[id] /\ counts[id] \in Nat
  BY DEF Counted, TypeOK
<1>2. counts[id] = 0 => Holders(id) = {}
  BY <1>1, HoldersFinite, FS_EmptySet
<1>3. ASSUME NEW s \in Slots, NEW t \in Slots, counts[id] = 1,
             held[s].id = id, held[t].id = id
      PROVE  s = t
  <2>1. s \in Holders(id) /\ t \in Holders(id)
    BY <1>3 DEF Holders
  <2>2. Cardinality(Holders(id) \ {s}) = Cardinality(Holders(id)) - 1
        /\ IsFiniteSet(Holders(id) \ {s})
    BY <2>1, HoldersFinite, FS_RemoveElement
  <2>3. Cardinality(Holders(id) \ {s}) \in Nat
    BY <2>2, FS_CardinalityType
  <2>4. Cardinality(Holders(id) \ {s}) = 0
    BY <1>1, <1>3, <2>2, <2>3, HoldersFinite
  <2>5. Holders(id) \ {s} = {}
    BY <2>2, <2>4, FS_EmptySet
  <2> QED
    BY <2>1, <2>5
<1> QED
  BY <1>2, <1>3 DEF Holders

\* An id that can be handed out again is not in the pool when it is in use.
LEMMA HeldCounted ==
  ASSUME TypeOK, Counted, NEW s \in Slots, held[s].id \in Fixed..(size - 1)
  PROVE  counts[held[s].id] >= 1
<1>1. counts[held[s].id] \in Nat
  BY DEF TypeOK
<1> QED
  BY <1>1, FewHolders

\* A stack without its last element.
LEMMA PopId ==
  ASSUME NEW S, NEW q \in Seq(S), q # <<>>
  PROVE  /\ SubSeq(q, 1, Len(q) - 1) \in Seq(S)
         /\ Len(SubSeq(q, 1, Len(q) - 1)) = Len(q) - 1
         /\ \A j \in 1..(Len(q) - 1) : SubSeq(q, 1, Len(q) - 1)[j] = q[j]
<1>1. Len(q) \in Nat \ {0}
  BY EmptySeq, LenProperties
<1>2. PICK n \in Nat : n = Len(q) - 1
  BY <1>1
<1>3. \A j \in 1..n : q[j] \in S
  BY <1>1, <1>2, ElementOfSeq
<1>4. /\ SubSeq(q, 1, n) \in Seq(S)
      /\ Len(SubSeq(q, 1, n)) = IF 1 <= n THEN n - 1 + 1 ELSE 0
      /\ \A j \in 1..n - 1 + 1 : SubSeq(q, 1, n)[j] = q[1 + j - 1]
  BY <1>3, SubSeqProperties
<1>5. \A j \in 1..n : SubSeq(q, 1, n)[j] = q[j]
  BY <1>4
<1>6. Len(SubSeq(q, 1, n)) = n
  BY <1>4
<1> QED
  BY <1>2, <1>4, <1>5, <1>6

-----------------------------------------------------------------------------
(* What the invariant says of the references.                              *)

\* The fixed entries: their ids, and that no other value has them.
LEMMA FixedFacts ==
  /\ \A v \in FixedKeys \cup {"NaN"} : FixedId(v) \in 0..(Fixed - 1)
  /\ \A v, w \in FixedKeys \cup {"NaN"} : FixedId(v) = FixedId(w) => v = w
  /\ Values \cap FixedKeys = {}
  /\ "NaN" \notin Keys
<1>1. /\ FixedId("NaN") = 0 /\ FixedId("0") = 1 /\ FixedId("null") = 2
      /\ FixedId("true") = 3 /\ FixedId("false") = 4
      /\ FixedId("global") = 5 /\ FixedId("this") = 6
  BY DEF FixedId
<1>2. \A v \in FixedKeys \cup {"NaN"} :
        v \in {"NaN", "0", "null", "true", "false", "global", "this"}
  BY DEF FixedKeys
<1>3. Values \cap FixedKeys = {} /\ "NaN" \notin Keys
  BY ValuesAssumption DEF FixedKeys, Keys
<1> QED
  BY <1>1, <1>2, <1>3 DEF Fixed

\* What a reference denotes is in the table, at the id of the reference.
LEMMA IInvDenotes == IInv => RefDenotes
<1> SUFFICES ASSUME IInv, NEW s \in Slots, held[s].id # None
             PROVE  held[s].id \in TableIds /\ values[held[s].id] = held[s].val
  BY DEF RefDenotes
<1>1. CASE held[s].val \in Direct
  <2>1. held[s].val \in FixedKeys \cup {"NaN"}
    BY <1>1 DEF Direct, GoDirect, TinyDirect, FixedKeys
  <2>2. held[s].id = FixedId(held[s].val)
    BY <1>1 DEF IInv, HeldKnown
  <2>3. held[s].id \in 0..(Fixed - 1)
    BY <2>1, <2>2, FixedFacts
  <2>4. values[held[s].id] = held[s].val
    BY <2>1, <2>2 DEF IInv, FixedStay
  <2>5. size \in Nat /\ size >= Fixed
    BY DEF IInv, TypeOK
  <2> QED
    BY <2>3, <2>4, <2>5 DEF TableIds, Fixed
<1>2. CASE held[s].val \notin Direct
  BY <1>2 DEF IInv, HeldKnown, IdsPoint
<1> QED
  BY <1>1, <1>2

\* Equal references and equal values are the same thing.
LEMMA IInvEqual == IInv => EqualRefs
<1> SUFFICES ASSUME IInv, NEW s \in Slots, NEW t \in Slots,
                    held[s].id # None, held[t].id # None
             PROVE  held[s].id = held[t].id <=> held[s].val = held[t].val
  BY DEF EqualRefs
<1>1. held[s].id = held[t].id => held[s].val = held[t].val
  BY IInvDenotes DEF RefDenotes
<1>2. held[s].val = held[t].val => held[s].id = held[t].id
  BY DEF IInv, HeldKnown
<1> QED
  BY <1>1, <1>2

-----------------------------------------------------------------------------
(* The invariant is inductive.                                             *)

\* The tables hold the fixed values, and Go no reference.
LEMMA InitIInv == Init => IInv
<1> SUFFICES ASSUME Init PROVE IInv
  OBVIOUS
<1> USE DEF Init, Fixed, NoRef
<1>1. TypeOK
  <2>1. values \in [TableIds -> JsValues]
    BY DEF TableIds, JsValues, Keys, FixedKeys, Predeclared
  <2>2. ids \in [Keys -> Int]
    BY DEF GoIds, TinyIds, FixedId, None
  <2>3. held \in [Slots -> Refs]
    BY DEF Refs, JsValues, Inline, None
  <2>4. counts \in [Fixed..(size - 1) -> Nat]
    OBVIOUS
  <2>5. flavour \in {"go", "tinygo"}
    BY BoundsAssumption
  <2>6. pool \in Seq(Nat)
    OBVIOUS
  <2>7. size \in Nat /\ size >= Fixed
    OBVIOUS
  <2> HIDE DEF Init
  <2> QED
    BY <2>1, <2>2, <2>3, <2>4, <2>5, <2>6, <2>7 DEF TypeOK
<1>2. FixedStay
  BY DEF FixedStay, FixedKeys, FixedId, Predeclared
<1>3. FixedIds
  BY DEF FixedIds, GoIds, TinyIds, Keys, TinyDirect, FixedKeys
<1>4. IdsPoint
  <2> SUFFICES ASSUME NEW v \in Keys, ids[v] # None
               PROVE  ids[v] \in TableIds /\ values[ids[v]] = v
    BY DEF IdsPoint
  <2>1. v \in FixedKeys /\ ids[v] = FixedId(v)
    BY DEF GoIds, TinyIds
  <2>2. TableIds = 0..(Fixed - 1)
    BY DEF TableIds
  <2> HIDE DEF Init
  <2>3. FixedId(v) \in 0..(Fixed - 1) /\ values[FixedId(v)] = v
    BY <2>1, <1>2, FixedFacts DEF FixedStay
  <2> QED
    BY <2>1, <2>2, <2>3
<1>5. PoolIsFree /\ PoolDistinct /\ Counted /\ HeldKnown
  BY DEF PoolIsFree, PoolDistinct, Counted, HeldKnown
<1> QED
  BY <1>1, <1>2, <1>3, <1>4, <1>5 DEF IInv

\* A step that leaves the table and the references alone keeps it.
LEMMA Untouched == IInv /\ UNCHANGED <<flavour, table>> => IInv'
  BY DEF IInv, table, TypeOK, TableIds, IdsPoint, PoolIsFree, PoolDistinct,
         Counted, Holders, FixedStay, FixedIds, HeldKnown, Direct

\* A fixed value, encoded by its id alone.
LEMMA StoreDirectIInv ==
  ASSUME IInv, NEW v, NEW s \in Slots, NEW temp \in BOOLEAN,
         StoreDirect(v, s, temp), flavour' = flavour
  PROVE  IInv'
<1> USE DEF StoreDirect
<1>1. v \in FixedKeys \cup {"NaN"} /\ FixedId(v) \in 0..(Fixed - 1)
  BY FixedFacts DEF Direct, GoDirect, TinyDirect, FixedKeys
<1>2. TypeOK'
  BY <1>1 DEF IInv, TypeOK, TableIds, Hold, Refs, JsValues, Keys, Fixed
<1>3. Counted'
  <2> SUFFICES ASSUME NEW id \in Fixed..(size - 1)
               PROVE  Cardinality(Holders(id)') <= counts[id]
    BY DEF Counted
  <2>1. id # FixedId(v) /\ id # None /\ FixedId(v) # None
    BY <1>1 DEF Fixed, None
  <2>2. Holders(id)' = Holders(id)
    BY <1>1, <2>1, HoldersGrow DEF IInv
  <2> QED
    BY <2>2 DEF IInv, Counted
<1>4. HeldKnown'
  BY DEF IInv, HeldKnown, Hold, TypeOK, Direct
<1>5. IdsPoint' /\ PoolIsFree' /\ PoolDistinct' /\ FixedStay' /\ FixedIds'
  BY DEF IInv, IdsPoint, PoolIsFree, PoolDistinct, FixedStay, FixedIds, TableIds
<1> QED
  BY <1>2, <1>3, <1>4, <1>5 DEF IInv

\* A value that has an id: one more holder, one more count.
LEMMA StoreKnownIInv ==
  ASSUME IInv, NEW v, NEW s \in Slots, NEW temp \in BOOLEAN,
         StoreKnown(v, s, temp), flavour' = flavour
  PROVE  IInv'
<1> DEFINE i == ids[v]
<1> USE DEF StoreKnown, Lookup
<1>1. v \in Keys /\ v \notin Direct /\ i \in TableIds /\ values[i] = v /\ i # None /\ i \in Int
  BY DEF IInv, IdsPoint, TypeOK, TableIds
<1>2. counts' = [id \in Fixed..(size - 1) |-> IF id = i THEN counts[id] + 1 ELSE counts[id]]
  OBVIOUS
<1>3. counts' \in [Fixed..(size - 1) -> Nat]
  BY <1>2 DEF IInv, TypeOK
<1>4. TypeOK'
  BY <1>1, <1>3 DEF IInv, TypeOK, TableIds, Hold, Refs, JsValues
<1>5. Counted'
  <2> SUFFICES ASSUME NEW id \in Fixed..(size - 1)
               PROVE  Cardinality(Holders(id)') <= counts'[id]
    BY DEF Counted
  <2>1. id \in Int /\ id # None /\ Hold(s, v, i, temp)
    BY DEF Fixed, None
  <2>2. Cardinality(Holders(id)) <= counts[id] /\ counts[id] \in Nat
    BY DEF IInv, Counted, TypeOK
  <2>3. CASE id = i
    <3>1. Cardinality(Holders(id)') = Cardinality(Holders(id)) + 1
      BY <1>1, <2>1, <2>3, HoldersGrow DEF IInv
    <3> QED
      BY <1>2, <2>2, <2>3, <3>1, HoldersFinite
  <2>4. CASE id # i
    <3>1. Holders(id)' = Holders(id)
      BY <1>1, <2>1, <2>4, HoldersGrow DEF IInv
    <3> QED
      BY <1>2, <2>2, <2>4, <3>1
  <2> QED
    BY <2>3, <2>4
<1>6. PoolIsFree'
  <2> SUFFICES ASSUME NEW j \in 1..Len(pool)
               PROVE  pool[j] \in Fixed..(size - 1) /\ counts'[pool[j]] = 0 /\ values[pool[j]] = Null
    BY DEF PoolIsFree
  <2>1. pool[j] \in Fixed..(size - 1) /\ counts[pool[j]] = 0 /\ values[pool[j]] = Null
    BY DEF IInv, PoolIsFree
  <2>2. i \notin Fixed..(size - 1) \/ values[i] # Null
    <3>1. CASE v = Null
      BY <1>1, <3>1, FixedFacts DEF IInv, FixedIds, FixedKeys, Null, Direct, TinyDirect, Fixed, None
    <3> QED
      BY <1>1, <3>1
  <2> QED
    BY <1>2, <2>1, <2>2
<1>7. HeldKnown'
  BY <1>1 DEF IInv, HeldKnown, Hold, TypeOK, Direct
<1>8. IdsPoint' /\ PoolDistinct' /\ FixedStay' /\ FixedIds'
  BY DEF IInv, IdsPoint, PoolDistinct, FixedStay, FixedIds, TableIds
<1> QED
  BY <1>4, <1>5, <1>6, <1>7, <1>8 DEF IInv

\* What a value that gets an id cannot be: a fixed one of the Go shim.
LEMMA Fresh ==
  ASSUME IInv, NEW v \in Keys \ Direct, ids[v] = None
  PROVE  v \in Values \/ (flavour # "go" /\ v \in FixedKeys /\ v \notin TinyDirect)
  BY FixedFacts DEF IInv, FixedIds, Keys, Direct, None

\* The id from the pool has no holder and no entry: it may be reused.
LEMMA StorePooledIInv ==
  ASSUME IInv, NEW v, NEW s \in Slots, NEW temp \in BOOLEAN,
         StorePooled(v, s, temp), flavour' = flavour
  PROVE  IInv'
<1> DEFINE i == pool[Len(pool)]
<1> USE DEF StorePooled, Lookup
<1>1. Len(pool) \in Nat \ {0} /\ pool \in Seq(Nat)
  BY EmptySeq, LenProperties DEF IInv, TypeOK
<1>2. i \in Fixed..(size - 1) /\ counts[i] = 0 /\ values[i] = Null
  BY <1>1 DEF IInv, PoolIsFree
<1>3. /\ pool' \in Seq(Nat)
      /\ Len(pool') = Len(pool) - 1
      /\ \A j \in 1..(Len(pool) - 1) : pool'[j] = pool[j]
  BY <1>1, PopId
<1>4. size \in Nat /\ size >= Fixed /\ i \in Int /\ i # None /\ i \in TableIds
  BY <1>2 DEF IInv, TypeOK, Fixed, None, TableIds
<1>5. v \in Keys \ Direct /\ v \in JsValues /\ ids[v] = None
  BY DEF JsValues
<1>6. /\ values' = [values EXCEPT ![i] = v] /\ counts' = [counts EXCEPT ![i] = 1]
      /\ ids' = [ids EXCEPT ![v] = i] /\ Hold(s, v, i, temp) /\ size' = size
  OBVIOUS
<1> HIDE DEF StorePooled, i
<1>7. TypeOK'
  BY <1>2, <1>3, <1>4, <1>5, <1>6 DEF IInv, TypeOK, TableIds, Hold, Refs
<1>8. \A w \in Keys : ids[w] # i
  <2> SUFFICES ASSUME NEW w \in Keys, ids[w] = i PROVE FALSE
    OBVIOUS
  <2>1. w = Null
    BY <1>2, <1>4 DEF IInv, IdsPoint
  <2> QED
    BY <1>2, <2>1, FixedFacts DEF IInv, FixedIds, FixedKeys, Null, TinyDirect, Fixed, None
<1>9. IdsPoint'
  BY <1>4, <1>5, <1>6, <1>8 DEF IInv, IdsPoint, TypeOK, TableIds
<1>10. PoolIsFree' /\ PoolDistinct'
  <2>1. \A j \in 1..(Len(pool) - 1) : j \in 1..Len(pool) /\ j # Len(pool) /\ Len(pool) \in 1..Len(pool)
    BY <1>1
  <2>2. \A j \in 1..(Len(pool) - 1) : pool[j] # i /\ pool[j] \in Fixed..(size - 1)
    BY <2>1 DEF IInv, PoolDistinct, PoolIsFree, i
  <2>3. PoolIsFree'
    <3> SUFFICES ASSUME NEW j \in 1..(Len(pool) - 1)
                 PROVE  /\ pool[j] \in Fixed..(size - 1)
                        /\ counts'[pool[j]] = 0
                        /\ values'[pool[j]] = Null
      BY <1>3, <1>6 DEF PoolIsFree
    <3>1. counts[pool[j]] = 0 /\ values[pool[j]] = Null
      BY <2>1 DEF IInv, PoolIsFree
    <3> QED
      BY <1>4, <1>6, <2>2, <3>1 DEF IInv, TypeOK, TableIds, Fixed
  <2>4. PoolDistinct'
    BY <1>3, <2>1 DEF IInv, PoolDistinct
  <2> QED
    BY <2>3, <2>4
<1>11. Counted'
  <2> SUFFICES ASSUME NEW id \in Fixed..(size - 1)
               PROVE  Cardinality(Holders(id)') <= counts'[id]
    BY <1>6 DEF Counted
  <2>1. id \in Int /\ id # None
    BY DEF Fixed, None
  <2>2. Cardinality(Holders(id)) <= counts[id] /\ counts[id] \in Nat
    BY DEF IInv, Counted, TypeOK
  <2>3. CASE id = i
    <3>1. Cardinality(Holders(id)') = Cardinality(Holders(id)) + 1
      BY <1>4, <1>6, <2>1, <2>3, HoldersGrow DEF IInv
    <3>2. Cardinality(Holders(id)) = 0 /\ counts'[id] = 1
      BY <1>2, <1>6, <2>2, <2>3, HoldersFinite DEF IInv, TypeOK
    <3> QED
      BY <3>1, <3>2
  <2>4. CASE id # i
    <3>1. Holders(id)' = Holders(id)
      BY <1>4, <1>6, <2>1, <2>4, HoldersGrow DEF IInv
    <3>2. counts'[id] = counts[id]
      BY <1>6, <2>4 DEF IInv, TypeOK
    <3> QED
      BY <2>2, <3>1, <3>2
  <2> QED
    BY <2>3, <2>4
<1>12. FixedStay'
  <2> SUFFICES ASSUME NEW w \in FixedKeys \cup {"NaN"}
               PROVE  values'[FixedId(w)] = w
    BY DEF FixedStay
  <2>1. FixedId(w) # i
    BY <1>2, FixedFacts DEF Fixed
  <2>2. values[FixedId(w)] = w
    BY DEF IInv, FixedStay
  <2>3. FixedId(w) \in TableIds
    BY <1>4, FixedFacts DEF TableIds, Fixed
  <2> QED
    BY <1>6, <2>1, <2>2, <2>3 DEF IInv, TypeOK
<1>13. FixedIds'
  BY <1>5, <1>6, Fresh, FixedFacts DEF IInv, FixedIds, TypeOK
<1>14. HeldKnown'
  <2>1. \A t \in Slots : held[t].id # i
    BY <1>2, FewHolders DEF IInv
  <2>2. \A t \in Slots : held[t].id # None /\ held[t].val = v => FALSE
    BY <1>5 DEF IInv, HeldKnown, Direct
  <2> QED
    BY <1>5, <1>6, <2>1, <2>2 DEF IInv, HeldKnown, Hold, TypeOK, Direct
<1> QED
  BY <1>7, <1>9, <1>10, <1>11, <1>12, <1>13, <1>14 DEF IInv

\* A new id at the end of the table.
LEMMA StoreNewIInv ==
  ASSUME IInv, NEW v, NEW s \in Slots, NEW temp \in BOOLEAN,
         StoreNew(v, s, temp), flavour' = flavour
  PROVE  IInv'
<1>1. size \in Nat /\ size >= Fixed /\ size \in Int /\ size # None /\ size' = size + 1
  BY DEF IInv, TypeOK, StoreNew, None
<1>2. v \in Keys \ Direct /\ v \in JsValues /\ ids[v] = None
  BY DEF StoreNew, Lookup, JsValues
<1>3. /\ values' = [i \in 0..size |-> IF i = size THEN v ELSE values[i]]
      /\ counts' = [i \in Fixed..size |-> IF i = size THEN 1 ELSE counts[i]]
      /\ ids' = [ids EXCEPT ![v] = size] /\ Hold(s, v, size, temp)
      /\ pool' = pool /\ pool = <<>>
  BY DEF StoreNew
<1>4. size' - 1 = size /\ TableIds' = 0..size
  BY <1>1 DEF TableIds
<1>5. TypeOK'
  <2>1. values' \in [TableIds' -> JsValues]
    BY <1>1, <1>2, <1>3, <1>4 DEF IInv, TypeOK, TableIds
  <2>2. counts' \in [Fixed..(size' - 1) -> Nat]
    BY <1>1, <1>3, <1>4 DEF IInv, TypeOK
  <2>3. ids' \in [Keys -> Int]
    BY <1>1, <1>2, <1>3 DEF IInv, TypeOK
  <2>4. held' \in [Slots -> Refs]
    BY <1>1, <1>2, <1>3 DEF IInv, TypeOK, Hold, Refs
  <2> QED
    BY <1>1, <1>3, <2>1, <2>2, <2>3, <2>4 DEF IInv, TypeOK, Fixed
<1>6. IdsPoint'
  BY <1>1, <1>2, <1>3, <1>4 DEF IInv, IdsPoint, TypeOK, TableIds
<1>7. PoolIsFree' /\ PoolDistinct'
  BY <1>3 DEF PoolIsFree, PoolDistinct
<1>8. Counted'
  <2> SUFFICES ASSUME NEW id \in Fixed..size
               PROVE  Cardinality(Holders(id)') <= counts'[id]
    BY <1>4 DEF Counted
  <2>1. id \in Int /\ id # None
    BY DEF Fixed, None
  <2>2. CASE id = size
    <3>1. \A t \in Slots : held[t].id # size
      BY <1>1, IInvDenotes DEF RefDenotes, TableIds, IInv
    <3>2. Holders(id) = {}
      BY <2>2, <3>1 DEF Holders
    <3>3. Cardinality(Holders(id)) = 0
      BY <3>2, FS_EmptySet
    <3>4. Cardinality(Holders(id)') = Cardinality(Holders(id)) + 1
      BY <1>1, <1>3, <2>1, <2>2, HoldersGrow DEF IInv
    <3>5. counts'[id] = 1
      BY <1>3, <2>2
    <3> QED
      BY <3>3, <3>4, <3>5
  <2>3. CASE id # size
    <3>1. id \in Fixed..(size - 1)
      BY <1>1, <2>3
    <3>2. Holders(id)' = Holders(id)
      BY <1>1, <1>3, <2>1, <2>3, HoldersGrow DEF IInv
    <3>3. counts'[id] = counts[id]
      BY <1>3, <2>3
    <3> QED
      BY <3>1, <3>2, <3>3 DEF IInv, Counted
  <2> QED
    BY <2>2, <2>3
<1>9. FixedStay'
  <2> SUFFICES ASSUME NEW w \in FixedKeys \cup {"NaN"}
               PROVE  values'[FixedId(w)] = w
    BY DEF FixedStay
  <2>1. FixedId(w) \in 0..size /\ FixedId(w) # size
    BY <1>1, FixedFacts DEF Fixed
  <2>2. values[FixedId(w)] = w
    BY DEF IInv, FixedStay
  <2> QED
    BY <1>3, <2>1, <2>2
<1>10. FixedIds'
  BY <1>2, <1>3, Fresh, FixedFacts DEF IInv, FixedIds, TypeOK
<1>11. HeldKnown'
  <2>1. \A t \in Slots : held[t].id # None /\ held[t].val = v => FALSE
    BY <1>2 DEF IInv, HeldKnown, Direct
  <2>2. flavour' = flavour /\ Direct' = Direct
    BY DEF Direct
  <2> QED
    BY <1>2, <1>3, <2>1, <2>2 DEF IInv, HeldKnown, Hold, TypeOK
<1> QED
  BY <1>5, <1>6, <1>7, <1>8, <1>9, <1>10, <1>11 DEF IInv

\* storeValue and boxValue.
LEMMA StoreValueIInv ==
  ASSUME IInv, NEW v, NEW s \in Slots, NEW temp \in BOOLEAN,
         StoreValue(v, s, temp), flavour' = flavour
  PROVE  IInv'
<1>1. CASE StoreInline(v, s)
  BY <1>1, Untouched DEF StoreInline
<1> QED
  BY <1>1, StoreDirectIInv, StoreKnownIInv, StorePooledIInv, StoreNewIInv DEF StoreValue

\* finalizeRef: the id is freed only when the reference that goes is the last.
LEMMA FinalizeIInv ==
  ASSUME IInv, NEW s \in Slots, held[s].id # None,
         FinalizeRef(held[s].id), held' = [held EXCEPT ![s] = NoRef], flavour' = flavour
  PROVE  IInv'
<1> DEFINE i == held[s].id
<1>1. i \in TableIds /\ i \in Int /\ values[i] = held[s].val
  BY IInvDenotes DEF RefDenotes, IInv, TypeOK, Refs
<1>2. size' = size /\ size \in Nat /\ size >= Fixed /\ TableIds' = TableIds
  BY DEF FinalizeRef, IInv, TypeOK, TableIds
<1>3. CASE i < Fixed
  <2>1. UNCHANGED <<size, values, counts, ids, pool>>
    BY <1>3 DEF FinalizeRef
  <2>2. TypeOK'
    BY <2>1 DEF IInv, TypeOK, TableIds, Refs, NoRef, None, JsValues, Inline
  <2>3. Counted'
    <3> SUFFICES ASSUME NEW id \in Fixed..(size - 1)
                 PROVE  Cardinality(Holders(id)') <= counts[id]
      BY <2>1 DEF Counted
    <3>1. Holders(id)' = Holders(id)
      <4>1. id \in Int /\ id # None /\ id # i
        BY <1>1, <1>3 DEF None, Fixed
      <4> QED
        BY <4>1, HoldersShrink DEF IInv
    <3> QED
      BY <3>1 DEF IInv, Counted
  <2>4. HeldKnown'
    BY <2>1 DEF IInv, HeldKnown, NoRef, TypeOK, Direct
  <2> QED
    BY <2>1, <2>2, <2>3, <2>4
       DEF IInv, IdsPoint, PoolIsFree, PoolDistinct, FixedStay, FixedIds, TableIds
<1>4. CASE i >= Fixed
  <2>1. i \in Fixed..(size - 1)
    BY <1>1, <1>2, <1>4 DEF TableIds
  <2>2. counts' = [counts EXCEPT ![i] = @ - 1] /\ counts[i] \in Nat /\ counts[i] >= 1
    BY <1>1, <1>4, <2>1, HeldCounted DEF FinalizeRef, IInv, TypeOK, Fixed
  <2>3. counts' \in [Fixed..(size - 1) -> Nat]
    BY <2>1, <2>2 DEF IInv, TypeOK
  <2>4. held' \in [Slots -> Refs]
    BY DEF IInv, TypeOK, Refs, NoRef, None, JsValues, Inline
  <2>5. Counted'
    <3> SUFFICES ASSUME NEW id \in Fixed..(size - 1)
                 PROVE  Cardinality(Holders(id)') <= counts'[id]
      BY <1>2 DEF Counted
    <3>1. id \in Int /\ id # None
      BY DEF Fixed, None
    <3>2. Cardinality(Holders(id)) <= counts[id] /\ counts[id] \in Nat
      BY DEF IInv, Counted, TypeOK
    <3>3. CASE id = i
      <4>1. Cardinality(Holders(id)') = Cardinality(Holders(id)) - 1
        BY <3>1, <3>3, HoldersShrink DEF IInv
      <4>2. counts'[id] = counts[id] - 1
        BY <2>1, <2>2, <3>3 DEF IInv, TypeOK
      <4> QED
        BY <3>2, <4>1, <4>2, HoldersFinite
    <3>4. CASE id # i
      <4>1. Holders(id)' = Holders(id)
        BY <3>1, <3>4, HoldersShrink DEF IInv
      <4>2. counts'[id] = counts[id]
        BY <2>2, <3>4 DEF IInv, TypeOK
      <4> QED
        BY <3>2, <4>1, <4>2
    <3> QED
      BY <3>3, <3>4
  <2>6. CASE counts[i] # 1
    <3>1. UNCHANGED <<values, ids, pool>>
      BY <1>4, <2>6 DEF FinalizeRef, Fixed
    <3>2. TypeOK'
      BY <1>2, <2>3, <2>4, <3>1 DEF IInv, TypeOK
    <3>3. PoolIsFree'
      <4> SUFFICES ASSUME NEW j \in 1..Len(pool)
                   PROVE  /\ pool[j] \in Fixed..(size - 1)
                          /\ counts'[pool[j]] = 0 /\ values[pool[j]] = Null
        BY <1>2, <3>1 DEF PoolIsFree
      <4>1. pool[j] \in Fixed..(size - 1) /\ counts[pool[j]] = 0 /\ values[pool[j]] = Null
        BY DEF IInv, PoolIsFree
      <4>2. pool[j] # i
        BY <2>2, <4>1
      <4> QED
        BY <2>2, <4>1, <4>2 DEF IInv, TypeOK
    <3>4. HeldKnown'
      BY <3>1 DEF IInv, HeldKnown, NoRef, TypeOK, Direct
    <3> QED
      BY <1>2, <2>5, <3>1, <3>2, <3>3, <3>4
         DEF IInv, IdsPoint, PoolDistinct, FixedStay, FixedIds
  <2>7. CASE counts[i] = 1
    <3> DEFINE v == held[s].val
    <3>1. /\ values' = [values EXCEPT ![i] = Null]
          /\ ids' = [ids EXCEPT ![v] = None]
          /\ pool' = Append(pool, i)
      BY <1>1, <1>4, <2>7 DEF FinalizeRef, Fixed
    <3>2. v \notin Direct /\ v \in Keys /\ ids[v] = i
      <4>1. \A w \in Direct : FixedId(w) < Fixed
        BY FixedFacts DEF Direct, GoDirect, TinyDirect, FixedKeys, Fixed
      <4> QED
        BY <1>1, <1>4, <4>1 DEF IInv, HeldKnown, Fixed
    <3>3. \A t \in Slots : held[t].id = i => t = s
      BY <2>1, <2>7, FewHolders DEF IInv
    <3>4. TypeOK'
      <4>1. values' \in [TableIds -> JsValues]
        BY <1>1, <3>1 DEF IInv, TypeOK, Null, JsValues, Keys, FixedKeys
      <4>2. ids' \in [Keys -> Int]
        BY <3>1, <3>2 DEF IInv, TypeOK, None
      <4>3. pool' \in Seq(Nat)
        BY <2>1, <3>1, AppendProperties DEF IInv, TypeOK, Fixed
      <4> QED
        BY <1>2, <2>3, <2>4, <4>1, <4>2, <4>3 DEF IInv, TypeOK
    <3>5. IdsPoint'
      <4> SUFFICES ASSUME NEW w \in Keys, ids'[w] # None
                   PROVE  ids'[w] \in TableIds /\ values'[ids'[w]] = w
        BY <1>2 DEF IdsPoint
      <4>1. w # v /\ ids'[w] = ids[w]
        BY <3>1, <3>2 DEF IInv, TypeOK
      <4>2. ids[w] \in TableIds /\ values[ids[w]] = w
        BY <4>1 DEF IInv, IdsPoint
      <4>3. ids[w] # i
        BY <1>1, <4>1, <4>2
      <4> QED
        BY <3>1, <4>1, <4>2, <4>3 DEF IInv, TypeOK
    <3>6. /\ Len(pool) \in Nat /\ Len(pool') = Len(pool) + 1
          /\ pool'[Len(pool) + 1] = i
          /\ \A j \in 1..Len(pool) : pool'[j] = pool[j]
      BY <2>1, <3>1, AppendProperties, LenProperties DEF IInv, TypeOK, Fixed
    <3>7. \A j \in 1..Len(pool) : pool[j] # i /\ pool[j] \in Fixed..(size - 1)
                                 /\ counts[pool[j]] = 0 /\ values[pool[j]] = Null
      BY <2>7 DEF IInv, PoolIsFree
    <3>8. PoolIsFree'
      <4> SUFFICES ASSUME NEW j \in 1..(Len(pool) + 1)
                   PROVE  /\ pool'[j] \in Fixed..(size - 1)
                          /\ counts'[pool'[j]] = 0 /\ values'[pool'[j]] = Null
        BY <1>2, <3>6 DEF PoolIsFree
      <4>1. CASE j = Len(pool) + 1
        BY <1>1, <2>1, <2>2, <2>7, <3>1, <3>6, <4>1 DEF IInv, TypeOK
      <4>2. CASE j \in 1..Len(pool)
        <5>1. pool'[j] = pool[j] /\ pool[j] \in TableIds
          BY <1>2, <3>6, <3>7, <4>2 DEF TableIds, Fixed
        <5> QED
          BY <2>2, <3>1, <3>7, <4>2, <5>1 DEF IInv, TypeOK
      <4> QED
        BY <3>6, <4>1, <4>2
    <3>9. PoolDistinct'
      BY <3>6, <3>7 DEF IInv, PoolDistinct
    <3>10. FixedStay'
      <4> SUFFICES ASSUME NEW w \in FixedKeys \cup {"NaN"}
                   PROVE  values'[FixedId(w)] = w
        BY DEF FixedStay
      <4>1. FixedId(w) # i /\ FixedId(w) \in TableIds
        BY <1>2, <1>4, FixedFacts DEF Fixed, TableIds
      <4> QED
        BY <3>1, <4>1 DEF IInv, FixedStay, TypeOK
    <3>11. FixedIds'
      <4> SUFFICES ASSUME NEW w \in FixedKeys
                   PROVE  IF flavour = "go" THEN ids'[w] = FixedId(w)
                          ELSE w \in TinyDirect => ids'[w] = None
        BY DEF FixedIds
      <4>1. w \in Keys /\ ids'[w] = IF w = v THEN None ELSE ids[w]
        BY <3>1 DEF IInv, TypeOK, Keys
      <4>2. flavour = "go" => ids[w] = FixedId(w)
        BY DEF IInv, FixedIds
      <4>3. FixedId(w) # i
        BY <1>1, <1>4, FixedFacts DEF Fixed
      <4>4. flavour = "go" => w # v
        BY <3>2, <4>2, <4>3
      <4> QED
        BY <4>1, <4>2, <4>4 DEF IInv, FixedIds
    <3>12. HeldKnown'
      <4> SUFFICES ASSUME NEW t \in Slots, held'[t].id # None
                   PROVE  IF held'[t].val \in Direct
                          THEN held'[t].id = FixedId(held'[t].val)
                          ELSE held'[t].val \in Keys /\ ids'[held'[t].val] = held'[t].id
        BY DEF HeldKnown, Direct
      <4>1. t # s /\ held'[t] = held[t]
        BY DEF IInv, TypeOK, NoRef
      <4>2. held[t].id # i
        BY <3>3, <4>1
      <4>3. held[t].val \notin Direct => held[t].val # v
        BY <3>2, <4>1, <4>2 DEF IInv, HeldKnown
      <4> QED
        BY <3>1, <3>2, <4>1, <4>3 DEF IInv, HeldKnown, TypeOK
    <3> QED
      BY <2>5, <3>4, <3>5, <3>8, <3>9, <3>10, <3>11, <3>12 DEF IInv
  <2> QED
    BY <2>6, <2>7
<1> QED
  BY <1>1, <1>3, <1>4 DEF Fixed

\* A reference that no finalizer watches is dropped: its id keeps its count.
LEMMA ForgetIInv ==
  ASSUME IInv, NEW s \in Slots, held' = [held EXCEPT ![s] = NoRef],
         UNCHANGED <<flavour, size, values, counts, ids, pool>>
  PROVE  IInv'
<1>1. TypeOK'
  BY DEF IInv, TypeOK, TableIds, NoRef, Refs, JsValues, Inline, None
<1>2. Counted'
  <2> SUFFICES ASSUME NEW id \in Fixed..(size - 1)
               PROVE  Cardinality(Holders(id)') <= counts[id]
    BY DEF Counted
  <2>1. id \in Int /\ id # None
    BY DEF Fixed, None
  <2>2. Cardinality(Holders(id)) <= counts[id] /\ counts[id] \in Nat
    BY DEF IInv, Counted, TypeOK
  <2>3. CASE id = held[s].id
    <3>1. Cardinality(Holders(id)') = Cardinality(Holders(id)) - 1
      BY <2>1, <2>3, HoldersShrink DEF IInv
    <3> QED
      BY <2>2, <3>1, HoldersFinite
  <2>4. CASE id # held[s].id
    <3>1. Holders(id)' = Holders(id)
      BY <2>1, <2>4, HoldersShrink DEF IInv
    <3> QED
      BY <2>2, <3>1
  <2> QED
    BY <2>3, <2>4
<1>3. HeldKnown'
  <2>1. \A t \in Slots : held'[t].id # None => held'[t] = held[t]
    BY DEF IInv, TypeOK, NoRef
  <2> QED
    BY <2>1 DEF IInv, HeldKnown, Direct
<1>4. IdsPoint' /\ PoolIsFree' /\ PoolDistinct' /\ FixedStay' /\ FixedIds'
  BY DEF IInv, IdsPoint, PoolIsFree, PoolDistinct, FixedStay, FixedIds, TableIds
<1> QED
  BY <1>1, <1>2, <1>3, <1>4 DEF IInv

\* Every step of an import, of JavaScript and of Go keeps the invariant.
LEMMA NextIInv == IInv /\ [Next]_vars => IInv'
<1> SUFFICES ASSUME IInv, [Next]_vars PROVE IInv'
  OBVIOUS
<1>1. ASSUME NEW op \in Ops, NEW s \in Slots, Call(op, s) PROVE IInv'
  BY <1>1, Untouched DEF Call
<1>2. CASE Load
  BY <1>2, Untouched DEF Load
<1>3. CASE Reenter
  BY <1>3, Untouched DEF Reenter
<1>4. CASE JsReturns
  BY <1>4, Untouched DEF JsReturns
<1>5. CASE JsThrows
  BY <1>5, Untouched DEF JsThrows
<1>6. CASE GetSp
  BY <1>6, Untouched DEF GetSp
<1>7. ASSUME NEW v \in Results, NEW s \in Slots, Store(v, s) PROVE IInv'
  <2>1. /\ flavour' = flavour
        /\ StoreValue(v, s, Top.returns = "bytes")
        /\ (Top.returns = "bytes") \in BOOLEAN
    BY <1>7 DEF Store
  <2> QED
    BY <2>1, StoreValueIInv
<1>8. CASE Write
  BY <1>8, Untouched DEF Write
<1>9. CASE Return
  BY <1>9, Untouched DEF Return
<1>10. ASSUME NEW s \in Slots, Finalize(s) PROVE IInv'
  <2>1. /\ held[s].id # None /\ FinalizeRef(held[s].id)
        /\ held' = [held EXCEPT ![s] = NoRef] /\ flavour' = flavour
    BY <1>10 DEF Finalize, Droppable
  <2> QED
    BY <2>1, FinalizeIInv
<1>11. ASSUME NEW s \in Slots, Forget(s) PROVE IInv'
  BY <1>11, ForgetIInv DEF Forget
<1>12. CASE MoveStack
  BY <1>12, Untouched DEF MoveStack
<1>13. CASE UNCHANGED vars
  BY <1>13, Untouched DEF vars, table
<1> QED
  BY <1>1, <1>2, <1>3, <1>4, <1>5, <1>6, <1>7, <1>8, <1>9, <1>10, <1>11, <1>12, <1>13 DEF Next

-----------------------------------------------------------------------------
(* What Go has let go of is let go of: the counts of the Go shim.          *)

\* A bigint has no type flag, hence no finalizer (NothingLeaks exempts it).
BigintAt(id) == values[id] \in Values /\ Kind[values[id]] = "bigint"

InPool(id) == \E i \in 1..Len(pool) : pool[i] = id

\* The count of an id is its number of holders, and one without any is free.
Exact(id) == counts[id] = Cardinality(Holders(id)) /\ (counts[id] = 0 => InPool(id))

Watched == \A id \in Fixed..(size - 1) : BigintAt(id) \/ Exact(id)

\* The two forms of the property.
LEMMA WatchedIs == NothingLeaks <=> (flavour = "go" => Watched)
BY DEF NothingLeaks, Watched, BigintAt, Exact, InPool

\* An id about which nothing changes.
LEMMA StaysExact ==
  ASSUME NEW id, BigintAt(id) \/ Exact(id), values'[id] = values[id], counts'[id] = counts[id],
         Holders(id)' = Holders(id), InPool(id) => InPool(id)'
  PROVE  (BigintAt(id) \/ Exact(id))'
BY DEF BigintAt, Exact

\* Steps that leave the table and the references alone.
LEMMA WatchedUntouched == Watched /\ UNCHANGED table => Watched'
BY DEF Watched, BigintAt, Exact, InPool, Holders, table

\* A fixed value is not counted.
LEMMA StoreDirectWatched ==
  ASSUME IInv, Watched, NEW v, NEW s \in Slots, NEW temp \in BOOLEAN, StoreDirect(v, s, temp)
  PROVE  Watched'
<1>1. FixedId(v) \in 0..(Fixed - 1)
  BY FixedFacts DEF StoreDirect, Direct, GoDirect, TinyDirect, FixedKeys
<1>2. UNCHANGED <<size, values, counts, pool>> /\ Hold(s, v, FixedId(v), temp)
  BY DEF StoreDirect
<1>3. ASSUME NEW id \in Fixed..(size - 1) PROVE (BigintAt(id) \/ Exact(id))'
  <2>1. id \in Int /\ id # FixedId(v) /\ id # None /\ FixedId(v) # None /\ FixedId(v) \in Int
    BY <1>1 DEF Fixed, None
  <2>2. Holders(id)' = Holders(id)
    BY <1>2, <2>1, HoldersGrow DEF IInv
  <2>3. InPool(id) => InPool(id)'
    BY <1>2 DEF InPool
  <2>4. BigintAt(id) \/ Exact(id)
    BY DEF Watched
  <2> QED
    BY <1>2, <2>2, <2>3, <2>4, StaysExact
<1> QED
  BY <1>2, <1>3 DEF Watched

\* A value that has an id: one more reference, one more count.
LEMMA StoreKnownWatched ==
  ASSUME IInv, Watched, NEW v, NEW s \in Slots, NEW temp \in BOOLEAN, StoreKnown(v, s, temp)
  PROVE  Watched'
<1> DEFINE i == ids[v]
<1>1. /\ UNCHANGED <<size, values, pool>> /\ Hold(s, v, i, temp) /\ i # None /\ i \in Int
      /\ counts' = [id \in Fixed..(size - 1) |-> IF id = i THEN counts[id] + 1 ELSE counts[id]]
  BY DEF StoreKnown, Lookup, IInv, TypeOK
<1> HIDE DEF i
<1>2. ASSUME NEW id \in Fixed..(size - 1) PROVE (BigintAt(id) \/ Exact(id))'
  <2>1. id \in Int /\ id # None /\ counts[id] \in Nat
    BY DEF Fixed, None, IInv, TypeOK
  <2>2. BigintAt(id) \/ Exact(id)
    BY DEF Watched
  <2>3. CASE id = i
    <3>1. Cardinality(Holders(id)') = Cardinality(Holders(id)) + 1
      BY <1>1, <2>1, <2>3, HoldersGrow DEF IInv
    <3>2. counts'[id] = counts[id] + 1 /\ values'[id] = values[id]
      BY <1>1, <2>3
    <3> QED
      BY <2>1, <2>2, <3>1, <3>2, HoldersFinite DEF BigintAt, Exact
  <2>4. CASE id # i
    <3>1. Holders(id)' = Holders(id)
      BY <1>1, <2>1, <2>4, HoldersGrow DEF IInv
    <3>2. counts'[id] = counts[id] /\ values'[id] = values[id] /\ (InPool(id) => InPool(id)')
      BY <1>1, <2>4 DEF InPool
    <3> QED
      BY <2>2, <3>1, <3>2, StaysExact
  <2> QED
    BY <2>3, <2>4
<1> QED
  BY <1>1, <1>2 DEF Watched

\* An id that nobody holds, and its first holder.
LEMMA FirstHolder ==
  ASSUME IInv, NEW v, NEW s \in Slots, NEW temp, NEW i \in Int, i # None,
         Hold(s, v, i, temp), \A t \in Slots : held[t].id # i, counts'[i] = 1
  PROVE  Exact(i)'
<1>1. Holders(i) = {}
  BY DEF Holders
<1>2. Cardinality(Holders(i)) = 0
  BY <1>1, FS_EmptySet
<1>3. Cardinality(Holders(i)') = Cardinality(Holders(i)) + 1
  BY HoldersGrow DEF IInv
<1> QED
  BY <1>2, <1>3 DEF Exact

\* An id out of the pool.
LEMMA StorePooledWatched ==
  ASSUME IInv, Watched, NEW v, NEW s \in Slots, NEW temp \in BOOLEAN, StorePooled(v, s, temp)
  PROVE  Watched'
<1> DEFINE i == pool[Len(pool)]
<1>1. pool # <<>> /\ pool \in Seq(Nat) /\ Len(pool) \in Nat /\ Len(pool) \in 1..Len(pool)
  BY EmptySeq, LenProperties DEF StorePooled, IInv, TypeOK
<1>2. i \in Fixed..(size - 1) /\ counts[i] = 0
  BY <1>1 DEF IInv, PoolIsFree
<1>3. /\ values' = [values EXCEPT ![i] = v] /\ counts' = [counts EXCEPT ![i] = 1]
      /\ Hold(s, v, i, temp) /\ size' = size /\ pool' = SubSeq(pool, 1, Len(pool) - 1)
  BY DEF StorePooled
<1>4. Len(pool') = Len(pool) - 1 /\ \A j \in 1..(Len(pool) - 1) : pool'[j] = pool[j]
  BY <1>1, <1>3, PopId
<1>5. \A id \in Fixed..(size - 1) : id # i /\ InPool(id) => InPool(id)'
  <2> SUFFICES ASSUME NEW id, id # i, NEW j \in 1..Len(pool), pool[j] = id PROVE InPool(id)'
    BY DEF InPool
  <2>1. j \in 1..(Len(pool) - 1)
    BY <1>1
  <2> QED
    BY <1>4, <2>1 DEF InPool
<1> HIDE DEF i
<1>6. ASSUME NEW id \in Fixed..(size - 1) PROVE (BigintAt(id) \/ Exact(id))'
  <2>1. id \in Int /\ id # None /\ i \in Int /\ i # None
    BY <1>2 DEF Fixed, None
  <2>2. CASE id = i
    <3>1. \A t \in Slots : held[t].id # i
      BY <1>2, FewHolders DEF IInv
    <3>2. counts'[i] = 1
      BY <1>2, <1>3 DEF IInv, TypeOK
    <3> QED
      BY <1>3, <2>1, <2>2, <3>1, <3>2, FirstHolder
  <2>3. CASE id # i
    <3>1. Holders(id)' = Holders(id)
      BY <1>3, <2>1, <2>3, HoldersGrow DEF IInv
    <3>2. counts'[id] = counts[id] /\ values'[id] = values[id]
      BY <1>3, <2>3 DEF IInv, TypeOK, TableIds, Fixed
    <3>3. BigintAt(id) \/ Exact(id)
      BY DEF Watched
    <3> QED
      BY <1>5, <2>3, <3>1, <3>2, <3>3, StaysExact
  <2> QED
    BY <2>2, <2>3
<1> QED
  BY <1>3, <1>6 DEF Watched

\* A new id at the end.
LEMMA StoreNewWatched ==
  ASSUME IInv, Watched, NEW v, NEW s \in Slots, NEW temp \in BOOLEAN, StoreNew(v, s, temp)
  PROVE  Watched'
<1>1. size \in Nat /\ size >= Fixed /\ size \in Int /\ size # None
  BY DEF IInv, TypeOK, Fixed, None
<1>2. /\ size' = size + 1 /\ Hold(s, v, size, temp) /\ UNCHANGED pool
      /\ values' = [i \in 0..size |-> IF i = size THEN v ELSE values[i]]
      /\ counts' = [i \in Fixed..size |-> IF i = size THEN 1 ELSE counts[i]]
  BY DEF StoreNew
<1>3. ASSUME NEW id \in Fixed..size PROVE (BigintAt(id) \/ Exact(id))'
  <2>1. id \in Int /\ id # None /\ id \in 0..size
    BY <1>1 DEF Fixed, None
  <2>2. CASE id = size
    <3>1. \A t \in Slots : held[t].id # size
      BY <1>1, IInvDenotes DEF RefDenotes, TableIds
    <3>2. counts'[size] = 1
      BY <1>2, <2>2
    <3> QED
      BY <1>1, <1>2, <2>2, <3>1, <3>2, FirstHolder
  <2>3. CASE id # size
    <3>0. id \in Fixed..(size - 1)
      BY <1>1, <2>3
    <3>1. Holders(id)' = Holders(id)
      BY <1>1, <1>2, <2>1, <2>3, HoldersGrow DEF IInv
    <3>2. counts'[id] = counts[id] /\ values'[id] = values[id] /\ (InPool(id) => InPool(id)')
      BY <1>2, <2>1, <2>3 DEF InPool
    <3>3. BigintAt(id) \/ Exact(id)
      BY <3>0 DEF Watched
    <3> QED
      BY <3>1, <3>2, <3>3, StaysExact
  <2> QED
    BY <2>2, <2>3
<1>4. size' - 1 = size
  BY <1>1, <1>2
<1> QED
  BY <1>3, <1>4 DEF Watched

\* finalizeRef: the id goes into the pool with its last reference.
LEMMA FinalizeWatched ==
  ASSUME IInv, IInv', Watched, NEW s \in Slots, held[s].id # None,
         FinalizeRef(held[s].id), held' = [held EXCEPT ![s] = NoRef]
  PROVE  Watched'
<1>0. held[s].id \in Int
  BY DEF IInv, TypeOK, Refs
<1>i. PICK i \in Int : i = held[s].id
  BY <1>0
<1>1. size' = size /\ i \in TableIds /\ i # None /\ FinalizeRef(i) /\ TableIds = 0..(size - 1)
  BY <1>i, IInvDenotes DEF RefDenotes, IInv, FinalizeRef, TableIds
<1>2. ASSUME NEW id \in Fixed..(size - 1), id # i PROVE (BigintAt(id) \/ Exact(id))'
  <2>1. id \in Int /\ id # None
    BY DEF Fixed, None
  <2>2. Holders(id)' = Holders(id)
    BY <1>2, <1>i, <2>1, HoldersShrink DEF IInv
  <2>3. counts'[id] = counts[id] /\ values'[id] = values[id]
    <3>1. counts' = counts \/ counts' = [counts EXCEPT ![i] = @ - 1]
      BY <1>1 DEF FinalizeRef
    <3>2. values' = values \/ values' = [values EXCEPT ![i] = Null]
      BY <1>1 DEF FinalizeRef
    <3>3. counts'[id] = counts[id]
      BY <1>2, <3>1 DEF IInv, TypeOK
    <3>4. id \in TableIds
      BY <1>1 DEF Fixed
    <3> QED
      BY <1>2, <3>2, <3>3, <3>4 DEF IInv, TypeOK
  <2>4. InPool(id) => InPool(id)'
    <3>1. pool \in Seq(Nat) /\ (pool' = pool \/ pool' = Append(pool, i))
      BY <1>1 DEF FinalizeRef, IInv, TypeOK
    <3>2. /\ \A j \in 1..Len(pool) : pool'[j] = pool[j]
          /\ 1..Len(pool) \subseteq 1..Len(pool')
      <4>1. CASE pool' = pool
        BY <4>1
      <4>2. CASE pool' = Append(pool, i)
        <5>1. Len(pool') = Len(pool) + 1 /\ Len(pool) \in Nat
              /\ \A j \in 1..Len(pool) : pool'[j] = pool[j]
          BY <3>1, <4>2, AppendProperties, LenProperties
        <5> QED
          BY <5>1
      <4> QED
        BY <3>1, <4>1, <4>2
    <3> QED
      BY <3>2 DEF InPool
  <2>5. BigintAt(id) \/ Exact(id)
    BY DEF Watched
  <2> QED
    BY <2>2, <2>3, <2>4, <2>5, StaysExact
<1>3. ASSUME i \in Fixed..(size - 1) PROVE (BigintAt(i) \/ Exact(i))'
  <2>1. counts[i] \in Nat /\ counts[i] >= 1 /\ ~(i < Fixed)
    BY <1>3, <1>i, HeldCounted DEF IInv, TypeOK, Fixed
  <2>2. counts'[i] = counts[i] - 1
    BY <1>1, <1>3, <2>1 DEF FinalizeRef, IInv, TypeOK
  <2>3. Cardinality(Holders(i)') = Cardinality(Holders(i)) - 1
    BY <1>1, <1>i, HoldersShrink DEF IInv
  <2>4. CASE counts[i] # 1
    <3>1. values'[i] = values[i]
      BY <1>1, <2>1, <2>4 DEF FinalizeRef
    <3>2. counts'[i] # 0
      BY <2>1, <2>2, <2>4
    <3>3. BigintAt(i) \/ Exact(i)
      BY <1>3 DEF Watched
    <3> QED
      BY <2>1, <2>2, <2>3, <3>1, <3>2, <3>3, HoldersFinite DEF BigintAt, Exact
  <2>5. CASE counts[i] = 1
    <3>1. pool' = Append(pool, i) /\ pool \in Seq(Nat)
      BY <1>1, <2>1, <2>5 DEF FinalizeRef, IInv, TypeOK
    <3>2. Len(pool') = Len(pool) + 1 /\ pool'[Len(pool) + 1] = i /\ Len(pool) \in Nat
      BY <3>1, AppendProperties, LenProperties
    <3>3. Len(pool) + 1 \in 1..Len(pool')
      BY <3>2
    <3>4. InPool(i)'
      BY <3>2, <3>3 DEF InPool
    <3>5. counts'[i] = 0
      BY <2>2, <2>5
    <3>6. Cardinality(Holders(i)') <= counts'[i]
      BY <1>1, <1>3 DEF IInv, Counted
    <3>7. Cardinality(Holders(i)') \in Nat
      <4>1. Holders(i)' \subseteq Slots
        BY DEF Holders
      <4> QED
        BY <4>1, FS_Subset, FS_CardinalityType, SlotsAssumption
    <3> QED
      BY <3>4, <3>5, <3>6, <3>7 DEF Exact
  <2> QED
    BY <2>4, <2>5
<1> QED
  BY <1>1, <1>2, <1>3 DEF Watched

\* What the Go shim gives no finalizer has no count of its own, or is a bigint.
LEMMA ForgetWatched ==
  ASSUME IInv, Watched, flavour = "go", NEW s \in Slots, Forget(s)
  PROVE  Watched'
<1> DEFINE i == held[s].id
           v == held[s].val
<1>1. /\ i # None /\ i \in Int /\ UNCHANGED <<size, values, counts, pool>>
      /\ held' = [held EXCEPT ![s] = NoRef] /\ GoTypeFlag(v) = 0
  BY DEF Forget, Droppable, Finalizable, IInv, TypeOK, Refs
<1>2. ASSUME i \in Fixed..(size - 1) PROVE BigintAt(i)
  <2>1. values[i] = v
    BY <1>1, IInvDenotes DEF RefDenotes
  <2>2. i \in Nat /\ i >= 7
    BY <1>2 DEF Fixed
  <2>3. v \notin Direct
    <3> SUFFICES ASSUME v \in Direct PROVE FALSE
      OBVIOUS
    <3>1. i = FixedId(v) /\ v = "NaN"
      BY <1>1 DEF IInv, HeldKnown, Direct, GoDirect
    <3> QED
      BY <2>2, <3>1, FixedFacts DEF Fixed
  <2>4. v \in Keys /\ ids[v] = i
    BY <1>1, <2>3 DEF IInv, HeldKnown
  <2>5. v \notin FixedKeys
    <3> SUFFICES ASSUME v \in FixedKeys PROVE FALSE
      OBVIOUS
    <3>1. i = FixedId(v)
      BY <2>4 DEF IInv, FixedIds
    <3> QED
      BY <2>2, <3>1, FixedFacts DEF Fixed
  <2>6. v \in Values /\ Kind[v] \in Kinds
    BY <2>4, <2>5, ValuesAssumption DEF Keys
  <2>7. v \notin {"global", "this"}
    BY <2>5 DEF FixedKeys
  <2>8. Kind[v] = "bigint"
    BY <1>1, <2>6, <2>7 DEF GoTypeFlag, Kinds
  <2> QED
    BY <2>1, <2>6, <2>8 DEF BigintAt
<1>3. ASSUME NEW id \in Fixed..(size - 1) PROVE (BigintAt(id) \/ Exact(id))'
  <2>1. CASE id = i
    BY <1>1, <1>2, <1>3, <2>1 DEF BigintAt
  <2>2. CASE id # i
    <3>1. id \in Int /\ id # None
      BY DEF Fixed, None
    <3>2. Holders(id)' = Holders(id)
      BY <1>1, <2>2, <3>1, HoldersShrink DEF IInv
    <3>3. InPool(id) => InPool(id)'
      BY <1>1 DEF InPool
    <3>4. BigintAt(id) \/ Exact(id)
      BY DEF Watched
    <3> QED
      BY <1>1, <3>2, <3>3, <3>4, StaysExact
  <2> QED
    BY <2>1, <2>2
<1> QED
  BY <1>1, <1>3 DEF Watched

\* Every step of the Go shim keeps the counts exact.
LEMMA NextWatched ==
  ASSUME IInv, IInv', NothingLeaks, [Next]_vars
  PROVE  NothingLeaks'
<1>0. flavour' = flavour
  BY DEF Next, vars, Call, Load, Reenter, JsReturns, JsThrows, GetSp, Store, Write, Return,
         Finalize, Forget, MoveStack
<1> SUFFICES ASSUME flavour = "go", Watched PROVE Watched'
  BY <1>0, WatchedIs DEF NothingLeaks, Watched, BigintAt, Exact, InPool
<1>1. CASE UNCHANGED table
  BY <1>1, WatchedUntouched
<1>2. ASSUME NEW v \in Results, NEW s \in Slots, Store(v, s) PROVE Watched'
  <2> DEFINE temp == Top.returns = "bytes"
  <2>1. StoreValue(v, s, temp) /\ temp \in BOOLEAN
    BY <1>2 DEF Store
  <2> HIDE DEF temp
  <2>2. CASE StoreInline(v, s)
    BY <1>1, <2>2 DEF StoreInline
  <2> QED
    BY <2>1, <2>2, StoreDirectWatched, StoreKnownWatched, StorePooledWatched, StoreNewWatched
       DEF StoreValue
<1>3. ASSUME NEW s \in Slots, Finalize(s) PROVE Watched'
  <2>1. /\ held[s].id # None /\ FinalizeRef(held[s].id)
        /\ held' = [held EXCEPT ![s] = NoRef]
    BY <1>3 DEF Finalize, Droppable
  <2> QED
    BY <2>1, FinalizeWatched
<1>4. ASSUME NEW s \in Slots, Forget(s) PROVE Watched'
  BY <1>4, ForgetWatched
<1>5. (\/ \E op \in Ops, s \in Slots : Call(op, s)
       \/ Load \/ Reenter \/ JsReturns \/ JsThrows \/ GetSp \/ Write \/ Return \/ MoveStack
       \/ UNCHANGED vars) => UNCHANGED table
  BY DEF Call, Load, Reenter, JsReturns, JsThrows, GetSp, Write, Return, MoveStack, vars, table
<1> QED
  BY <1>1, <1>2, <1>3, <1>4, <1>5 DEF Next

-----------------------------------------------------------------------------
(* The frames of the imports in progress, when no getter calls Go.         *)

\* What can be left of an import of the Go shim, and of either shim.
GoSteps ==
  {<<>>, <<"store">>, <<"getsp", "store">>, <<"get", "getsp", "store">>,
   <<"get">>, <<"get", "store">>, <<"apply", "getsp", "store">>,
   <<"load", "apply", "getsp", "store">>, <<"get", "load", "apply", "getsp", "store">>,
   <<"write">>, <<"get", "write">>}
TinySteps == {<<"apply", "store">>, <<"get", "apply", "store">>}
Steps == GoSteps \cup TinySteps

Frames == [steps : Steps, returns : {"string", "bytes", "any"}, sp : Nat,
           entered : BOOLEAN, arg : Slots]

\* Go runs above an import only where it applies a function, and an import of
\* the Go shim whose frame has moved asks for it before anything else.
Sound(c) ==
  /\ flavour = "go" => c.steps \in GoSteps
  /\ c.entered => c.steps # <<>> /\ Head(c.steps) = "apply"
  /\ c.sp # sp => /\ flavour = "go"
                  /\ c.entered \/ (c.steps # <<>> /\ Head(c.steps) = "getsp")

StackInv ==
  /\ calls \in Seq(Frames) /\ sp \in Nat
  /\ \A i \in 1..Len(calls) : Sound(calls[i])
  /\ \A i \in 1..(Len(calls) - 1) : calls[i].entered
  /\ SpIsCurrent

\* A single step leaves none.
LEMMA TailOfOne == ASSUME NEW x PROVE Tail(<<x>>) = <<>>
<1>1. <<x>> \in Seq({x}) /\ Len(<<x>>) = 1
  OBVIOUS
<1> QED
  BY <1>1, HeadTailProperties, EmptySeq

\* One step on.
LEMMA StepsOn ==
  ASSUME NEW p \in Steps, p # <<>>
  PROVE  /\ Tail(p) \in Steps /\ (p \in GoSteps => Tail(p) \in GoSteps)
         /\ p \in GoSteps /\ Head(p) = "apply" => Tail(p) # <<>> /\ Head(Tail(p)) = "getsp"
<1>1. CASE p \in {<<"store">>, <<"get">>, <<"write">>}
  <2>1. Tail(p) = <<>> /\ Head(p) # "apply"
    <3>1. CASE p = <<"store">>
      BY <3>1, TailOfOne
    <3>2. CASE p = <<"get">>
      BY <3>2, TailOfOne
    <3>3. CASE p = <<"write">>
      BY <3>3, TailOfOne
    <3> QED
      BY <1>1, <3>1, <3>2, <3>3
  <2> QED
    BY <2>1 DEF GoSteps, Steps
<1>2. CASE p \in {<<"getsp", "store">>, <<"get", "store">>, <<"get", "write">>}
  <2>1. Tail(p) \in {<<"store">>, <<"write">>} /\ Head(p) # "apply"
    <3>1. CASE p = <<"getsp", "store">>
      BY <3>1
    <3>2. CASE p = <<"get", "store">>
      BY <3>2
    <3>3. CASE p = <<"get", "write">>
      BY <3>3
    <3> QED
      BY <1>2, <3>1, <3>2, <3>3
  <2> QED
    BY <2>1 DEF GoSteps, Steps
<1>3. CASE p = <<"get", "getsp", "store">>
  BY <1>3 DEF GoSteps, Steps
<1>4. CASE p = <<"apply", "getsp", "store">>
  BY <1>4 DEF GoSteps, Steps
<1>5. CASE p = <<"load", "apply", "getsp", "store">>
  BY <1>5 DEF GoSteps, Steps
<1>6. CASE p = <<"get", "load", "apply", "getsp", "store">>
  BY <1>6 DEF GoSteps, Steps
<1>7. CASE p = <<"apply", "store">>
  BY <1>7 DEF GoSteps, Steps
<1>8. CASE p = <<"get", "apply", "store">>
  <2>1. Tail(p) = <<"apply", "store">> /\ Head(p) = "get"
    BY <1>8
  <2>2. p \notin GoSteps
    BY <1>8 DEF GoSteps
  <2> QED
    BY <2>1, <2>2 DEF TinySteps, Steps
<1> QED
  BY <1>1, <1>2, <1>3, <1>4, <1>5, <1>6, <1>7, <1>8 DEF GoSteps, TinySteps, Steps

\* Every import begins with known steps.
LEMMA ImportSteps ==
  ASSUME NEW op \in Ops
  PROVE  Imports[op] \in Steps /\ (flavour = "go" => Imports[op] \in GoSteps)
<1>1. op \in {"stringVal", "valueGet", "valueSet", "valueDelete", "valueIndex",
              "valueSetIndex", "valueCall", "valueInvoke", "valueNew", "valueLength",
              "valuePrepareString", "valueLoadString", "valueInstanceOf",
              "copyBytesToGo", "copyBytesToJS"}
  BY DEF Ops, GoImports
<1>2. GoImports[op] \in GoSteps
  BY <1>1 DEF GoImports, GoInvoke, GoSteps
<1>3. TinyImports[op] \in Steps
  BY <1>1 DEF TinyImports, GoSteps, TinySteps, Steps
<1> QED
  BY <1>2, <1>3 DEF Imports, Steps

\* The innermost import.
LEMMA TopFrame ==
  ASSUME StackInv, Busy
  PROVE  Top \in Frames /\ Sound(Top) /\ Len(calls) \in 1..Len(calls)
<1>1. Len(calls) \in Nat /\ Len(calls) # 0
  BY EmptySeq, LenProperties DEF StackInv, Busy
<1>2. Len(calls) \in 1..Len(calls)
  BY <1>1
<1>3. calls[Len(calls)] \in Frames
  BY <1>2, ElementOfSeq DEF StackInv
<1> QED
  BY <1>2, <1>3 DEF Top, StackInv

\* It moves on: the others keep their frames.
LEMMA TopAdvances ==
  ASSUME StackInv, Busy, NEW c, c \in Frames, calls' = Advance(c), UNCHANGED <<flavour, sp>>,
         SpIsCurrent', Sound(c)
  PROVE  StackInv'
<1>1. Len(calls) \in 1..Len(calls) /\ Len(calls) \in Nat /\ calls \in Seq(Frames)
  BY TopFrame, LenProperties DEF StackInv
<1>2. calls' \in Seq(Frames) /\ Len(calls') = Len(calls)
  BY <1>1, ExceptSeq DEF Advance
<1>3. /\ calls'[Len(calls)] = c
      /\ \A i \in 1..Len(calls) : i # Len(calls) => calls'[i] = calls[i]
  BY <1>1, ExceptSeq DEF Advance
<1>4. \A i \in 1..Len(calls') : Sound(calls'[i])
  BY <1>2, <1>3 DEF StackInv
<1>5. \A i \in 1..Len(calls') : Sound(calls[i])'
  BY <1>4 DEF Sound
<1>6. \A i \in 1..(Len(calls') - 1) : calls'[i].entered
  <2> SUFFICES ASSUME NEW i \in 1..(Len(calls) - 1) PROVE calls'[i].entered
    BY <1>2
  <2>1. i \in 1..Len(calls) /\ i # Len(calls)
    BY <1>1
  <2> QED
    BY <1>3, <2>1 DEF StackInv
<1> QED
  BY <1>2, <1>5, <1>6 DEF StackInv

\* It returns: Go goes on above the one that had applied a function.
LEMMA TopReturns ==
  ASSUME StackInv, Busy, calls' = FrontCalls, UNCHANGED <<flavour, sp>>, SpIsCurrent'
  PROVE  StackInv'
<1>1. Len(calls) \in Nat /\ calls \in Seq(Frames) /\ calls # <<>>
  BY LenProperties DEF StackInv, Busy
<1>2. /\ calls' \in Seq(Frames) /\ Len(calls') = Len(calls) - 1
      /\ \A i \in 1..(Len(calls) - 1) : calls'[i] = calls[i]
  BY <1>1, PopId DEF FrontCalls
<1>3. \A i \in 1..Len(calls') : i \in 1..Len(calls) /\ i \in 1..(Len(calls) - 1)
  BY <1>1, <1>2
<1>4. \A i \in 1..(Len(calls') - 1) : i \in 1..Len(calls') /\ i \in 1..(Len(calls) - 1)
  BY <1>1, <1>2
<1>5. \A i \in 1..Len(calls') : Sound(calls[i])'
  BY <1>2, <1>3 DEF StackInv, Sound
<1>6. \A i \in 1..(Len(calls') - 1) : calls'[i].entered
  BY <1>2, <1>4 DEF StackInv
<1> QED
  BY <1>2, <1>5, <1>6 DEF StackInv

\* A step that is neither a call nor a request for the stack finds it in place.
LEMMA InPlace ==
  ASSUME StackInv, NEW step \in {"load", "store", "write", "get"}, Due(step)
  PROVE  ~Top.entered /\ Top.sp = sp
BY TopFrame DEF Due, Sound

\* Every step keeps the frames in order.
LEMMA NextStack ==
  ASSUME StackInv, [Next]_vars, ~GettersReenter
  PROVE  StackInv'
<1>c. calls \in Seq(Frames) /\ Len(calls) \in Nat /\ sp \in Nat
  BY LenProperties DEF StackInv
<1>1. ASSUME NEW op \in Ops, NEW s \in Slots, Call(op, s) PROVE StackInv'
  <2> DEFINE c == [steps |-> Imports[op], returns |-> Returns(op),
                   sp |-> sp, entered |-> FALSE, arg |-> s]
  <2>1. GoRuns /\ calls' = Append(calls, c) /\ UNCHANGED <<flavour, sp, stale>>
    BY <1>1 DEF Call
  <2>2. c \in Frames /\ Sound(c)
    BY <1>c, ImportSteps DEF Frames, Returns, Sound
  <2> HIDE DEF c
  <2>3. /\ calls' \in Seq(Frames) /\ Len(calls') = Len(calls) + 1
        /\ \A i \in 1..Len(calls) : calls'[i] = calls[i]
        /\ calls'[Len(calls) + 1] = c
    BY <1>c, <2>1, <2>2, AppendProperties
  <2>4. \A i \in 1..Len(calls') : i \in 1..Len(calls) \/ i = Len(calls) + 1
    BY <1>c, <2>3
  <2>5. \A i \in 1..Len(calls') : Sound(calls[i])'
    BY <2>1, <2>2, <2>3, <2>4 DEF StackInv, Sound
  <2>6. \A i \in 1..Len(calls) : calls[i].entered
    <3> SUFFICES ASSUME NEW i \in 1..Len(calls) PROVE calls[i].entered
      OBVIOUS
    <3>1. i \in 1..(Len(calls) - 1) \/ i = Len(calls)
      BY <1>c
    <3>2. calls # <<>>
      BY <1>c, EmptySeq
    <3> QED
      BY <2>1, <3>1, <3>2 DEF StackInv, GoRuns, Busy, Top
  <2>7. Len(calls') - 1 = Len(calls)
    BY <1>c, <2>3
  <2> QED
    BY <1>c, <2>1, <2>3, <2>5, <2>6, <2>7 DEF StackInv, SpIsCurrent
<1>2. CASE Load
  <2>1. Due("load") /\ Busy /\ calls' = NextStep /\ Touch /\ UNCHANGED <<flavour, sp>>
    BY <1>2 DEF Load, Due
  <2>2. Top \in Frames /\ Sound(Top) /\ ~Top.entered /\ Top.sp = sp
    BY <2>1, TopFrame, InPlace
  <2> DEFINE c == [Top EXCEPT !.steps = Tail(@), !.entered = FALSE]
  <2>3. c \in Frames /\ Sound(c)
    BY <2>1, <2>2, StepsOn DEF Frames, Sound, Due
  <2>4. SpIsCurrent'
    BY <2>1, <2>2 DEF Touch, SpIsCurrent, StackInv
  <2> QED
    BY <2>1, <2>3, <2>4, TopAdvances DEF NextStep
<1>3. CASE Reenter
  <2>1. /\ Due("apply") /\ Busy /\ Top.steps # <<>> /\ Head(Top.steps) = "apply"
        /\ calls' = Advance([Top EXCEPT !.entered = TRUE])
        /\ UNCHANGED <<flavour, sp, stale>>
    BY <1>3 DEF Reenter, Due
  <2>2. Top \in Frames /\ Sound(Top)
    BY <2>1, TopFrame
  <2> DEFINE c == [Top EXCEPT !.entered = TRUE]
  <2>3. c \in Frames /\ Sound(c)
    BY <2>1, <2>2 DEF Frames, Sound
  <2> QED
    BY <2>1, <2>3, TopAdvances DEF StackInv, SpIsCurrent
<1>4. CASE JsReturns
  <2>1. /\ Due("get") \/ Due("apply")
        /\ Busy /\ calls' = NextStep /\ UNCHANGED <<flavour, sp, stale>>
    BY <1>4 DEF JsReturns, Due
  <2>2. Top \in Frames /\ Sound(Top)
    BY <2>1, TopFrame
  <2> DEFINE c == [Top EXCEPT !.steps = Tail(@), !.entered = FALSE]
  <2>3. c \in Frames /\ Sound(c)
    <3>1. CASE Due("get")
      BY <2>2, <3>1, StepsOn, InPlace DEF Frames, Sound, Due
    <3>2. CASE Due("apply")
      BY <2>2, <3>2, StepsOn DEF Frames, Sound, Due
    <3> QED
      BY <2>1, <3>1, <3>2
  <2> QED
    BY <2>1, <2>3, TopAdvances DEF NextStep, StackInv, SpIsCurrent
<1>5. CASE JsThrows
  <2> DEFINE handler == IF flavour = "go" THEN <<"getsp", "store">> ELSE <<"store">>
             c == [Top EXCEPT !.steps = handler, !.entered = FALSE]
  <2>1. Busy /\ calls' = Advance(c) /\ UNCHANGED <<flavour, sp, stale>>
    BY <1>5 DEF JsThrows, Due
  <2>2. Top \in Frames /\ Sound(Top)
    BY <2>1, TopFrame
  <2>3. handler \in Steps /\ (flavour = "go" => /\ handler \in GoSteps /\ handler # <<>>
                                                /\ Head(handler) = "getsp")
    BY DEF Steps, GoSteps
  <2> HIDE DEF handler
  <2>4. c \in Frames /\ Sound(c)
    BY <2>2, <2>3 DEF Frames, Sound
  <2> QED
    BY <2>1, <2>4, TopAdvances DEF StackInv, SpIsCurrent
<1>6. CASE GetSp
  <2>1. /\ Busy /\ Top.steps # <<>> /\ Head(Top.steps) = "getsp"
        /\ calls' = Advance([Top EXCEPT !.steps = Tail(@), !.sp = sp])
        /\ UNCHANGED <<flavour, sp, stale>>
    BY <1>6 DEF GetSp, Due
  <2>2. Top \in Frames /\ Sound(Top) /\ ~Top.entered
    BY <2>1, TopFrame DEF Sound
  <2> DEFINE c == [Top EXCEPT !.steps = Tail(@), !.sp = sp]
  <2>3. c \in Frames /\ Sound(c)
    BY <1>c, <2>1, <2>2, StepsOn DEF Frames, Sound
  <2> QED
    BY <2>1, <2>3, TopAdvances DEF StackInv, SpIsCurrent
<1>7. ASSUME NEW v \in Results, NEW s \in Slots, Store(v, s) PROVE StackInv'
  <2>1. Due("store") /\ Busy /\ calls' = FrontCalls /\ Touch /\ UNCHANGED <<flavour, sp>>
    BY <1>7 DEF Store, Due
  <2>2. Top.sp = sp
    BY <2>1, InPlace
  <2> QED
    BY <2>1, <2>2, TopReturns DEF Touch, SpIsCurrent, StackInv
<1>8. CASE Write
  <2>1. Due("write") /\ Busy /\ calls' = FrontCalls /\ Touch /\ UNCHANGED <<flavour, sp>>
    BY <1>8 DEF Write, Due
  <2>2. Top.sp = sp
    BY <2>1, InPlace
  <2> QED
    BY <2>1, <2>2, TopReturns DEF Touch, SpIsCurrent, StackInv
<1>9. CASE Return
  BY <1>9, TopReturns DEF Return, SpIsCurrent, StackInv
<1>10. CASE MoveStack
  <2>1. /\ GoRuns /\ flavour = "go" /\ sp' = sp + 1
        /\ UNCHANGED <<flavour, calls, stale>>
    BY <1>10 DEF MoveStack
  <2>2. \A i \in 1..Len(calls) : calls[i].entered
    <3> SUFFICES ASSUME NEW i \in 1..Len(calls) PROVE calls[i].entered
      OBVIOUS
    <3>1. i \in 1..(Len(calls) - 1) \/ i = Len(calls)
      BY <1>c
    <3>2. calls # <<>>
      BY <1>c, EmptySeq
    <3> QED
      BY <2>1, <3>1, <3>2 DEF StackInv, GoRuns, Busy, Top
  <2>3. \A i \in 1..Len(calls) : Sound(calls[i])'
    BY <2>1, <2>2 DEF StackInv, Sound
  <2> QED
    BY <1>c, <2>1, <2>3 DEF StackInv, SpIsCurrent
<1>11. UNCHANGED <<flavour, calls, sp, stale>> => StackInv'
  BY DEF StackInv, Sound, SpIsCurrent
<1>12. ASSUME NEW s \in Slots, Finalize(s) \/ Forget(s) PROVE StackInv'
  BY <1>11, <1>12 DEF Finalize, Forget
<1>13. CASE UNCHANGED vars
  BY <1>11, <1>13 DEF vars
<1> QED
  BY <1>1, <1>2, <1>3, <1>4, <1>5, <1>6, <1>7, <1>8, <1>9, <1>10, <1>12, <1>13 DEF Next

\* The tables and the stack of a program that has not begun.
LEMMA InitStack == Init => StackInv /\ NothingLeaks
<1>1. <<>> \in Seq(Frames) /\ Len(<<>>) = 0
  BY EmptySeq
<1> QED
  <2> SUFFICES ASSUME Init PROVE StackInv /\ NothingLeaks
    OBVIOUS
  <2>1. StackInv
    BY <1>1 DEF Init, StackInv, SpIsCurrent
  <2>2. Fixed..(size - 1) = {}
    BY DEF Init, Fixed
  <2> QED
    BY <2>1, <2>2 DEF NothingLeaks

\* The inductive invariant holds in every reachable state, for every number
\* of values and references.
THEOREM Invariant == Spec => []IInv
  BY InitIInv, NextIInv, PTL DEF Spec

\* The four tables keep their types: no count becomes negative.
THEOREM TypeCorrect == Spec => []TypeOK
<1>1. IInv => TypeOK
  BY DEF IInv
<1> QED
  BY <1>1, Invariant, PTL

\* No id is freed or given to another value while Go holds it
\* (storeValue, boxValue and finalizeRef).
THEOREM ReferencesDenote == Spec => []RefDenotes
  BY Invariant, IInvDenotes, PTL

\* Value.Equal compares references: it agrees with the identity of values.
THEOREM ReferencesAreIdentities == Spec => []EqualRefs
  BY Invariant, IInvEqual, PTL

\* Both together, for the tables of either shim: a reference means its value.
THEOREM ReferencesAreValues == Spec => []RefsAreValues
<1>1. IInv => RefsAreValues
  BY IInvDenotes, IInvEqual DEF RefsAreValues
<1>2. QED
  BY Invariant, <1>1, PTL

\* With no getter that calls Go: what an import returns goes to the frame of its
\* caller, wherever re-entered Go has moved it, and under the Go shim no id that
\* has a finalizer outlives its references (getsp, storeValue, finalizeRef).
THEOREM ResultsReachGo == ASSUME ~GettersReenter PROVE Spec => []ResultsArrive
<1> DEFINE All == IInv /\ NothingLeaks /\ StackInv
<1>1. Init => All
  BY InitIInv, InitStack
<1>2. All /\ [Next]_vars => All'
  BY NextIInv, NextWatched, NextStack
<1>3. All => ResultsArrive
  BY DEF ResultsArrive, StackInv
<1> QED
  BY <1>1, <1>2, <1>3, PTL DEF Spec

\* Whatever getters do, no id that has a finalizer outlives its references under
\* the Go shim (storeValue, finalizeRef).
THEOREM CountsAreExact == Spec => []NothingLeaks
<1>1. Init => IInv /\ NothingLeaks
  BY InitIInv, InitStack
<1>2. IInv /\ NothingLeaks /\ [Next]_vars => (IInv /\ NothingLeaks)'
  BY NextIInv, NextWatched
<1> QED
  BY <1>1, <1>2, PTL DEF Spec
=============================================================================

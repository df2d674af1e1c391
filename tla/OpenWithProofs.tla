---------------------------- MODULE OpenWithProofs ----------------------------
(***************************************************************************)
(* The open-with handlers for any offers, addresses, rows and patterns.    *)
(*                                                                         *)
(* Three things are taken apart: the manager's factories (StoreOK), what   *)
(* the dialog shows of them (Right) and the rest (OthersOK).               *)
(* Clients and the deletions they cause change the first under the second; *)
(* what keeps a dialog right that has not been edited is that they never   *)
(* put a factory at an address it has been loaded from.                    *)
(***************************************************************************)
EXTENDS OpenWith, SequenceTheorems, FiniteSetTheorems, TLAPS

-----------------------------------------------------------------------------
(* Sequences.                                                              *)

LEMMA SeqFacts ==
    ASSUME NEW T, NEW s \in Seq(T)
    PROVE  /\ Len(s) \in Nat /\ DOMAIN s = 1 .. Len(s)
           /\ \A i \in DOMAIN s : s[i] \in T
BY LenProperties, ElementOfSeq

LEMMA MakeSeq ==
    ASSUME NEW T, NEW n \in Nat, NEW s, s \in [1 .. n -> T]
    PROVE  s \in Seq(T) /\ Len(s) = n /\ DOMAIN s = 1 .. n
BY SeqDef

\* Among keeps the order without recursion: the n-th entry is the one that n
\* kept entries, itself among them, do not follow, and there is one.
LEMMA AmongFacts ==
    ASSUME NEW T, NEW s \in Seq(T), NEW S
    PROVE  /\ Among(s, S) \in Seq(T \cap S)
           /\ \A n \in DOMAIN Among(s, S) :
                \E i \in DOMAIN s : Among(s, S)[n] = s[i]
           /\ IsInjective(s) => IsInjective(Among(s, S))
<1> DEFINE kept    == {i \in DOMAIN s : s[i] \in S}
           upTo(i) == {k \in kept : k =< i}
           N       == Cardinality(kept)
           f       == [i \in kept |-> Cardinality(upTo(i))]
           at(n)   == CHOOSE i \in kept : Cardinality(upTo(i)) = n
<1>1. /\ DOMAIN s = 1 .. Len(s) /\ Len(s) \in Nat
      /\ kept \subseteq Int /\ IsFiniteSet(kept) /\ N \in Nat
      /\ \A i \in kept : i \in DOMAIN s /\ s[i] \in T \cap S
  <2>1. DOMAIN s = 1 .. Len(s) /\ Len(s) \in Nat
        /\ \A i \in DOMAIN s : s[i] \in T
    BY SeqFacts
  <2>2. IsFiniteSet(1 .. Len(s))
    BY <2>1, FS_Interval
  <2>3. kept \subseteq 1 .. Len(s)
    BY <2>1
  <2>4. IsFiniteSet(kept) /\ N \in Nat
    <3> HIDE DEF kept
    <3> QED BY <2>2, <2>3, FS_Subset, FS_CardinalityType
  <2> QED BY <2>1, <2>3, <2>4
<1>2. Among(s, S) = [n \in 1 .. N |-> s[at(n)]]
  BY DEF Among
<1> HIDE DEF kept
<1>3. \A i \in kept : /\ upTo(i) \subseteq kept /\ i \in upTo(i)
                      /\ IsFiniteSet(upTo(i))
                      /\ Cardinality(upTo(i)) \in 1 .. N
  <2> SUFFICES ASSUME NEW i \in kept
               PROVE  /\ upTo(i) \subseteq kept /\ i \in upTo(i)
                      /\ IsFiniteSet(upTo(i))
                      /\ Cardinality(upTo(i)) \in 1 .. N
    OBVIOUS
  <2>1. upTo(i) \subseteq kept /\ i \in upTo(i)
    BY <1>1
  <2> HIDE DEF upTo
  <2>2. /\ IsFiniteSet(upTo(i)) /\ Cardinality(upTo(i)) =< N
        /\ Cardinality(upTo(i)) \in Nat
    BY <1>1, <2>1, FS_Subset, FS_CardinalityType
  <2>3. Cardinality(upTo(i)) # 0
    BY <2>1, <2>2, FS_EmptySet
  <2> QED BY <1>1, <2>1, <2>2, <2>3
<1>4. \A i, j \in kept : f[i] = f[j] => i = j
  <2>1. ASSUME NEW i \in kept, NEW j \in kept, i < j PROVE f[i] # f[j]
    <3>1. upTo(i) \subseteq upTo(j) /\ j \notin upTo(i)
      <4>1. \A k \in kept : k \in Int
        BY <1>1
      <4>2. i \in Int /\ j \in Int
        BY <1>1
      <4>3. \A k \in Int : k =< i => k =< j
        BY <2>1, <4>2
      <4>4. ~(j =< i)
        BY <2>1, <4>2
      <4> QED BY <4>1, <4>3, <4>4
    <3>2. upTo(i) # upTo(j)
      BY <1>3, <3>1
    <3> HIDE DEF upTo
    <3>3. Cardinality(upTo(i)) # Cardinality(upTo(j))
      BY <1>3, <3>1, <3>2, FS_Subset
    <3> QED BY <3>3
  <2> HIDE DEF f
  <2>2. \A i, j \in kept : i = j \/ i < j \/ j < i
    BY <1>1
  <2> QED BY <2>1, <2>2
<1>5. \A n \in 1 .. N : \E i \in kept : Cardinality(upTo(i)) = n
  <2>1. f \in [kept -> 1 .. N]
    BY <1>3
  <2> HIDE DEF f
  <2>2. f \in Injection(kept, 1 .. N)
    BY <1>4, <2>1 DEF Injection, IsInjective
  <2>3. IsFiniteSet(1 .. N) /\ Cardinality(1 .. N) = N
    BY <1>1, FS_Interval
  <2>4. f \in Surjection(kept, 1 .. N)
    BY <2>2, <2>3, FS_Injection
  <2> QED BY <2>4 DEF Surjection, f
<1>6. \A n \in 1 .. N : at(n) \in kept /\ Cardinality(upTo(at(n))) = n
  BY <1>5
<1> HIDE DEF at, upTo, f, N
<1>7. Among(s, S) \in Seq(T \cap S) /\ DOMAIN Among(s, S) = 1 .. N
  <2>1. Among(s, S) \in [1 .. N -> T \cap S]
    BY <1>1, <1>2, <1>6
  <2> QED BY <1>1, <2>1, MakeSeq
<1>8. \A n \in 1 .. N : Among(s, S)[n] = s[at(n)] /\ at(n) \in DOMAIN s
  BY <1>1, <1>2, <1>6
<1>9. \A n, m \in 1 .. N : at(n) = at(m) => n = m
  BY <1>6
<1> QED BY <1>7, <1>8, <1>9 DEF IsInjective

LEMMA InsertFacts ==
    ASSUME NEW T, NEW s \in Seq(T), NEW i \in 1 .. Len(s) + 1, NEW e \in T
    PROVE  InsertAt(s, i, e) \in Seq(T) /\ Len(InsertAt(s, i, e)) = Len(s) + 1
<1>1. Len(s) \in Nat /\ i \in Nat /\ i - 1 \in Int
      /\ \A k \in 1 .. Len(s) : s[k] \in T
  BY LenProperties
<1>2. SubSeq(s, 1, i - 1) \in Seq(T) /\ Len(SubSeq(s, 1, i - 1)) = i - 1
  BY <1>1, SubSeqProperties
<1>3. /\ SubSeq(s, i, Len(s)) \in Seq(T)
      /\ Len(SubSeq(s, i, Len(s))) = Len(s) + 1 - i
  BY <1>1, SubSeqProperties
<1>4. <<e>> \in Seq(T) /\ Len(<<e>>) = 1
  OBVIOUS
<1>5. /\ SubSeq(s, 1, i - 1) \o <<e>> \in Seq(T)
      /\ Len(SubSeq(s, 1, i - 1) \o <<e>>) = i
  BY <1>1, <1>2, <1>4, ConcatProperties
<1>6. PICK u, v \in Seq(T) : /\ u = SubSeq(s, 1, i - 1) \o <<e>>
                             /\ v = SubSeq(s, i, Len(s))
  BY <1>3, <1>5
<1>7. u \o v \in Seq(T) /\ Len(u \o v) = Len(u) + Len(v)
  BY ConcatProperties
<1>8. InsertAt(s, i, e) = u \o v
  BY <1>6 DEF InsertAt
<1>9. Len(u) = i /\ Len(v) = Len(s) + 1 - i
  BY <1>3, <1>5, <1>6
<1>10. Len(u) + Len(v) = Len(s) + 1
  BY <1>1, <1>9
<1> QED BY <1>7, <1>8, <1>10

LEMMA RemoveFacts ==
    ASSUME NEW T, NEW s \in Seq(T), NEW i \in 1 .. Len(s)
    PROVE  RemoveAt(s, i) \in Seq(T) /\ Len(RemoveAt(s, i)) = Len(s) - 1
<1>1. Len(s) \in Nat /\ i \in Nat /\ i - 1 \in Int /\ i + 1 \in Int
      /\ \A k \in 1 .. Len(s) : s[k] \in T
  BY LenProperties
<1>2. SubSeq(s, 1, i - 1) \in Seq(T) /\ Len(SubSeq(s, 1, i - 1)) = i - 1
  BY <1>1, SubSeqProperties
<1>3. /\ SubSeq(s, i + 1, Len(s)) \in Seq(T)
      /\ Len(SubSeq(s, i + 1, Len(s))) = Len(s) - i
  BY <1>1, SubSeqProperties
<1>4. PICK u, v \in Seq(T) : /\ u = SubSeq(s, 1, i - 1)
                             /\ v = SubSeq(s, i + 1, Len(s))
  BY <1>2, <1>3
<1>5. u \o v \in Seq(T) /\ Len(u \o v) = Len(u) + Len(v)
  BY ConcatProperties
<1>6. RemoveAt(s, i) = u \o v
  BY <1>4 DEF RemoveAt
<1>7. Len(u) = i - 1 /\ Len(v) = Len(s) - i
  BY <1>2, <1>3, <1>4
<1>8. Len(u) + Len(v) = Len(s) - 1
  BY <1>1, <1>7
<1> QED BY <1>5, <1>6, <1>8

LEMMA FrontFacts ==
    ASSUME NEW T, NEW s \in Seq(T)
    PROVE  Front(s) \in Seq(T)
<1>1. Len(s) \in Nat /\ Len(s) - 1 \in Int /\ \A k \in 1 .. Len(s) - 1 : s[k] \in T
  BY LenProperties
<1> QED BY <1>1, SubSeqProperties DEF Front

LEMMA JoinFacts ==
    ASSUME NEW T, NEW s \in Seq(T), NEW t \in Seq(T)
    PROVE  /\ s \o t \in Seq(T)
           /\ DOMAIN (s \o t) = 1 .. Len(s) + Len(t)
           /\ \A n \in DOMAIN (s \o t) :
                \/ n \in DOMAIN s /\ n =< Len(s) /\ (s \o t)[n] = s[n]
                \/ /\ ~(n =< Len(s)) /\ n - Len(s) \in DOMAIN t
                   /\ (s \o t)[n] = t[n - Len(s)]
<1>1. /\ Len(s) \in Nat /\ Len(t) \in Nat
      /\ DOMAIN s = 1 .. Len(s) /\ DOMAIN t = 1 .. Len(t)
  BY SeqFacts
<1>2. PICK r \in Seq(T) : r = s \o t
  BY ConcatProperties
<1>3. /\ DOMAIN r = 1 .. Len(s) + Len(t)
      /\ \A n \in DOMAIN r :
           \/ n \in DOMAIN s /\ n =< Len(s) /\ r[n] = s[n]
           \/ ~(n =< Len(s)) /\ n - Len(s) \in DOMAIN t /\ r[n] = t[n - Len(s)]
  BY <1>1, <1>2, SeqFacts, ConcatProperties
<1> QED BY <1>2, <1>3

LEMMA JoinInjective ==
    ASSUME NEW T, NEW s \in Seq(T), NEW t \in Seq(T),
           IsInjective(s), IsInjective(t),
           \A i \in DOMAIN s, k \in DOMAIN t : s[i] # t[k]
    PROVE  IsInjective(s \o t)
<1>1. PICK r \in Seq(T) : r = s \o t
  BY JoinFacts
<1>2. /\ Len(s) \in Nat /\ DOMAIN r = 1 .. Len(s) + Len(t) /\ Len(t) \in Nat
      /\ \A n \in DOMAIN r :
           \/ n \in DOMAIN s /\ n =< Len(s) /\ r[n] = s[n]
           \/ ~(n =< Len(s)) /\ n - Len(s) \in DOMAIN t /\ r[n] = t[n - Len(s)]
  BY <1>1, JoinFacts, SeqFacts
<1>3. ASSUME NEW n \in DOMAIN r, NEW m \in DOMAIN r, r[n] = r[m]
      PROVE  n = m
  <2>1. n \in Int /\ m \in Int
    BY <1>2
  <2>2. CASE n =< Len(s) /\ m =< Len(s)
    BY <1>2, <1>3, <2>2 DEF IsInjective
  <2>3. CASE ~(n =< Len(s)) /\ ~(m =< Len(s))
    <3>1. n - Len(s) = m - Len(s)
      BY <1>2, <1>3, <2>3 DEF IsInjective
    <3> QED BY <1>2, <2>1, <3>1
  <2>4. CASE n =< Len(s) /\ ~(m =< Len(s))
    BY <1>2, <1>3, <2>4
  <2>5. CASE ~(n =< Len(s)) /\ m =< Len(s)
    BY <1>2, <1>3, <2>5
  <2> QED BY <2>2, <2>3, <2>4, <2>5
<1> QED BY <1>1, <1>3 DEF IsInjective

-----------------------------------------------------------------------------
(* The inductive invariant.                                                *)

StoreOK ==
    /\ object \in [Ids -> Factory \cup {Unused, Deleted}]
    /\ \E u \in 0 .. Cardinality(Ids) : FreeIds = u + 1 .. Cardinality(Ids)
    /\ m_factories \in Seq(Ids) /\ IsInjective(m_factories)
    /\ \A i \in DOMAIN m_factories : Live(m_factories[i])
                                     /\ m_factories[i] \notin doomed
    /\ doomed \subseteq {id \in Ids : Live(id)}
    /\ settings \in Seq(Factory)

\* A dialog d that is well-formed, and one that shows what the objects are.
Formed(d) == d \in Dialog /\ d.row =< Len(d.rows) /\ d.regexps = d.row
Same(d) == Len(d.rows) = Len(d.orig) /\
           \A i \in DOMAIN d.orig : Live(d.orig[i]) => object[d.orig[i]] = d.rows[i]
Right(d) == /\ Formed(d)
            /\ \A i \in DOMAIN d.orig : d.orig[i] \notin FreeIds
            /\ ~d.dirty => Same(d)

OthersOK ==
    /\ box \in Box
    /\ box.kind = "executable" => box.row =< Len(dlg.rows)
    /\ menu \subseteq Ids
    /\ openings \in Seq([id : Ids, timer : BOOLEAN, quit : BOOLEAN])

OInv == StoreOK /\ Right(dlg) /\ OthersOK

LEMMA Parts == OInv <=> CleanMeansSame
BY DEF OInv, StoreOK, Right, Formed, Same, OthersOK, CleanMeansSame, TypeOK

-----------------------------------------------------------------------------
(* The manager's factories.                                                *)

LEMMA Kinds == \A f \in Factory : f # Unused /\ f # Deleted
<1> SUFFICES ASSUME NEW f \in Factory PROVE f # Unused /\ f # Deleted
  OBVIOUS
<1>1. DOMAIN f = {"name", "type", "target", "patterns"}
  BY DEF Factory
<1>2. DOMAIN Unused = {"at"} /\ DOMAIN Deleted = {"at"}
  BY DEF Unused, Deleted
<1> QED BY <1>1, <1>2

LEMMA LiveFactories ==
    ASSUME StoreOK
    PROVE  /\ \A id \in Ids : Live(id) => object[id] \in Factory /\ id \notin FreeIds
           /\ \A i \in DOMAIN m_factories :
                /\ m_factories[i] \in Ids /\ Live(m_factories[i])
                /\ object[m_factories[i]] \in Factory
           /\ ValuesOf(m_factories) \in Seq(Factory)
           /\ Len(ValuesOf(m_factories)) = Len(m_factories)
           /\ DOMAIN ValuesOf(m_factories) = DOMAIN m_factories
<1>1. \A id \in Ids : Live(id) => object[id] \in Factory /\ id \notin FreeIds
  BY DEF StoreOK, Live, FreeIds
<1>2. \A i \in DOMAIN m_factories :
        /\ m_factories[i] \in Ids /\ Live(m_factories[i])
        /\ object[m_factories[i]] \in Factory
  BY <1>1, SeqFacts DEF StoreOK
<1>3. DOMAIN m_factories = 1 .. Len(m_factories) /\ Len(m_factories) \in Nat
  BY SeqFacts DEF StoreOK
<1>4. ValuesOf(m_factories) \in [1 .. Len(m_factories) -> Factory]
  BY <1>2, <1>3 DEF ValuesOf
<1> QED BY <1>1, <1>2, <1>3, <1>4, MakeSeq

LEMMA FreshIds ==
    ASSUME StoreOK, NEW n \in Nat, n =< Cardinality(FreeIds)
    PROVE  \E u \in Nat :
             /\ FreeIds = u + 1 .. Cardinality(Ids)
             /\ Fresh(n) = [i \in 1 .. n |-> u + i]
             /\ u + n =< Cardinality(Ids)
             /\ Fresh(n) \in Seq(Ids) /\ DOMAIN Fresh(n) = 1 .. n
<1>1. Cardinality(Ids) \in Nat /\ Ids = 1 .. Cardinality(Ids)
  BY OpenWithAssumption, FS_CardinalityType
<1>2. PICK N \in Nat : N = Cardinality(Ids)
  BY <1>1
<1>3. PICK u \in 0 .. N : FreeIds = u + 1 .. N
  BY <1>2 DEF StoreOK
<1>4. Cardinality(FreeIds) = N - u
  <2>1. Cardinality(u + 1 .. N) = IF u + 1 > N THEN 0 ELSE N - (u + 1) + 1
    BY FS_Interval
  <2> QED BY <1>3, <2>1
<1>5. Fresh(n) = [i \in 1 .. n |-> u + i]
  <2>1. N - (N - u) = u
    OBVIOUS
  <2> QED BY <1>2, <1>4, <2>1 DEF Fresh
<1>6. u + n =< N
  BY <1>4
<1>7. Fresh(n) \in [1 .. n -> Ids]
  BY <1>1, <1>2, <1>5, <1>6
<1> QED BY <1>2, <1>3, <1>5, <1>6, <1>7, MakeSeq

\* What is replaced leaves the list, what is new is put where nothing has been.
LEMMA ReplaceStep ==
    ASSUME StoreOK, NEW old, old \subseteq Ids, NEW new \in Seq(Factory),
           Replace(old, new), settings' = settings
    PROVE  /\ StoreOK'
           /\ \A id \in Ids \ FreeIds : object'[id] = object[id] /\ id \notin FreeIds'
<1>1. /\ Len(new) \in Nat /\ DOMAIN new = 1 .. Len(new)
      /\ \A i \in DOMAIN new : new[i] \in Factory
  BY SeqFacts
<1>2. Len(new) =< Cardinality(FreeIds)
  BY DEF Replace
<1>3. PICK u \in Nat :
        /\ FreeIds = u + 1 .. Cardinality(Ids)
        /\ Fresh(Len(new)) = [i \in 1 .. Len(new) |-> u + i]
        /\ u + Len(new) =< Cardinality(Ids)
        /\ Fresh(Len(new)) \in Seq(Ids)
        /\ DOMAIN Fresh(Len(new)) = 1 .. Len(new)
  BY <1>1, <1>2, FreshIds
<1>4. PICK ids \in Seq(Ids) : ids = Fresh(Len(new))
  BY <1>3
<1>5. /\ m_factories' = Listed(old) \o ids
      /\ object' = [id \in Ids |-> IF \E i \in DOMAIN ids : ids[i] = id
                                   THEN new[CHOOSE i \in DOMAIN ids : ids[i] = id]
                                   ELSE object[id]]
      /\ doomed' = doomed \cup {id \in old : Live(id)}
  BY <1>4 DEF Replace
<1>6. /\ DOMAIN ids = DOMAIN new
      /\ \A i \in DOMAIN ids : ids[i] = u + i /\ ids[i] \in FreeIds
      /\ IsInjective(ids)
  <2>1. DOMAIN ids = 1 .. Len(new) /\ \A i \in DOMAIN ids : ids[i] = u + i
    BY <1>3, <1>4
  <2>2. \A i \in 1 .. Len(new) : u + i \in u + 1 .. Cardinality(Ids)
    BY <1>1, <1>3, OpenWithAssumption, FS_CardinalityType
  <2>3. IsInjective(ids)
    BY <1>1, <2>1 DEF IsInjective
  <2> QED BY <1>1, <1>3, <2>1, <2>2, <2>3
<1>7. \A i \in DOMAIN ids : object'[ids[i]] = new[i]
  <2> SUFFICES ASSUME NEW i \in DOMAIN ids PROVE object'[ids[i]] = new[i]
    OBVIOUS
  <2>1. (CHOOSE k \in DOMAIN ids : ids[k] = ids[i]) = i
    BY <1>6 DEF IsInjective
  <2>2. ids[i] \in Ids
    BY <1>6 DEF FreeIds
  <2> QED BY <1>5, <2>1, <2>2
<1>8. \A id \in Ids : (\A i \in DOMAIN ids : ids[i] # id) => object'[id] = object[id]
  BY <1>5
<1>9. \A id \in Ids \ FreeIds : object'[id] = object[id]
  BY <1>6, <1>8
<1>10. object' \in [Ids -> Factory \cup {Unused, Deleted}]
  <2>1. \A id \in Ids : object'[id] \in Factory \cup {Unused, Deleted}
    <3> SUFFICES ASSUME NEW id \in Ids
                 PROVE  object'[id] \in Factory \cup {Unused, Deleted}
      OBVIOUS
    <3>1. CASE \E i \in DOMAIN ids : ids[i] = id
      BY <3>1, <1>1, <1>6, <1>7
    <3>2. CASE \A i \in DOMAIN ids : ids[i] # id
      BY <3>2, <1>8 DEF StoreOK
    <3> QED BY <3>1, <3>2
  <2>2. object' = [id \in Ids |-> object'[id]]
    BY <1>5
  <2> QED BY <2>1, <2>2
<1>11. FreeIds' = u + Len(new) + 1 .. Cardinality(Ids)
  <2>1. Ids = 1 .. Cardinality(Ids) /\ Cardinality(Ids) \in Nat
    BY OpenWithAssumption, FS_CardinalityType
  <2>2. ASSUME NEW id \in Ids
        PROVE  object'[id] = Unused <=> id > u + Len(new)
    <3>1. id \in Int
      BY <2>1
    <3>2. CASE id =< u
      <4>1. id \notin FreeIds
        BY <1>3, <3>1, <3>2
      <4>2. object[id] # Unused /\ object'[id] = object[id]
        BY <4>1, <1>9 DEF FreeIds
      <4> QED BY <4>2, <3>1, <3>2, <1>1
    <3>3. CASE u < id /\ id =< u + Len(new)
      <4>1. id - u \in DOMAIN ids /\ ids[id - u] = id
        <5>1. id - u \in 1 .. Len(new)
          BY <3>1, <3>3, <1>1
        <5>2. u + (id - u) = id
          BY <3>1
        <5> QED BY <5>1, <5>2, <1>1, <1>6
      <4>2. object'[id] \in Factory
        BY <4>1, <1>1, <1>6, <1>7
      <4> QED BY <4>2, <3>1, <3>3, <1>1, Kinds
    <3>4. CASE id > u + Len(new)
      <4>1. \A i \in DOMAIN ids : ids[i] # id
        BY <3>1, <3>4, <1>1, <1>6
      <4>2. id \in FreeIds
        BY <1>1, <1>3, <2>1, <3>1, <3>4
      <4> QED BY <3>4, <4>1, <4>2, <1>8 DEF FreeIds
    <3> QED BY <3>1, <3>2, <3>3, <3>4, <1>1
  <2>3. FreeIds' = {id \in Ids : object'[id] = Unused}
    BY DEF FreeIds
  <2>4. FreeIds' = {id \in Ids : id > u + Len(new)}
    BY <2>2, <2>3
  <2>5. {id \in Ids : id > u + Len(new)} = u + Len(new) + 1 .. Cardinality(Ids)
    BY <2>1, <1>1
  <2> QED BY <2>4, <2>5
<1>12. /\ m_factories' \in Seq(Ids) /\ IsInjective(m_factories')
       /\ \A n \in DOMAIN m_factories' :
            \/ \E i \in DOMAIN m_factories : /\ m_factories'[n] = m_factories[i]
                                             /\ m_factories[i] \notin old
            \/ \E i \in DOMAIN ids : m_factories'[n] = ids[i]
  <2>1. PICK kept : kept = Listed(old)
    OBVIOUS
  <2>2. PICK list \in Seq(Ids) : list = m_factories
    BY DEF StoreOK
  <2>3. kept = Among(list, Ids \ old)
    BY <2>1, <2>2 DEF Listed
  <2>4. /\ kept \in Seq(Ids \cap (Ids \ old))
        /\ \A n \in DOMAIN kept : \E i \in DOMAIN list : kept[n] = list[i]
        /\ IsInjective(kept)
    <3>1. IsInjective(list)
      BY <2>2 DEF StoreOK
    <3>2. PICK others : others = Ids \ old
      OBVIOUS
    <3>3. /\ Among(list, others) \in Seq(Ids \cap others)
          /\ \A n \in DOMAIN Among(list, others) :
               \E i \in DOMAIN list : Among(list, others)[n] = list[i]
          /\ IsInjective(list) => IsInjective(Among(list, others))
      BY AmongFacts
    <3> QED BY <2>3, <3>1, <3>2, <3>3
  <2>5. /\ kept \in Seq(Ids)
        /\ \A n \in DOMAIN kept : kept[n] \notin old /\ kept[n] \notin FreeIds
    <3>1. kept \in Seq(Ids)
      BY <2>4, SeqMonotonic
    <3>2. \A n \in DOMAIN kept : kept[n] \in Ids \ old
      BY <2>4, SeqFacts
    <3>3. \A i \in DOMAIN list : list[i] \notin FreeIds
      BY <2>2, LiveFactories
    <3> QED BY <2>4, <3>1, <3>2, <3>3
  <2>6. \A i \in DOMAIN kept, k \in DOMAIN ids : kept[i] # ids[k]
    BY <2>5, <1>6
  <2>7. m_factories' = kept \o ids
    BY <1>5, <2>1
  <2>8. PICK keep \in Seq(Ids) : keep = kept
    BY <2>5
  <2>9. /\ IsInjective(keep)
        /\ \A i \in DOMAIN keep, k \in DOMAIN ids : keep[i] # ids[k]
    BY <2>4, <2>6, <2>8
  <2>10. IsInjective(keep \o ids)
    BY <2>9, <1>6, JoinInjective
  <2>11. /\ m_factories' = keep \o ids /\ m_factories' \in Seq(Ids)
         /\ \A n \in DOMAIN m_factories' :
              \/ \E i \in DOMAIN keep : m_factories'[n] = keep[i]
              \/ \E i \in DOMAIN ids : m_factories'[n] = ids[i]
    BY <2>7, <2>8, JoinFacts
  <2>12. ASSUME NEW n \in DOMAIN m_factories'
         PROVE  \/ \E i \in DOMAIN m_factories : /\ m_factories'[n] = m_factories[i]
                                                 /\ m_factories[i] \notin old
                \/ \E i \in DOMAIN ids : m_factories'[n] = ids[i]
    <3>1. CASE \E i \in DOMAIN ids : m_factories'[n] = ids[i]
      BY <3>1
    <3>2. CASE \E i \in DOMAIN keep : m_factories'[n] = keep[i]
      <4>1. PICK k \in DOMAIN kept : m_factories'[n] = kept[k]
        BY <3>2, <2>8
      <4>2. PICK i \in DOMAIN list : kept[k] = list[i]
        BY <2>4
      <4> QED BY <4>1, <4>2, <2>2, <2>5
    <3> QED BY <2>11, <3>1, <3>2
  <2> QED BY <2>10, <2>11, <2>12
<1>13. doomed \subseteq {id \in Ids : Live(id)}
       /\ \A id \in Ids : Live(id) => id \notin FreeIds
  BY LiveFactories DEF StoreOK
<1>14. doomed' \subseteq {id \in Ids : Live(id)'}
  BY <1>5, <1>9, <1>13 DEF Live
<1>15. \A n \in DOMAIN m_factories' : /\ Live(m_factories[n])'
                                      /\ m_factories'[n] \notin doomed'
  <2> SUFFICES ASSUME NEW n \in DOMAIN m_factories'
               PROVE  /\ Live(m_factories[n])'
                      /\ m_factories'[n] \notin doomed'
    OBVIOUS
  <2>1. CASE \E i \in DOMAIN m_factories : /\ m_factories'[n] = m_factories[i]
                                           /\ m_factories[i] \notin old
    <3>1. PICK id \in Ids : /\ id = m_factories'[n] /\ id \notin old
                            /\ id \notin doomed /\ Live(id)
      BY <2>1, LiveFactories DEF StoreOK
    <3> QED BY <3>1, <1>5, <1>9, <1>13 DEF Live
  <2>2. CASE \E i \in DOMAIN ids : m_factories'[n] = ids[i]
    <3>1. PICK i \in DOMAIN ids : m_factories'[n] = ids[i]
      BY <2>2
    <3>2. ids[i] \in FreeIds /\ object'[ids[i]] \in Factory
      BY <1>1, <1>6, <1>7
    <3>3. ids[i] \in Ids /\ ~Live(ids[i])
      BY <3>2 DEF FreeIds, Live
    <3>4. ids[i] \notin doomed'
      BY <3>3, <1>5, <1>13
    <3> QED BY <3>1, <3>2, <3>4, Kinds DEF Live
  <2> QED BY <1>12, <2>1, <2>2
<1>16. \E v \in 0 .. Cardinality(Ids) : FreeIds' = v + 1 .. Cardinality(Ids)
  <2>1. u + Len(new) \in 0 .. Cardinality(Ids)
    BY <1>1, <1>3, OpenWithAssumption, FS_CardinalityType
  <2> QED BY <1>11, <2>1
<1>17. \A id \in Ids \ FreeIds : id \notin FreeIds'
  BY <1>9 DEF FreeIds
<1>18. StoreOK'
  BY <1>10, <1>12, <1>14, <1>15, <1>16 DEF StoreOK
<1> QED BY <1>9, <1>17, <1>18

-----------------------------------------------------------------------------
(* What a step may do to the three parts.                                  *)

LEMMA StoreStays ==
    ASSUME StoreOK, UNCHANGED <<managerVars, settings>>
    PROVE  StoreOK'
BY DEF StoreOK, Live, FreeIds, managerVars

\* A dialog that nobody touches stays right while factories come and go at
\* other addresses.
LEMMA DialogStays ==
    ASSUME OInv, dlg' = dlg,
           \A id \in Ids \ FreeIds : /\ object'[id] \in {object[id], Deleted}
                                     /\ id \notin FreeIds'
    PROVE  Right(dlg)'
<1>1. PICK orig \in Seq(Ids) : orig = dlg.orig
  BY DEF OInv, Right, Formed, Dialog
<1>2. \A i \in DOMAIN orig : orig[i] \in Ids \ FreeIds
  BY <1>1, SeqFacts DEF OInv, Right
<1>3. ASSUME NEW i \in DOMAIN orig, Live(orig[i])'
      PROVE  Live(orig[i]) /\ object'[orig[i]] = object[orig[i]]
  BY <1>2, <1>3 DEF Live
<1>4. ~dlg.dirty => Same(dlg)'
  BY <1>1, <1>3 DEF OInv, Right, Same
<1> QED BY <1>1, <1>2, <1>4 DEF OInv, Right, Formed

LEMMA EmptiedRight == Right(Emptied)
<1>1. <<>> \in Seq(Ids) /\ <<>> \in Seq(Factory) /\ Len(<<>>) = 0
      /\ DOMAIN <<>> = {}
  OBVIOUS
<1>2. Emptied \in Dialog
  BY <1>1 DEF Emptied, Dialog
<1> QED BY <1>1, <1>2 DEF Right, Formed, Same, Emptied

LEMMA LoadedRight ==
    ASSUME StoreOK
    PROVE  Right(LoadedFrom(m_factories, ValuesOf(m_factories)))
<1>1. PICK ids \in Seq(Ids), values \in Seq(Factory) :
        ids = m_factories /\ values = ValuesOf(m_factories)
  BY LiveFactories DEF StoreOK
<1>2. PICK d : d = LoadedFrom(ids, values)
  OBVIOUS
<1>3. /\ d = [visible |-> TRUE, orig |-> ids, rows |-> values, row |-> 0,
              regexps |-> 0, stale |-> FALSE, dirty |-> FALSE, edits |-> 0]
  BY <1>2 DEF LoadedFrom, Emptied
<1>4. d \in Dialog
  BY <1>3 DEF Dialog
<1>5. Len(values) \in Nat /\ Len(values) = Len(ids)
  BY <1>1, SeqFacts, LiveFactories
<1>6. \A i \in DOMAIN ids : ids[i] \notin FreeIds
  BY <1>1, LiveFactories
<1>7. \A i \in DOMAIN ids : object[ids[i]] = values[i]
  BY <1>1 DEF ValuesOf
<1> QED BY <1>1, <1>2, <1>3, <1>4, <1>5, <1>6, <1>7 DEF Right, Formed, Same

\* A step of the dialog alone.
LEMMA DialogStep ==
    ASSUME OInv, UNCHANGED <<managerVars, settings>>, NEW d, Right(d), dlg' = d,
           OthersOK'
    PROVE  OInv'
<1>1. StoreOK'
  BY StoreStays DEF OInv
<1>2. object' = object /\ FreeIds' = FreeIds
  BY DEF managerVars, FreeIds
<1>3. Same(dlg)' <=> Same(d)
  BY <1>2 DEF Same, Live
<1>4. Right(dlg)'
  BY <1>2, <1>3 DEF Right, Formed
<1> QED BY <1>1, <1>4 DEF OInv

\* A step that leaves factories, settings and dialog alone.
LEMMA OtherStep ==
    ASSUME OInv, UNCHANGED <<managerVars, settings, dlg>>, OthersOK'
    PROVE  OInv'
BY DialogStep DEF OInv

LEMMA NoBoxOK == NoBox \in Box /\ NoBox.kind # "executable"
BY DEF NoBox, Box

\* A step after which nothing is asked.
LEMMA NothingAsked ==
    ASSUME OInv, UNCHANGED <<menu, openings>>, box' = NoBox
    PROVE  OthersOK'
BY NoBoxOK DEF OInv, OthersOK

-----------------------------------------------------------------------------
(* Clients and deletions.                                                  *)

\* A step that replaces factories while the dialog stays as it is.
LEMMA ReplaceUnderDialog ==
    ASSUME OInv, NEW old, old \subseteq Ids, NEW new \in Seq(Factory),
           Replace(old, new), UNCHANGED <<settings, dlg, box, menu, openings>>
    PROVE  OInv'
<1>1. /\ StoreOK'
      /\ \A id \in Ids \ FreeIds : object'[id] = object[id] /\ id \notin FreeIds'
  BY ReplaceStep DEF OInv
<1>2. Right(dlg)'
  BY <1>1, DialogStays
<1> QED BY <1>1, <1>2 DEF OInv, OthersOK

LEMMA RegisteredFactory ==
    ASSUME NEW offer \in Offers, offer.method \in {"executable", "rpc"}
    PROVE  Registered(offer) \in Factory
<1>1. offer.target \in Targets /\ offer.patterns \in Seq(STRING)
  BY OpenWithAssumption DEF Targets
<1>2. Sendable(offer.patterns) \in Seq(STRING \cap Patterns)
  BY <1>1, AmongFacts DEF Sendable
<1>3. Sendable(offer.patterns) \in Seq(Patterns)
  BY <1>2, SeqMonotonic
<1>4. <<"hit">> \in Seq(Patterns)
  BY DEF Patterns
<1>5. TypeAskedFor(offer) \in HandlerTypes
  BY DEF TypeAskedFor, HandlerTypes
<1>6. offer.name \in Names
  BY DEF Names
<1> QED BY <1>1, <1>3, <1>4, <1>5, <1>6 DEF Registered, Factory

LEMMA RegisterStep ==
    ASSUME OInv, NEW offer \in Offers, RegisterOpenWith(offer)
    PROVE  OInv'
<1>1. PICK f \in Factory : f = Registered(offer)
  BY RegisteredFactory DEF RegisterOpenWith
<1>2. <<f>> \in Seq(Factory) /\ {} \subseteq Ids
  OBVIOUS
<1>3. Replace({}, <<f>>) /\ UNCHANGED <<settings, dlg, box, menu, openings>>
  BY <1>1 DEF RegisterOpenWith
<1> QED BY <1>2, <1>3, ReplaceUnderDialog

LEMMA UnregisterStep ==
    ASSUME OInv, NEW name, UnregisterOpenWith(name)
    PROVE  OInv'
<1>1. PICK i \in DOMAIN m_factories : Replace({m_factories[i]}, <<>>)
  BY DEF UnregisterOpenWith
<1>2. PICK old : old = {m_factories[i]}
  OBVIOUS
<1>3. old \subseteq Ids /\ <<>> \in Seq(Factory)
  BY <1>2, LiveFactories DEF OInv
<1>4. Replace(old, <<>>) /\ UNCHANGED <<settings, dlg, box, menu, openings>>
  BY <1>1, <1>2 DEF UnregisterOpenWith
<1> QED BY <1>3, <1>4, ReplaceUnderDialog

LEMMA DeleteStep ==
    ASSUME OInv, DeferredDelete
    PROVE  OInv'
<1>1. /\ object' = [id \in Ids |-> IF id \in doomed THEN Deleted ELSE object[id]]
      /\ doomed' = {} /\ UNCHANGED <<m_factories, settings, dlg, box, menu, openings>>
  BY DEF DeferredDelete
<1>2. \A id \in doomed : id \in Ids /\ object[id] # Unused
  BY DEF OInv, StoreOK, Live
<1>3. Deleted # Unused
  BY DEF Deleted, Unused
<1>4. \A id \in Ids : object'[id] = Unused <=> object[id] = Unused
  BY <1>1, <1>2, <1>3
<1>5. FreeIds' = FreeIds
  BY <1>4 DEF FreeIds
<1>6. object' \in [Ids -> Factory \cup {Unused, Deleted}]
  BY <1>1 DEF OInv, StoreOK
<1>7. \A i \in DOMAIN m_factories : /\ m_factories[i] \in Ids
                                    /\ object'[m_factories[i]] = object[m_factories[i]]
                                    /\ Live(m_factories[i])
  BY <1>1, LiveFactories DEF OInv, StoreOK
<1>8. \A i \in DOMAIN m_factories' : Live(m_factories[i])' /\ m_factories'[i] \notin doomed'
  BY <1>1, <1>7 DEF Live
<1>9. StoreOK'
  BY <1>1, <1>5, <1>6, <1>8 DEF OInv, StoreOK
<1>10. Right(dlg)'
  BY <1>1, <1>5, DialogStays
<1> QED BY <1>1, <1>9, <1>10 DEF OInv, OthersOK

\* Nothing but the settings is left.
LEMMA EmptyStore ==
    ASSUME settings' \in Seq(Factory), m_factories' = <<>>, doomed' = {},
           object' = [id \in Ids |-> Unused]
    PROVE  StoreOK'
<1>1. Cardinality(Ids) \in Nat /\ Ids = 1 .. Cardinality(Ids)
  BY OpenWithAssumption, FS_CardinalityType
<1>2. FreeIds' = 0 + 1 .. Cardinality(Ids)
  BY <1>1 DEF FreeIds
<1>3. <<>> \in Seq(Ids) /\ DOMAIN <<>> = {} /\ IsInjective(<<>>)
  BY DEF IsInjective
<1> QED BY <1>1, <1>2, <1>3 DEF StoreOK

\* The dialog is empty, nothing is asked, no menu and no loop are open.
LEMMA NothingOpen ==
    ASSUME StoreOK', dlg' = Emptied, box' = NoBox, menu' = {}, openings' = <<>>
    PROVE  OInv'
<1>1. /\ Formed(Emptied) /\ DOMAIN Emptied.orig = {}
      /\ Len(Emptied.rows) = Len(Emptied.orig)
  BY EmptiedRight DEF Right, Emptied
<1>2. Right(dlg)'
  BY <1>1 DEF Right, Formed, Same
<1>3. OthersOK'
  BY NoBoxOK DEF OthersOK
<1> QED BY <1>2, <1>3 DEF OInv

LEMMA DiesStep ==
    ASSUME OInv, NEW why, Dies(why)
    PROVE  OInv'
<1>1. StoreOK'
  BY EmptyStore DEF Dies, OInv, StoreOK
<1> QED BY <1>1, NothingOpen DEF Dies

-----------------------------------------------------------------------------
(* The dialog.                                                             *)

\* An edit marks the dialog, which then need not show what the manager holds.
LEMMA ChangeStep ==
    ASSUME OInv, Idle, NEW d, Change(d), Formed(d), d.orig = dlg.orig
    PROVE  OInv'
<1>1. PICK e : e = Edited(d)
  OBVIOUS
<1>2. e = [d EXCEPT !.dirty = TRUE, !.edits = d.edits + 1]
  BY <1>1 DEF Edited
<1>3. d \in Dialog
  BY DEF Formed
<1>4. e \in Dialog /\ e.dirty = TRUE /\ e.orig = dlg.orig
      /\ e.row = d.row /\ e.rows = d.rows /\ e.regexps = d.regexps
  <2>1. PICK n \in Nat : n = d.edits + 1
    BY <1>3 DEF Dialog
  <2>2. e = [visible |-> d.visible, orig |-> d.orig, rows |-> d.rows,
             row |-> d.row, regexps |-> d.regexps, stale |-> d.stale,
             dirty |-> TRUE, edits |-> n]
    BY <1>2, <1>3, <2>1 DEF Dialog
  <2> QED BY <1>3, <2>2 DEF Dialog
<1>5. Right(e)
  BY <1>4 DEF OInv, Right, Formed
<1>6. dlg' = e /\ UNCHANGED <<managerVars, settings, box, menu, openings>>
  BY <1>1 DEF Change
<1>7. OthersOK'
  BY <1>6, NothingAsked DEF Idle
<1> QED BY <1>5, <1>6, <1>7, DialogStep

LEMMA DialogType ==
    ASSUME NEW visible \in BOOLEAN, NEW orig \in Seq(Ids), NEW rows \in Seq(Factory),
           NEW row \in Nat, NEW stale \in BOOLEAN, NEW dirty \in BOOLEAN, NEW n \in Nat
    PROVE  [visible |-> visible, orig |-> orig, rows |-> rows, row |-> row,
            regexps |-> row, stale |-> stale, dirty |-> dirty, edits |-> n] \in Dialog
BY DEF Dialog

\* The dialog d with other rows, of which i is selected.
LEMMA SelectionFormed ==
    ASSUME NEW d \in Dialog, NEW rows \in Seq(Factory), NEW i \in 0 .. Len(rows),
           NEW e, e = WithSelection([d EXCEPT !.rows = rows], i)
    PROVE  Formed(e) /\ e.orig = d.orig
<1>1. Len(rows) \in Nat
  BY SeqFacts
<1>2. e = [d EXCEPT !.rows = rows, !.row = i, !.regexps = i, !.stale = FALSE]
  BY DEF WithSelection
<1>3. /\ e \in Dialog /\ e.row = i /\ e.regexps = i /\ e.rows = rows
      /\ e.orig = d.orig
  <2>1. i \in Nat
    BY <1>1
  <2>2. e = [visible |-> d.visible, orig |-> d.orig, rows |-> rows, row |-> i,
             regexps |-> i, stale |-> FALSE, dirty |-> d.dirty, edits |-> d.edits]
    BY <1>2 DEF Dialog
  <2>3. /\ d.visible \in BOOLEAN /\ d.orig \in Seq(Ids) /\ d.dirty \in BOOLEAN
        /\ d.edits \in Nat
    BY DEF Dialog
  <2>4. e \in Dialog
    <3>1. PICK v \in BOOLEAN, o \in Seq(Ids), y \in BOOLEAN, n \in Nat :
            v = d.visible /\ o = d.orig /\ y = d.dirty /\ n = d.edits
      BY <2>3
    <3>2. e = [visible |-> v, orig |-> o, rows |-> rows, row |-> i,
               regexps |-> i, stale |-> FALSE, dirty |-> y, edits |-> n]
      BY <2>2, <3>1
    <3>3. [visible |-> v, orig |-> o, rows |-> rows, row |-> i, regexps |-> i,
           stale |-> FALSE, dirty |-> y, edits |-> n] \in Dialog
      BY <2>1, DialogType
    <3> QED BY <3>2, <3>3
  <2> QED BY <2>2, <2>4
<1> QED BY <1>1, <1>3 DEF Formed

\* The dialog d with another handler in the selected row.
LEMMA RowFormed ==
    ASSUME NEW d, Formed(d), d.row # 0, NEW f \in Factory,
           NEW e, e = [d EXCEPT !.rows[d.row] = f]
    PROVE  Formed(e) /\ e.orig = d.orig
<1>1. PICK s \in Seq(Factory) : s = d.rows
  BY DEF Formed, Dialog
<1>2. Len(s) \in Nat /\ DOMAIN s = 1 .. Len(s) /\ \A i \in DOMAIN s : s[i] \in Factory
  BY SeqFacts
<1>3. PICK t : t = [s EXCEPT ![d.row] = f]
  OBVIOUS
<1>4. t \in [1 .. Len(s) -> Factory]
  BY <1>2, <1>3
<1>5. t \in Seq(Factory) /\ Len(t) = Len(s)
  BY <1>2, <1>4, MakeSeq
<1>6. e = [d EXCEPT !.rows = t]
  BY <1>1, <1>3 DEF Formed, Dialog
<1>7. /\ e \in Dialog /\ e.rows = t /\ e.row = d.row /\ e.regexps = d.regexps
      /\ e.orig = d.orig
  BY <1>5, <1>6 DEF Formed, Dialog
<1> QED BY <1>1, <1>5, <1>7 DEF Formed

\* The selected handler.
LEMMA SelectedRow ==
    ASSUME OInv
    PROVE  /\ Formed(dlg) /\ dlg \in Dialog /\ dlg.rows \in Seq(Factory)
           /\ Len(dlg.rows) \in Nat /\ DOMAIN dlg.rows = 1 .. Len(dlg.rows)
           /\ dlg.row \in 0 .. Len(dlg.rows) /\ dlg.regexps = dlg.row
           /\ dlg.row # 0 => /\ dlg.row \in DOMAIN dlg.rows
                             /\ dlg.rows[dlg.row] \in Factory
<1>1. Formed(dlg) /\ dlg \in Dialog
  BY DEF OInv, Right, Formed
<1>2. PICK s \in Seq(Factory) : s = dlg.rows
  BY <1>1 DEF Dialog
<1>3. Len(s) \in Nat /\ DOMAIN s = 1 .. Len(s) /\ \A i \in DOMAIN s : s[i] \in Factory
  BY SeqFacts
<1>4. dlg.row \in Nat /\ dlg.row =< Len(s) /\ dlg.regexps = dlg.row
  BY <1>1, <1>2 DEF Formed, Dialog
<1> QED BY <1>1, <1>2, <1>3, <1>4

LEMMA ShowStep ==
    ASSUME OInv, ShowDialog
    PROVE  OInv'
<1>1. PICK d : d = LoadedFrom(m_factories, ValuesOf(m_factories))
  OBVIOUS
<1>2. Right(d)
  BY <1>1, LoadedRight DEF OInv
<1>3. dlg' = d /\ UNCHANGED <<managerVars, settings, box, menu, openings>> /\ box = NoBox
  BY <1>1 DEF ShowDialog, Idle
<1>4. OthersOK'
  BY <1>3, NothingAsked
<1> QED BY <1>2, <1>3, <1>4, DialogStep

LEMMA SelectStep ==
    ASSUME OInv, SelectRow
    PROVE  OInv'
<1>1. /\ UNCHANGED <<managerVars, settings, box, menu, openings>> /\ box = NoBox
      /\ \E i \in DOMAIN dlg.rows : dlg' = WithSelection(dlg, i)
  BY DEF SelectRow, Idle
<1>2. PICK i \in DOMAIN dlg.rows : dlg' = WithSelection(dlg, i)
  BY <1>1
<1>3. PICK d : d = WithSelection(dlg, i)
  OBVIOUS
<1>4. dlg \in Dialog /\ i \in 1 .. Len(dlg.rows) /\ Len(dlg.rows) \in Nat
  BY SelectedRow
<1>5. d = [dlg EXCEPT !.row = i, !.regexps = i, !.stale = FALSE]
  BY <1>3 DEF WithSelection
<1>6. /\ d \in Dialog /\ d.row = i /\ d.regexps = i /\ d.rows = dlg.rows
      /\ d.orig = dlg.orig /\ d.dirty = dlg.dirty
  <2>1. i \in Nat
    BY <1>4
  <2>2. d = [visible |-> dlg.visible, orig |-> dlg.orig, rows |-> dlg.rows,
             row |-> i, regexps |-> i, stale |-> FALSE, dirty |-> dlg.dirty,
             edits |-> dlg.edits]
    BY <1>4, <1>5 DEF Dialog
  <2> QED BY <1>4, <2>1, <2>2 DEF Dialog
<1>7. Right(d)
  BY <1>4, <1>6 DEF OInv, Right, Formed, Same
<1>8. OthersOK'
  BY <1>1, NothingAsked
<1> QED BY <1>1, <1>2, <1>3, <1>7, <1>8, DialogStep

LEMMA AddRowStep ==
    ASSUME OInv, AddRow
    PROVE  OInv'
<1>1. PICK i : /\ i = IF dlg.row = 0 THEN Len(dlg.rows) + 1 ELSE dlg.row
               /\ Change(WithSelection([dlg EXCEPT !.rows = InsertAt(@, i, NewFactory)],
                                       i))
  BY DEF AddRow
<1>2. /\ dlg \in Dialog /\ dlg.rows \in Seq(Factory) /\ Len(dlg.rows) \in Nat
      /\ i \in 1 .. Len(dlg.rows) + 1
  BY <1>1, SelectedRow
<1>3. PICK s \in Seq(Factory) : s = dlg.rows
  BY <1>2
<1>4. NewFactory \in Factory
  <2>1. <<"hit">> \in Seq(Patterns) /\ NewName \in Names
    BY DEF Patterns, Names
  <2> QED BY <2>1 DEF NewFactory, Factory, HandlerTypes, Targets
<1>5. InsertAt(s, i, NewFactory) \in Seq(Factory)
      /\ Len(InsertAt(s, i, NewFactory)) = Len(s) + 1
  BY <1>2, <1>3, <1>4, InsertFacts
<1>6. PICK rows \in Seq(Factory) : /\ rows = InsertAt(dlg.rows, i, NewFactory)
                                   /\ i \in 0 .. Len(rows)
  BY <1>2, <1>3, <1>5
<1>7. PICK d : d = WithSelection([dlg EXCEPT !.rows = rows], i)
  OBVIOUS
<1>8. Formed(d) /\ d.orig = dlg.orig
  BY <1>2, <1>6, <1>7, SelectionFormed
<1>9. Change(d)
  BY <1>1, <1>6, <1>7
<1> QED BY <1>8, <1>9, ChangeStep DEF AddRow, CanEdit

LEMMA RemoveRowStep ==
    ASSUME OInv, RemoveRow
    PROVE  OInv'
<1>1. /\ dlg \in Dialog /\ dlg.rows \in Seq(Factory) /\ Len(dlg.rows) \in Nat
      /\ dlg.row \in 1 .. Len(dlg.rows)
  BY SelectedRow DEF RemoveRow
<1>2. PICK s \in Seq(Factory) : s = dlg.rows
  BY <1>1
<1>3. PICK i : /\ i \in {0, IF dlg.row < Len(dlg.rows) THEN dlg.row ELSE dlg.row - 1}
               /\ Change(WithSelection([dlg EXCEPT !.rows = RemoveAt(@, dlg.row)], i))
  BY DEF RemoveRow
<1>4. RemoveAt(s, dlg.row) \in Seq(Factory) /\ Len(RemoveAt(s, dlg.row)) = Len(s) - 1
  BY <1>1, <1>2, RemoveFacts
<1>5. PICK rows \in Seq(Factory) : /\ rows = RemoveAt(dlg.rows, dlg.row)
                                   /\ i \in 0 .. Len(rows)
  BY <1>1, <1>2, <1>3, <1>4
<1>6. PICK d : d = WithSelection([dlg EXCEPT !.rows = rows], i)
  OBVIOUS
<1>7. Formed(d) /\ d.orig = dlg.orig
  BY <1>1, <1>5, <1>6, SelectionFormed
<1>8. Change(d)
  BY <1>3, <1>5, <1>6
<1> QED BY <1>7, <1>8, ChangeStep DEF RemoveRow, CanEdit

\* The selected handler becomes f.
LEMMA RowStep ==
    ASSUME OInv, CanEdit, dlg.row # 0, NEW f \in Factory, Change(WithRow(f))
    PROVE  OInv'
<1>1. PICK d : d = WithRow(f)
  OBVIOUS
<1>2. Formed(d) /\ d.orig = dlg.orig
  BY <1>1, SelectedRow, RowFormed DEF WithRow
<1> QED BY <1>1, <1>2, ChangeStep DEF CanEdit

LEMMA EditHandlerStep ==
    ASSUME OInv, EditHandler
    PROVE  OInv'
<1>1. PICK f \in Factory : f = dlg.rows[dlg.row]
  BY SelectedRow DEF EditHandler
<1>2. Renamed \in Names
  BY DEF Names
<1>3. [f EXCEPT !.name = Renamed] \in Factory
  BY <1>2 DEF Factory
<1>4. \A type \in HandlerTypes : WithType(f, type) \in Factory
  BY DEF WithType, Factory, Targets
<1>5. \A target \in Targets : WithTarget(f, target) \in Factory
  BY DEF WithTarget, Factory
<1>6. \/ Change(WithRow([f EXCEPT !.name = Renamed]))
      \/ \E type \in HandlerTypes : Change(WithRow(WithType(f, type)))
      \/ \E target \in Targets : Change(WithRow(WithTarget(f, target)))
  BY <1>1 DEF EditHandler
<1>7. PICK g \in Factory : Change(WithRow(g))
  BY <1>3, <1>4, <1>5, <1>6
<1> QED BY <1>7, RowStep DEF EditHandler

\* The pattern model writes to the handler that is selected.
LEMMA PatternsStep ==
    ASSUME OInv, CanEditPatterns, NEW ps \in Seq(Patterns),
           Change(WithPatterns(ps))
    PROVE  OInv'
<1>1. CanEdit /\ dlg.row # 0 /\ dlg.regexps = dlg.row
  BY SelectedRow DEF CanEditPatterns
<1>2. PICK f \in Factory : f = dlg.rows[dlg.row]
  BY <1>1, SelectedRow
<1>3. PICK g : g = [f EXCEPT !.patterns = ps]
  OBVIOUS
<1>4. g \in Factory
  BY <1>3 DEF Factory
<1>5. PICK s \in Seq(Factory) : s = dlg.rows /\ dlg.row \in DOMAIN s
  BY <1>1, SelectedRow
<1>6. [s EXCEPT ![dlg.row].patterns = ps] = [s EXCEPT ![dlg.row] = g]
  BY <1>2, <1>3, <1>5
<1>7. WithPatterns(ps) = [dlg EXCEPT !.rows = [s EXCEPT ![dlg.row].patterns = ps]]
  BY <1>1, <1>5, SelectedRow DEF WithPatterns, Dialog
<1>8. WithRow(g) = [dlg EXCEPT !.rows = [s EXCEPT ![dlg.row] = g]]
  BY <1>5, SelectedRow DEF WithRow, Dialog
<1>9. Change(WithRow(g))
  BY <1>6, <1>7, <1>8
<1> QED BY <1>1, <1>4, <1>9, RowStep

LEMMA PatternStep ==
    ASSUME OInv, AddPattern \/ RemovePattern \/ EditPattern
    PROVE  OInv'
<1>1. CanEditPatterns
  BY DEF AddPattern, RemovePattern, EditPattern
<1>2. PICK ps \in Seq(Patterns) : ps = PatternsShown
  BY <1>1, SelectedRow DEF CanEditPatterns, PatternsShown, Factory
<1>3. Len(ps) \in Nat /\ DOMAIN ps = 1 .. Len(ps) /\ \A i \in DOMAIN ps : ps[i] \in Patterns
  BY SeqFacts
<1>4. Append(ps, "hit") \in Seq(Patterns)
  BY AppendProperties DEF Patterns
<1>5. \A i \in DOMAIN ps : RemoveAt(ps, i) \in Seq(Patterns)
  BY <1>3, RemoveFacts
<1>6. \A i \in DOMAIN ps, p \in Patterns : [ps EXCEPT ![i] = p] \in Seq(Patterns)
  <2> SUFFICES ASSUME NEW i \in DOMAIN ps, NEW p \in Patterns
               PROVE  [ps EXCEPT ![i] = p] \in Seq(Patterns)
    OBVIOUS
  <2>1. PICK qs : qs = [ps EXCEPT ![i] = p]
    OBVIOUS
  <2>2. qs \in [1 .. Len(ps) -> Patterns]
    BY <1>3, <2>1
  <2> QED BY <1>3, <2>1, <2>2, MakeSeq
<1>7. \/ Change(WithPatterns(Append(ps, "hit")))
      \/ \E i \in DOMAIN ps : Change(WithPatterns(RemoveAt(ps, i)))
      \/ \E i \in DOMAIN ps, p \in Patterns : Change(WithPatterns([ps EXCEPT ![i] = p]))
  BY <1>2 DEF AddPattern, RemovePattern, EditPattern
<1>8. PICK qs \in Seq(Patterns) : Change(WithPatterns(qs))
  BY <1>4, <1>5, <1>6, <1>7
<1> QED BY <1>1, <1>8, PatternsStep

-----------------------------------------------------------------------------
(* Apply, Ok and closing.                                                  *)

\* What a dialog is loaded with after a step is right after that step.
LEMMA LoadedValid ==
    StoreOK /\ dlg = LoadedFrom(m_factories, ValuesOf(m_factories)) => Right(dlg)
BY LoadedRight

LEMMA CommitStep ==
    ASSUME OInv, NEW then, Commit(then)
    PROVE  OInv'
<1>1. CASE Dies("deleted twice")
  BY <1>1, DiesStep
<1>2. CASE /\ Replace(Range(dlg.orig), dlg.rows)
           /\ dlg' = IF then = "apply"
                     THEN LoadedFrom(m_factories', [i \in DOMAIN m_factories' |->
                                                      object'[m_factories'[i]]])
                     ELSE Emptied
           /\ box' = NoBox
           /\ UNCHANGED <<settings, menu, openings, program>>
  <2>1. PICK old : old = Range(dlg.orig)
    OBVIOUS
  <2>2. PICK orig \in Seq(Ids) : orig = dlg.orig
    BY SelectedRow DEF Dialog
  <2>3. old \subseteq Ids
    BY <2>1, <2>2, SeqFacts DEF Range
  <2>4. PICK new \in Seq(Factory) : new = dlg.rows
    BY SelectedRow
  <2>5. StoreOK'
    <3>1. Replace(old, new) /\ settings' = settings /\ StoreOK
      BY <1>2, <2>1, <2>4 DEF OInv
    <3> QED BY <2>3, <3>1, ReplaceStep
  <2>6. OthersOK'
    BY <1>2, NothingAsked
  <2>7. CASE then = "apply"
    <3>1. (dlg = LoadedFrom(m_factories, ValuesOf(m_factories)))'
      BY <1>2, <2>7 DEF ValuesOf
    <3>2. Right(dlg)'
      BY <2>5, <3>1, LoadedValid, PTL
    <3> QED BY <2>5, <2>6, <3>2 DEF OInv
  <2>8. CASE then # "apply"
    <3>1. /\ Formed(Emptied) /\ DOMAIN Emptied.orig = {}
          /\ Len(Emptied.rows) = Len(Emptied.orig)
      BY EmptiedRight DEF Right, Emptied
    <3>2. Right(dlg)'
      BY <1>2, <2>8, <3>1 DEF Right, Formed, Same
    <3> QED BY <2>5, <2>6, <3>2 DEF OInv
  <2> QED BY <2>7, <2>8
<1> QED BY <1>1, <1>2 DEF Commit

LEMMA ApplyStep ==
    ASSUME OInv, NEW k \in Nat \ {0}, NEW then \in {"apply", "accept", "close"},
           NEW detached \in BOOLEAN, ApplyFrom(k, then, detached)
    PROVE  OInv'
<1> DEFINE bad == {i \in k .. Len(dlg.rows) : NeedsWarning(dlg.rows[i])}
<1>1. CASE Commit(then)
  BY <1>1, CommitStep
<1>2. CASE \E i \in bad :
             /\ \A j \in bad : i =< j
             /\ box' = [kind |-> "executable", then |-> then, row |-> i,
                        detached |-> detached]
             /\ UNCHANGED <<managerVars, settings, dlg, menu, openings, program>>
  <2>1. PICK i \in bad :
          /\ box' = [kind |-> "executable", then |-> then, row |-> i,
                     detached |-> detached]
          /\ UNCHANGED <<managerVars, settings, dlg, menu, openings, program>>
    BY <1>2
  <2>2. i \in Nat \ {0} /\ i =< Len(dlg.rows)
    BY SelectedRow
  <2>3. box' \in Box /\ box'.row = i
    BY <2>1, <2>2 DEF Box
  <2>4. OthersOK'
    BY <2>1, <2>2, <2>3 DEF OInv, OthersOK
  <2> QED BY <2>1, <2>4, OtherStep
<1> QED BY <1>1, <1>2 DEF ApplyFrom

LEMMA ApplyFirst ==
    ASSUME OInv, NEW then \in {"apply", "accept", "close"}, ApplyFrom(1, then, FALSE)
    PROVE  OInv'
<1>1. 1 \in Nat \ {0} /\ FALSE \in BOOLEAN
  OBVIOUS
<1> QED BY <1>1, ApplyStep, Zenon

\* A box that asks about an executable, and what it asks for.
LEMMA BoxFacts ==
    ASSUME OInv, Asking("executable")
    PROVE  /\ box.row \in 1 .. Len(dlg.rows) /\ box.row + 1 \in Nat \ {0}
           /\ box.then \in {"apply", "accept", "close"} /\ box.detached \in BOOLEAN
           /\ box \in [kind : {"executable"}, then : {"apply", "accept", "close"},
                       row : Nat \ {0}, detached : BOOLEAN]
<1>1. box \in Box /\ box.kind = "executable" /\ box.row =< Len(dlg.rows)
  BY DEF OInv, OthersOK, Asking
<1>2. NoBox.kind # "executable" /\ [kind |-> "unsaved"].kind # "executable"
  BY DEF NoBox
<1>3. box \in [kind : {"executable"}, then : {"apply", "accept", "close"},
               row : Nat \ {0}, detached : BOOLEAN]
  BY <1>1, <1>2 DEF Box
<1> QED BY <1>1, <1>3, SelectedRow

LEMMA ClickStep ==
    ASSUME OInv, ClickApply \/ ClickOk \/ KeepExecutable
    PROVE  OInv'
<1>1. CASE ClickApply
  BY <1>1, ApplyFirst DEF ClickApply
<1>2. CASE ClickOk
  BY <1>2, ApplyFirst DEF ClickOk
<1>3. CASE KeepExecutable
  <2>1. PICK k \in Nat \ {0}, then \in {"apply", "accept", "close"},
             detached \in BOOLEAN :
               k = box.row + 1 /\ then = box.then /\ detached = box.detached
    BY <1>3, BoxFacts DEF KeepExecutable
  <2>2. ApplyFrom(k, then, detached)
    BY <1>3, <2>1 DEF KeepExecutable
  <2> QED BY <2>2, ApplyStep
<1> QED BY <1>1, <1>2, <1>3

LEMMA RepaintStep ==
    ASSUME OInv, RepaintUnderBox
    PROVE  OInv'
<1>1. PICK b \in [kind : {"executable"}, then : {"apply", "accept", "close"},
                  row : Nat \ {0}, detached : BOOLEAN] :
        b = box /\ b.row =< Len(dlg.rows)
  BY BoxFacts DEF RepaintUnderBox, OInv, OthersOK, Asking
<1>2. PICK c : c = [b EXCEPT !.detached = TRUE]
  OBVIOUS
<1>3. /\ c \in [kind : {"executable"}, then : {"apply", "accept", "close"},
                row : Nat \ {0}, detached : BOOLEAN]
      /\ c.row = b.row
  BY <1>2
<1>4. box' = c /\ UNCHANGED <<managerVars, settings, dlg, menu, openings>>
  BY <1>1, <1>2 DEF RepaintUnderBox
<1>5. c \in Box
  BY <1>3 DEF Box
<1>6. OthersOK'
  BY <1>1, <1>3, <1>4, <1>5 DEF OInv, OthersOK
<1> QED BY <1>4, <1>6, OtherStep

\* The dialog d shown or hidden with another row or none selected.
LEMMA ShownRight ==
    ASSUME NEW d, Right(d), NEW visible \in BOOLEAN, NEW stale \in BOOLEAN,
           NEW i \in 0 .. Len(d.rows),
           NEW e, e = [d EXCEPT !.row = i, !.regexps = i, !.stale = stale,
                                !.visible = visible]
    PROVE  Right(e)
<1>1. d \in Dialog /\ d.row =< Len(d.rows)
  BY DEF Right, Formed
<1>2. PICK orig \in Seq(Ids), rows \in Seq(Factory), dirty \in BOOLEAN, n \in Nat :
        orig = d.orig /\ rows = d.rows /\ dirty = d.dirty /\ n = d.edits
  BY <1>1 DEF Dialog
<1>3. Len(rows) \in Nat
  BY SeqFacts
<1>4. i \in Nat /\ i =< Len(rows)
  BY <1>2, <1>3
<1>5. e = [visible |-> visible, orig |-> orig, rows |-> rows, row |-> i,
           regexps |-> i, stale |-> stale, dirty |-> dirty, edits |-> n]
  BY <1>1, <1>2 DEF Dialog
<1>6. [visible |-> visible, orig |-> orig, rows |-> rows, row |-> i,
       regexps |-> i, stale |-> stale, dirty |-> dirty, edits |-> n] \in Dialog
  BY <1>4, DialogType
<1>7. e \in Dialog
  BY <1>5, <1>6
<1>8. /\ e.row = i /\ e.regexps = i /\ e.rows = d.rows /\ e.orig = d.orig
      /\ e.dirty = d.dirty
  BY <1>2, <1>5
<1> QED BY <1>2, <1>4, <1>7, <1>8 DEF Right, Formed, Same

LEMMA ChangeExecutableStep ==
    ASSUME OInv, ChangeExecutable
    PROVE  OInv'
<1>1. /\ box.row \in 0 .. Len(dlg.rows) /\ box.detached \in BOOLEAN
      /\ dlg \in Dialog /\ dlg.row \in 0 .. Len(dlg.rows) /\ dlg.regexps = dlg.row
  BY BoxFacts, SelectedRow DEF ChangeExecutable
<1>2. PICK visible \in BOOLEAN : visible = (box.then # "close")
  OBVIOUS
<1>3. PICK stale \in BOOLEAN : stale = (box.detached /\ dlg.regexps # 0)
  BY <1>1
<1>4. PICK e : e = [RowAsked EXCEPT !.visible = visible]
  OBVIOUS
<1>5. Right(e)
  <2>1. CASE dlg.row = box.row
    <3>1. e = [dlg EXCEPT !.stale = stale, !.visible = visible]
      BY <1>3, <1>4, <2>1 DEF RowAsked
    <3>2. e = [dlg EXCEPT !.row = dlg.row, !.regexps = dlg.row, !.stale = stale,
                          !.visible = visible]
      BY <1>1, <3>1 DEF Dialog
    <3> QED BY <1>1, <3>2, ShownRight DEF OInv
  <2>2. CASE dlg.row # box.row
    <3>1. e = [dlg EXCEPT !.row = box.row, !.regexps = box.row, !.stale = FALSE,
                          !.visible = visible]
      BY <1>4, <2>2 DEF RowAsked, WithSelection
    <3> QED BY <1>1, <3>1, ShownRight DEF OInv
  <2> QED BY <2>1, <2>2
<1>6. /\ dlg' = e /\ box' = NoBox
      /\ UNCHANGED <<managerVars, settings, menu, openings>>
  BY <1>2, <1>4 DEF ChangeExecutable
<1>7. OthersOK'
  BY <1>6, NothingAsked
<1> QED BY <1>5, <1>6, <1>7, DialogStep

\* The dialog is left as it is or emptied, and nothing is asked any more.
LEMMA EmptyStep ==
    ASSUME OInv, UNCHANGED <<managerVars, settings, menu, openings>>, box' = NoBox,
           dlg' \in {dlg, Emptied}
    PROVE  OInv'
<1>1. PICK d : d = dlg' /\ Right(d)
  BY EmptiedRight DEF OInv
<1>2. OthersOK'
  BY NothingAsked
<1> QED BY <1>1, <1>2, DialogStep

LEMMA CloseStep ==
    ASSUME OInv, ClickCancel \/ CloseDialog \/ AnswerUnsaved
    PROVE  OInv'
<1>1. CASE ClickCancel
  BY <1>1, EmptyStep DEF ClickCancel, Idle
<1>2. CASE CloseDialog
  <2>1. CASE dlg.dirty
    <3>1. /\ box' = [kind |-> "unsaved"]
          /\ UNCHANGED <<managerVars, settings, dlg, menu, openings>>
      BY <1>2, <2>1 DEF CloseDialog
    <3>2. box' \in Box /\ box'.kind # "executable"
      BY <3>1 DEF Box
    <3>3. OthersOK'
      BY <3>1, <3>2 DEF OInv, OthersOK
    <3> QED BY <3>1, <3>3, OtherStep
  <2>2. CASE ~dlg.dirty
    BY <1>2, <2>2, EmptyStep DEF CloseDialog, Idle
  <2> QED BY <2>1, <2>2
<1>3. CASE AnswerUnsaved
  <2>1. CASE ApplyFrom(1, "close", FALSE)
    BY <2>1, ApplyFirst
  <2>2. CASE \E d \in {dlg, Emptied} :
               /\ dlg' = d /\ box' = NoBox
               /\ UNCHANGED <<managerVars, settings, menu, openings, program>>
    BY <2>2, EmptyStep
  <2> QED BY <1>3, <2>1, <2>2 DEF AnswerUnsaved
<1> QED BY <1>1, <1>2, <1>3

-----------------------------------------------------------------------------
(* The menu and what its actions do.                                       *)

LEMMA MenuStep ==
    ASSUME OInv, ContextMenu \/ CloseMenu
    PROVE  OInv'
<1>1. /\ UNCHANGED <<managerVars, settings, dlg, box, openings>>
      /\ menu' = {} \/ menu' \subseteq Range(m_factories)
  BY DEF ContextMenu, CloseMenu
<1>2. Range(m_factories) \subseteq Ids
  BY LiveFactories DEF OInv, Range
<1>3. OthersOK'
  BY <1>1, <1>2 DEF OInv, OthersOK
<1> QED BY <1>1, <1>3, OtherStep

\* Other loops wait, and nothing else changes but that a menu may be closed.
LEMMA LoopStep ==
    ASSUME OInv, UNCHANGED <<managerVars, settings, dlg, box>>, menu' \in {menu, {}},
           openings' \in Seq([id : Ids, timer : BOOLEAN, quit : BOOLEAN])
    PROVE  OInv'
<1>1. OthersOK'
  BY DEF OInv, OthersOK
<1> QED BY <1>1, OtherStep

LEMMA TriggerStep ==
    ASSUME OInv, NEW id \in Ids, Trigger(id)
    PROVE  OInv'
<1> DEFINE Opening == [id : Ids, timer : BOOLEAN, quit : BOOLEAN]
<1>1. PICK o : o = [id |-> id, timer |-> TRUE, quit |-> FALSE]
  OBVIOUS
<1>2. o \in Opening
  BY <1>1
<1>3. PICK s \in Seq(Opening) : s = openings
  BY DEF OInv, OthersOK
<1> HIDE DEF Opening
<1>4. Append(s, o) \in Seq(Opening)
  BY <1>2, AppendProperties
<1>5. openings' \in {Append(s, o), s}
  BY <1>1, <1>3 DEF Trigger
<1>6. openings' \in Seq(Opening)
  BY <1>4, <1>5
<1> QED BY <1>6, LoopStep DEF Trigger, Opening

LEMMA AnswerStep ==
    ASSUME OInv, NEW k \in DOMAIN openings, ReplyArrives(k) \/ TimerFires(k)
    PROVE  OInv'
<1> DEFINE Opening == [id : Ids, timer : BOOLEAN, quit : BOOLEAN]
<1>1. PICK s \in Seq(Opening) : s = openings
  BY DEF OInv, OthersOK
<1>2. Len(s) \in Nat /\ DOMAIN s = 1 .. Len(s) /\ \A i \in DOMAIN s : s[i] \in Opening
  BY SeqFacts
<1>3. PICK o \in Opening : o = s[k]
  BY <1>1, <1>2
<1>4. /\ [o EXCEPT !.quit = TRUE] \in Opening
      /\ [o EXCEPT !.timer = FALSE, !.quit = TRUE] \in Opening
  OBVIOUS
<1> HIDE DEF Opening
<1>5. \A p \in Opening : [s EXCEPT ![k] = p] \in Seq(Opening)
  <2> SUFFICES ASSUME NEW p \in Opening PROVE [s EXCEPT ![k] = p] \in Seq(Opening)
    OBVIOUS
  <2>1. PICK t : t = [s EXCEPT ![k] = p]
    OBVIOUS
  <2>2. t \in [1 .. Len(s) -> Opening]
    BY <1>2, <2>1
  <2> QED BY <1>2, <2>1, <2>2, MakeSeq
<1>6. openings' \in {[s EXCEPT ![k] = [o EXCEPT !.quit = TRUE]],
                     [s EXCEPT ![k] = [o EXCEPT !.timer = FALSE, !.quit = TRUE]]}
  BY <1>1, <1>3 DEF ReplyArrives, TimerFires
<1>7. openings' \in Seq(Opening)
  BY <1>4, <1>5, <1>6
<1>8. UNCHANGED <<managerVars, settings, dlg, box, menu>>
  BY DEF ReplyArrives, TimerFires
<1> QED BY <1>7, <1>8, LoopStep DEF Opening

LEMMA ReturnStep ==
    ASSUME OInv, OpenFileReturns
    PROVE  OInv'
<1> DEFINE Opening == [id : Ids, timer : BOOLEAN, quit : BOOLEAN]
<1>1. CASE Dies("freed handler")
  BY <1>1, DiesStep
<1>2. CASE /\ openings' = Front(openings)
           /\ UNCHANGED <<managerVars, settings, dlg, box, menu, program>>
  <2>1. PICK s \in Seq(Opening) : s = openings
    BY DEF OInv, OthersOK
  <2> HIDE DEF Opening
  <2>2. Front(s) \in Seq(Opening)
    BY FrontFacts
  <2>3. openings' \in Seq(Opening)
    BY <1>2, <2>1, <2>2
  <2> QED BY <1>2, <2>3, LoopStep DEF Opening
<1> QED BY <1>1, <1>2 DEF OpenFileReturns

-----------------------------------------------------------------------------
(* The next start, and the first.                                          *)

LEMMA ReadStep ==
    ASSUME NEW saved \in Seq(Factory), ReadSettings(saved), settings' = saved
    PROVE  OInv'
<1>1. /\ Len(saved) \in Nat /\ DOMAIN saved = 1 .. Len(saved)
      /\ \A i \in DOMAIN saved : saved[i] \in Factory
  BY SeqFacts
<1>2. Cardinality(Ids) \in Nat /\ Ids = 1 .. Cardinality(Ids)
  BY OpenWithAssumption, FS_CardinalityType
<1>3. PICK N \in Nat : N = Cardinality(Ids) /\ Ids = 1 .. N
  BY <1>2
<1>4. PICK n \in Nat : n = Len(saved) /\ n =< N
  BY <1>1, <1>3 DEF ReadSettings
<1>5. /\ m_factories' = [i \in 1 .. n |-> i]
      /\ object' = [id \in Ids |-> IF id \in 1 .. n THEN saved[id] ELSE Unused]
      /\ doomed' = {}
  BY <1>1, <1>4 DEF ReadSettings
<1>6. n =< N /\ \A i \in 1 .. n : i \in Ids
  <2>1. n =< N
    BY <1>4
  <2>2. \A i \in 1 .. n : i \in 1 .. N
    BY <2>1
  <2> QED BY <1>3, <2>1, <2>2
<1>7. /\ m_factories' \in Seq(Ids) /\ DOMAIN m_factories' = 1 .. n
      /\ IsInjective(m_factories')
  <2>1. m_factories' \in [1 .. n -> Ids]
    BY <1>5, <1>6
  <2> QED BY <1>5, <2>1, MakeSeq DEF IsInjective
<1>8. \A id \in 1 .. n : id \in Ids /\ object'[id] \in Factory
  BY <1>1, <1>4, <1>5, <1>6
<1>9. \A id \in Ids : id \notin 1 .. n => object'[id] = Unused
  BY <1>5
<1>10. object' \in [Ids -> Factory \cup {Unused, Deleted}]
  BY <1>1, <1>4, <1>5
<1>11. \A i \in DOMAIN m_factories' : Live(m_factories[i])' /\ m_factories'[i] \notin doomed'
  BY <1>5, <1>7, <1>8, Kinds DEF Live
<1>12. \E u \in 0 .. Cardinality(Ids) : FreeIds' = u + 1 .. Cardinality(Ids)
  <2>1. FreeIds' = {id \in Ids : object'[id] = Unused}
    BY DEF FreeIds
  <2>2. \A id \in Ids : object'[id] = Unused <=> id \notin 1 .. n
    BY <1>8, <1>9, Kinds
  <2>3. FreeIds' = {id \in Ids : id \notin 1 .. n}
    BY <2>1, <2>2
  <2>4. {id \in 1 .. N : id \notin 1 .. n} = n + 1 .. N
    BY <1>6
  <2>5. n \in 0 .. N
    BY <1>6
  <2> QED BY <1>3, <2>3, <2>4, <2>5
<1>13. StoreOK'
  BY <1>5, <1>7, <1>10, <1>11, <1>12 DEF StoreOK
<1> QED BY <1>13, NothingOpen DEF ReadSettings

LEMMA RestartStep ==
    ASSUME OInv, QuitAndRestart \/ CrashAndRestart
    PROVE  OInv'
<1>1. PICK saved \in Seq(Factory) : ReadSettings(saved) /\ settings' = saved
  BY LiveFactories DEF QuitAndRestart, CrashAndRestart, OInv, StoreOK
<1> QED BY <1>1, ReadStep

LEMMA InitOInv == Init => OInv
<1> SUFFICES ASSUME Init PROVE OInv
  OBVIOUS
<1>1. Cardinality(Ids) \in Nat /\ Ids = 1 .. Cardinality(Ids)
  BY OpenWithAssumption, FS_CardinalityType
<1>2. FreeIds = 0 + 1 .. Cardinality(Ids)
  BY <1>1 DEF Init, FreeIds
<1>3. <<>> \in Seq(Ids) /\ DOMAIN <<>> = {} /\ IsInjective(<<>>)
      /\ <<>> \in Seq(Factory)
  BY DEF IsInjective
<1>4. StoreOK
  BY <1>1, <1>2, <1>3 DEF StoreOK, Init
<1>5. OthersOK
  BY NoBoxOK DEF OthersOK, Init
<1> QED BY <1>4, <1>5, EmptiedRight DEF OInv, Init

LEMMA NextOInv == OInv /\ [Next]_vars => OInv'
<1> SUFFICES ASSUME OInv, [Next]_vars PROVE OInv'
  OBVIOUS
<1>1. CASE UNCHANGED vars
  <2>1. UNCHANGED <<managerVars, settings, dlg, box, menu, openings>>
    BY <1>1 DEF vars, managerVars
  <2>2. OthersOK'
    BY <2>1 DEF OInv, OthersOK
  <2> QED BY <2>1, <2>2, OtherStep
<1>2. CASE \E offer \in Offers : RegisterOpenWith(offer)
  BY <1>2, RegisterStep
<1>3. CASE \E name \in Names : UnregisterOpenWith(name) \/ UnregisterUnknown(name)
  BY <1>3, UnregisterStep, DiesStep DEF UnregisterUnknown
<1>4. CASE DeferredDelete
  BY <1>4, DeleteStep
<1>5. CASE ShowDialog \/ SelectRow \/ AddRow \/ RemoveRow \/ EditHandler
  BY <1>5, ShowStep, SelectStep, AddRowStep, RemoveRowStep, EditHandlerStep
<1>6. CASE AddPattern \/ RemovePattern \/ EditPattern
  BY <1>6, PatternStep
<1>7. CASE PaintFreedPatterns
  BY <1>7, DiesStep DEF PaintFreedPatterns
<1>8. CASE ClickApply \/ ClickOk \/ KeepExecutable
  BY <1>8, ClickStep
<1>9. CASE RepaintUnderBox
  BY <1>9, RepaintStep
<1>10. CASE ChangeExecutable
  BY <1>10, ChangeExecutableStep
<1>11. CASE ClickCancel \/ CloseDialog \/ AnswerUnsaved
  BY <1>11, CloseStep
<1>12. CASE ContextMenu \/ CloseMenu
  BY <1>12, MenuStep
<1>13. CASE \E id \in Ids : Trigger(id)
  BY <1>13, TriggerStep
<1>14. CASE \E k \in DOMAIN openings : ReplyArrives(k) \/ TimerFires(k)
  BY <1>14, AnswerStep
<1>15. CASE OpenFileReturns
  BY <1>15, ReturnStep
<1>16. CASE QuitAndRestart \/ CrashAndRestart
  BY <1>16, RestartStep
<1> QED BY <1>1, <1>2, <1>3, <1>4, <1>5, <1>6, <1>7, <1>8, <1>9, <1>10, <1>11,
           <1>12, <1>13, <1>14, <1>15, <1>16 DEF Next

-----------------------------------------------------------------------------
(* The theorem.                                                            *)

\* Whatever clients register and unregister while the dialog is open, a dialog
\* that is not marked as changed shows what the manager holds: closing it
\* without a question loses nothing, and Ok on it changes nothing.  With it:
\* the manager lists no factory twice and none that is deleted or about to be,
\* the pattern table edits the selected handler, and a box asks about a handler
\* that is there.  (openwithmanagerdialog.cpp 137-148, 156-175, 226-234)
THEOREM CleanStaysSame == Spec => []CleanMeansSame
<1>1. OInv => CleanMeansSame
  BY Parts
<1> QED BY <1>1, InitOInv, NextOInv, PTL DEF Spec

===============================================================================

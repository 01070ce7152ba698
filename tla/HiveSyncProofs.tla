---------------------------- MODULE HiveSyncProofs ----------------------------
(***************************************************************************)
(* Theorems about the exchange of quarantine logs, for any number of       *)
(* nodes, hashes and restarts and for any budgets.                         *)
(***************************************************************************)
EXTENDS HiveSync, FiniteSetTheorems, WellFoundedInduction, TLAPS

(* Induction over the subsets of a finite set and over the numbers: a set  *)
(* that leaves one out leaves out a least one.                             *)
LEMMA SubsetInduction ==
    ASSUME NEW S, IsFiniteSet(S), NEW T \in SUBSET SUBSET S,
           \A U \in SUBSET S : (\A V \in SUBSET U : V # U => V \in T) => U \in T
    PROVE  T = SUBSET S
<1> DEFINE R == StrictSubsetOrdering(S)
           Rest == (SUBSET S) \ T
<1>1. IsWellFoundedOn(R, SUBSET S)
  BY FS_StrictSubsetOrderingWellFounded, FS_FiniteSubsetsOfFinite
<1>2. SUFFICES ASSUME Rest # {} PROVE FALSE
  OBVIOUS
<1>3. Rest \subseteq SUBSET S
  OBVIOUS
<1> HIDE DEF R, Rest
<1>4. PICK U \in Rest : \A V \in Rest : <<V, U>> \notin R
  BY <1>1, <1>2, <1>3, WFMin
<1>5. \A V \in SUBSET U : V # U => V \in T
  BY <1>4 DEF R, Rest, StrictSubsetOrdering
<1> QED
  BY <1>4, <1>5 DEF Rest

LEMMA NumberInduction ==
    ASSUME NEW T \in SUBSET Nat, 0 \in T, \A k \in T : k + 1 \in T
    PROVE  T = Nat
<1> DEFINE R == OpToRel(<, Nat)
           Rest == Nat \ T
<1>1. SUFFICES ASSUME Rest # {} PROVE FALSE
  OBVIOUS
<1>2. \A j, k \in Nat : j < k => <<j, k>> \in R
  BY DEF OpToRel
<1>3. IsWellFoundedOn(R, Nat)
  BY NatLessThanWellFounded
<1>4. Rest \subseteq Nat
  OBVIOUS
<1> HIDE DEF R, Rest
<1>5. PICK k \in Rest : \A j \in Rest : <<j, k>> \notin R
  BY <1>1, <1>3, <1>4, WFMin
<1>6. k \in Nat \ {0}
  BY <1>5 DEF Rest
<1>7. k - 1 \in Nat /\ k - 1 < k /\ (k - 1) + 1 = k
  BY <1>6
<1>8. k - 1 \in T
  BY <1>2, <1>5, <1>6, <1>7 DEF Rest
<1>9. k \in T
  BY <1>7, <1>8
<1> QED
  BY <1>5, <1>9 DEF Rest
-----------------------------------------------------------------------------
(* A network has finitely many containers, and a file finitely many lines. *)
LEMMA IdsFinite == IsFiniteSet(Ids)
<1> DEFINE Lives(n) == {n} \X (1..MaxRestarts[n] + 1)
           All == {Lives(n) : n \in Nodes}
           f == [n \in Nodes |-> Lives(n)]
<1>1. \A n \in Nodes : IsFiniteSet(Lives(n))
  <2> TAKE n \in Nodes
  <2>1. MaxRestarts[n] + 1 \in Int
    BY HiveAssumption
  <2>2. IsFiniteSet(1..MaxRestarts[n] + 1)
    BY <2>1, FS_Interval
  <2> QED
    BY <2>2, FS_Singleton, FS_Product
<1> HIDE DEF Lives
<1>2. f \in Surjection(Nodes, All)
  BY DEF Surjection
<1>3. IsFiniteSet(All)
  BY <1>2, FS_Surjection, HiveAssumption
<1>4. IsFiniteSet(UNION All)
  BY <1>1, <1>3, FS_UNION
<1> QED
  BY <1>4 DEF Ids, Lives

LEMMA FilesFinite == \A file \in Files : IsFiniteSet(file)
<1>1. IsFiniteSet(Hashes \cup {"header"})
  BY HiveAssumption, FS_AddElement
<1> QED
  BY <1>1, FS_Subset DEF Files
-----------------------------------------------------------------------------
(* The logs the reading of file i may make of those before it, and those   *)
(* after all files of S when before holds those after fewer.               *)
Grown(n, i, logs) == UNION {MergedFile(n, grown, i) : grown \in logs}
Read(n, S, before) ==
    IF S = {} THEN {log[n]} ELSE UNION {Grown(n, i, before[S \ {i}]) : i \in S}

(* The recursion of After has a solution, one number of files at a time.   *)
LEMMA AfterExists ==
    ASSUME NEW n
    PROVE  \E after : after = [S \in SUBSET Ids |-> Read(n, S, after)]
<1> DEFINE Upto(k) == {S \in SUBSET Ids : Cardinality(S) <= k}
           Solved(k, after) == after = [S \in Upto(k) |-> Read(n, S, after)]
           T == {k \in Nat : \E after : Solved(k, after)}
<1>1. \A S \in SUBSET Ids : IsFiniteSet(S) /\ Cardinality(S) \in Nat
  BY IdsFinite, FS_Subset, FS_CardinalityType
<1>2. 0 \in T
  <2> DEFINE none == [S \in Upto(0) |-> {log[n]}]
  <2>1. \A S \in Upto(0) : S = {}
    BY <1>1, FS_EmptySet
  <2>2. \A S \in Upto(0) : Read(n, S, none) = {log[n]}
    BY <2>1 DEF Read
  <2>3. Solved(0, none)
    BY <2>2
  <2> QED
    BY <2>3
<1>3. ASSUME NEW k \in T PROVE k + 1 \in T
  <2>1. PICK after : Solved(k, after)
    OBVIOUS
  <2> DEFINE longer == [S \in Upto(k + 1) |->
                           IF S \in Upto(k) THEN after[S] ELSE Read(n, S, after)]
  <2>2. \A S \in Upto(k + 1) : \A i \in S : longer[S \ {i}] = after[S \ {i}]
    <3> SUFFICES ASSUME NEW S \in Upto(k + 1), NEW i \in S
                 PROVE  longer[S \ {i}] = after[S \ {i}]
      OBVIOUS
    <3>1. Cardinality(S \ {i}) = Cardinality(S) - 1
      BY <1>1, FS_RemoveElement
    <3>2. S \ {i} \in Upto(k) /\ S \ {i} \in Upto(k + 1)
      BY <1>1, <3>1
    <3> QED
      BY <3>2
  <2>3. \A S \in Upto(k + 1) : Read(n, S, longer) = Read(n, S, after)
    <3> HIDE DEF longer, Upto, Solved
    <3> TAKE S \in Upto(k + 1)
    <3>1. {Grown(n, i, longer[S \ {i}]) : i \in S} = {Grown(n, i, after[S \ {i}]) : i \in S}
      BY <2>2
    <3> QED
      BY <3>1 DEF Read
  <2>4. \A S \in Upto(k + 1) : longer[S] = Read(n, S, after)
    BY <2>1
  <2>5. Solved(k + 1, longer)
    BY <2>3, <2>4
  <2>6. k + 1 \in Nat
    OBVIOUS
  <2> HIDE DEF longer, Solved
  <2> QED
    BY <2>5, <2>6
<1>4. T = Nat
  BY <1>2, <1>3, NumberInduction
<1>5. SUBSET Ids = Upto(Cardinality(Ids))
  BY <1>1, IdsFinite, FS_Subset
<1>6. PICK after : Solved(Cardinality(Ids), after)
  BY <1>1, <1>4
<1> QED
  BY <1>5, <1>6

LEMMA AfterDef ==
    ASSUME NEW n
    PROVE  After(n) = [S \in SUBSET Ids |-> Read(n, S, After(n))]
<1> DEFINE a == CHOOSE after : after = [S \in SUBSET Ids |-> Read(n, S, after)]
<1>1. After(n) = a
  BY DEF After, Read, Grown
<1>2. a = [S \in SUBSET Ids |-> Read(n, S, a)]
  BY AfterExists
<1> QED
  BY <1>1, <1>2
(* A log after some files is the log it was, or comes of the file read     *)
(* last and a log after the others.                                        *)
LEMMA AfterCases ==
    ASSUME NEW n, NEW S \in SUBSET Ids, NEW grown \in After(n)[S]
    PROVE  \/ S = {} /\ grown = log[n]
           \/ \E i \in S : \E g \in After(n)[S \ {i}] : grown \in MergedFile(n, g, i)
<1>1. After(n)[S] = Read(n, S, After(n))
  BY AfterDef
<1>2. CASE S = {}
  BY <1>1, <1>2 DEF Read
<1>3. CASE S # {}
  BY <1>1, <1>3 DEF Read, Grown
<1> QED
  BY <1>2, <1>3
-----------------------------------------------------------------------------
LEMMA FreshIsNew ==
    ASSUME NEW file \in Files, NEW known
    PROVE  /\ Fresh(file, known) \in Files /\ Fresh(file, known) \subseteq file
           /\ Fresh(file, known) \cap known = {}
           /\ Cardinality(Fresh(file, known)) \in Nat
<1>1. /\ Fresh(file, known) \in Files /\ Fresh(file, known) \subseteq file
      /\ Fresh(file, known) \cap known = {}
  BY DEF Fresh, Files
<1> QED
  BY <1>1, FilesFinite, FS_CardinalityType

(* What the reading of file i makes of a log: longer by what is taken.     *)
Takes(n, i, grown, taken, longer) ==
    /\ taken \subseteq Fresh(peers[n][i], grown)
    /\ longer = grown \cup taken
    /\ longer \in Files
    /\ IsFiniteSet(taken)
    /\ Cardinality(taken) =
           Allowance(peers[n][i], grown, Cardinality(grown) - Cardinality(log[n]))
    /\ Cardinality(longer) = Cardinality(grown) + Cardinality(taken)
    /\ Cardinality(taken) \in Nat /\ Cardinality(grown) \in Nat

LEMMA OneFile ==
    ASSUME NEW n, NEW i, NEW grown \in Files, peers[n][i] \in Files,
           NEW longer \in MergedFile(n, grown, i)
    PROVE  \E taken : Takes(n, i, grown, taken, longer)
<1> DEFINE fresh == Fresh(peers[n][i], grown)
           session == Cardinality(grown) - Cardinality(log[n])
           allowed == Allowance(peers[n][i], grown, session)
<1> HIDE DEF fresh, allowed
<1>1. PICK taken \in kSubset(allowed, fresh) : longer = grown \cup taken
  BY DEF MergedFile, fresh, allowed
<1>2. taken \in SUBSET fresh /\ Cardinality(taken) = allowed
  BY <1>1 DEF kSubset
<1>3. fresh \in Files /\ fresh \cap grown = {}
  BY FreshIsNew DEF fresh
<1>4. taken \in Files /\ longer \in Files /\ grown \cap taken = {}
  BY <1>1, <1>2, <1>3 DEF Files
<1>5. IsFiniteSet(taken) /\ IsFiniteSet(grown)
  BY <1>4, FilesFinite
<1>6. Cardinality(taken) \in Nat /\ Cardinality(grown) \in Nat
  BY <1>5, FS_CardinalityType
<1>7. Cardinality(longer) = Cardinality(grown) + Cardinality(taken)
  <2>1. Cardinality(grown \cup taken) =
            Cardinality(grown) + Cardinality(taken) - Cardinality(grown \cap taken)
    BY <1>5, FS_Union
  <2>2. Cardinality(grown \cap taken) = 0
    BY <1>4, FS_EmptySet
  <2> QED
    BY <1>1, <1>6, <2>1, <2>2
<1>8. Takes(n, i, grown, taken, longer)
  BY <1>1, <1>2, <1>4, <1>5, <1>6, <1>7 DEF Takes, fresh, allowed
<1> QED
  BY <1>8

(* A merge takes nothing away, takes in no more than the session may, and  *)
(* only what files of bearable length have told.                           *)
LEMMA MergeGrows ==
    ASSUME TypeOK, NEW n \in Nodes, NEW S \in SUBSET Ids, NEW grown \in After(n)[S]
    PROVE  /\ grown \in Files
           /\ log[n] \subseteq grown
           /\ Cardinality(grown) <= Cardinality(log[n]) + PerSession
           /\ grown \subseteq log[n] \cup UNION {Fresh(peers[n][i], log[n]) : i \in S}
<1> DEFINE Told(U) == log[n] \cup UNION {Fresh(peers[n][i], log[n]) : i \in U}
           Good(U, g) ==
               /\ g \in Files
               /\ log[n] \subseteq g
               /\ Cardinality(g) <= Cardinality(log[n]) + PerSession
               /\ g \subseteq Told(U)
           T == {U \in SUBSET Ids : \A g \in After(n)[U] : Good(U, g)}
<1>1. log[n] \in Files /\ Cardinality(log[n]) \in Nat /\ PerSession \in Nat /\ PerPeer \in Nat
  BY FilesFinite, FS_CardinalityType, HiveAssumption DEF TypeOK
<1>2. ASSUME NEW U \in SUBSET Ids, \A V \in SUBSET U : V # U => V \in T
      PROVE  U \in T
  <2>1. Good(U, log[n])
    BY <1>1
  <2>2. ASSUME NEW i \in U, NEW g \in After(n)[U \ {i}], NEW longer \in MergedFile(n, g, i)
        PROVE  Good(U, longer)
    <3> DEFINE session == Cardinality(g) - Cardinality(log[n])
    <3>1. /\ g \in Files /\ log[n] \subseteq g
          /\ Cardinality(g) <= Cardinality(log[n]) + PerSession
          /\ g \subseteq Told(U \ {i})
      BY <1>2, <2>2
    <3>2. peers[n][i] \in Files
      BY DEF TypeOK
    <3> HIDE DEF session
    <3>3. PICK taken : Takes(n, i, g, taken, longer)
      BY <2>2, <3>1, <3>2, OneFile
    <3>4. Cardinality(Fresh(peers[n][i], g)) \in Nat
      BY <3>2, FreshIsNew
    <3>5. session \in Int /\ PerSession - session \in Int
      BY <1>1, <3>3 DEF session, Takes
    <3>6. Cardinality(taken) = Allowance(peers[n][i], g, session)
      BY <3>3 DEF session, Takes
    <3>7. Cardinality(taken) <= PerSession - session
      BY <1>1, <3>4, <3>5, <3>6 DEF Allowance, Least
    <3>8. Cardinality(longer) <= Cardinality(log[n]) + PerSession
      BY <1>1, <3>3, <3>7 DEF session, Takes
    <3>9. taken \subseteq Fresh(peers[n][i], log[n])
      BY <3>1, <3>3 DEF Takes, Fresh
    <3>10. longer \subseteq Told(U)
      <4>1. longer = g \cup taken
        BY <3>3 DEF Takes
      <4> QED
        BY <3>1, <3>9, <4>1
    <3> QED
      BY <3>1, <3>3, <3>8, <3>10 DEF Takes
  <2> HIDE DEF Good
  <2>3. \A longer \in After(n)[U] : Good(U, longer)
    BY <2>1, <2>2, AfterCases
  <2> QED
    BY <2>3
<1>3. T \in SUBSET SUBSET Ids
  OBVIOUS
<1> HIDE DEF T
<1>4. T = SUBSET Ids
  BY <1>2, <1>3, IdsFinite, SubsetInduction
<1> QED
  BY <1>4 DEF T
-----------------------------------------------------------------------------
LEMMA OneMore ==
    ASSUME NEW a \in Nat, NEW b \in Nat, NEW p \in Nat, a < b
    PROVE  a * p \in Nat /\ a * p + p <= b * p /\ (a + 1) * p = a * p + p
OBVIOUS

(* While the budgets of the peers with news fit into the session's, every  *)
(* file that has been read has given all it had, or its whole budget.      *)
LEMMA FairShare ==
    ASSUME TypeOK, NEW n \in Nodes,
           Cardinality(News(n)) * PerPeer <= PerSession,
           NEW S \in SUBSET News(n), NEW grown \in After(n)[S]
    PROVE  \A i \in S : LET fresh == Fresh(peers[n][i], log[n])
                       IN  Cardinality(fresh \cap grown) >= Least(Cardinality(fresh), PerPeer)
<1> DEFINE F(i) == Fresh(peers[n][i], log[n])
           Good(U, g) ==
               /\ Cardinality(g) <= Cardinality(log[n]) + Cardinality(U) * PerPeer
               /\ \A i \in U : Cardinality(F(i) \cap g) >= Least(Cardinality(F(i)), PerPeer)
           T == {U \in SUBSET News(n) : \A g \in After(n)[U] : Good(U, g)}
<1>1. Cardinality(log[n]) \in Nat /\ PerPeer \in Nat /\ PerSession \in Nat
  BY FilesFinite, FS_CardinalityType, HiveAssumption DEF TypeOK
<1>2. IsFiniteSet(News(n)) /\ News(n) \subseteq Ids
  BY IdsFinite, FS_Subset DEF News
<1>3. ASSUME NEW U \in SUBSET News(n), \A V \in SUBSET U : V # U => V \in T
      PROVE  U \in T
  <2>1. ASSUME U = {} PROVE Good(U, log[n])
    <3>1. Cardinality(U) = 0
      BY <2>1, FS_EmptySet
    <3>2. Cardinality(U) * PerPeer = 0
      BY <1>1, <3>1
    <3> QED
      BY <1>1, <2>1, <3>2
  <2>2. ASSUME NEW i \in U, NEW g \in After(n)[U \ {i}], NEW longer \in MergedFile(n, g, i)
        PROVE  Good(U, longer)
    <3> DEFINE session == Cardinality(g) - Cardinality(log[n])
               fewer == U \ {i}
               fresh == Fresh(peers[n][i], g)
    <3>1. Good(fewer, g)
      BY <1>3
    <3>2. i \in Ids /\ fewer \in SUBSET Ids
      BY <1>2
    <3>3. g \in Files /\ log[n] \subseteq g
      BY <3>2, MergeGrows
    <3>4. peers[n][i] \in Files
      BY <3>2 DEF TypeOK
    <3>5. fresh = F(i) \ g
      BY <3>3 DEF Fresh
    <3>6. PICK taken : Takes(n, i, g, taken, longer)
      BY <2>2, <3>3, <3>4, OneFile
    <3>7. /\ Cardinality(U) \in Nat /\ Cardinality(fewer) \in Nat /\ Cardinality(News(n)) \in Nat
          /\ Cardinality(U) = Cardinality(fewer) + 1 /\ Cardinality(U) <= Cardinality(News(n))
      BY <1>2, FS_Subset, FS_CardinalityType, FS_RemoveElement
    <3>8. /\ Cardinality(fewer) * PerPeer \in Nat
          /\ Cardinality(fewer) * PerPeer + PerPeer <= Cardinality(News(n)) * PerPeer
          /\ Cardinality(U) * PerPeer = Cardinality(fewer) * PerPeer + PerPeer
          /\ Cardinality(News(n)) * PerPeer \in Nat
      <4>1. Cardinality(fewer) < Cardinality(News(n))
        BY <3>7
      <4> HIDE DEF fewer
      <4>2. Cardinality(News(n)) * PerPeer \in Nat
        BY <1>1, <3>7
      <4> QED
        BY <1>1, <3>7, <4>1, <4>2, OneMore
    <3>9. Cardinality(fresh) \in Nat
      BY <3>4, FreshIsNew
    <3>10. Cardinality(taken) = Least(Cardinality(fresh), PerPeer)
      <4> HIDE DEF fresh, fewer, F
      <4>1. PerSession - session >= PerPeer /\ PerSession - session \in Int
        BY <1>1, <3>1, <3>6, <3>8 DEF Takes
      <4> HIDE DEF session
      <4>2. Least(PerPeer, PerSession - session) = PerPeer
        BY <1>1, <4>1 DEF Least
      <4> QED
        BY <3>6, <4>2 DEF Allowance, Takes, fresh, session
    <3>11. Cardinality(longer) <= Cardinality(log[n]) + Cardinality(U) * PerPeer
      <4> HIDE DEF fresh, fewer, F
      <4> QED
        BY <1>1, <3>1, <3>6, <3>8, <3>9, <3>10 DEF Least, Takes
    <3>12. Cardinality(F(i) \cap longer) >= Least(Cardinality(F(i)), PerPeer)
      <4>1. IsFiniteSet(F(i)) /\ Cardinality(F(i)) \in Nat /\ F(i) \cap longer = (F(i) \cap g) \cup taken
        BY <3>4, <3>5, <3>6, FreshIsNew, FilesFinite DEF TypeOK, Takes
      <4>2. /\ IsFiniteSet(F(i) \cap g) /\ Cardinality(F(i) \cap g) \in Nat
            /\ Cardinality(F(i) \ g) = Cardinality(F(i)) - Cardinality(F(i) \cap g)
        BY <4>1, FS_Intersection, FS_Difference, FS_CardinalityType
      <4>3. (F(i) \cap g) \cap taken = {}
        BY <3>5, <3>6 DEF Takes
      <4> HIDE DEF F, fresh, fewer, session
      <4>4. Cardinality((F(i) \cap g) \cup taken) = Cardinality(F(i) \cap g) + Cardinality(taken)
        <5>1. Cardinality((F(i) \cap g) \cap taken) = 0
          BY <4>3, FS_EmptySet
        <5>2. Cardinality((F(i) \cap g) \cup taken) =
                  Cardinality(F(i) \cap g) + Cardinality(taken) - Cardinality((F(i) \cap g) \cap taken)
          BY <3>6, <4>2, FS_Union DEF Takes
        <5> QED
          BY <3>6, <4>2, <5>1, <5>2 DEF Takes
      <4>5. Cardinality(F(i) \cap longer) = Cardinality(F(i) \cap g) + Cardinality(taken)
        BY <4>1, <4>4
      <4>6. Cardinality(fresh) = Cardinality(F(i)) - Cardinality(F(i) \cap g)
        BY <3>5, <4>2
      <4> QED
        BY <1>1, <3>9, <3>10, <4>1, <4>2, <4>5, <4>6 DEF Least
    <3>13. ASSUME NEW j \in fewer
           PROVE  Cardinality(F(j) \cap longer) >= Least(Cardinality(F(j)), PerPeer)
      <4>1. j \in Ids
        BY <3>2
      <4>2. IsFiniteSet(F(j)) /\ Cardinality(F(j)) \in Nat
        BY <4>1, FreshIsNew, FilesFinite DEF TypeOK, Takes
      <4>3. /\ IsFiniteSet(F(j) \cap longer)
            /\ Cardinality(F(j) \cap g) \in Nat /\ Cardinality(F(j) \cap longer) \in Nat
        BY <4>2, FS_Intersection, FS_CardinalityType
      <4>4. F(j) \cap g \subseteq F(j) \cap longer
        BY <3>6 DEF Takes
      <4>5. Cardinality(F(j) \cap g) <= Cardinality(F(j) \cap longer)
        BY <4>3, <4>4, FS_Subset
      <4>6. Cardinality(F(j) \cap g) >= Least(Cardinality(F(j)), PerPeer)
        BY <3>1, <3>13
      <4> HIDE DEF F
      <4> QED
        BY <1>1, <4>2, <4>3, <4>5, <4>6 DEF Least
    <3> QED
      BY <3>11, <3>12, <3>13
  <2> HIDE DEF Good
  <2>3. \A g \in After(n)[U] : Good(U, g)
    BY <1>2, <2>1, <2>2, AfterCases
  <2> QED
    BY <2>3
<1>4. T \in SUBSET SUBSET News(n)
  OBVIOUS
<1> HIDE DEF T
<1>5. T = SUBSET News(n)
  BY <1>2, <1>3, <1>4, SubsetInduction
<1> QED
  BY <1>5 DEF T
-----------------------------------------------------------------------------
(* The containers there may be. *)
LivesLeft == \A n \in Nodes : life[n] \in 1..MaxRestarts[n] + 1

(* What a container has published is in its export, and that in its log.   *)
OfThisLife == \A n \in Nodes : registry[Id(n)] \subseteq export[n] /\ export[n] \subseteq log[n]

(* Nothing is published under the id of a container yet to come.           *)
Unborn == \A i \in Ids : i[2] > life[i[1]] => registry[i] = {}

(* No file tells of a hash no node's own mutations have.                   *)
Genuine == {"header"} \cup UNION {Catches[n] : n \in Nodes}
OnlyGenuine ==
    /\ \A n \in Nodes : log[n] \subseteq Genuine /\ export[n] \subseteq Genuine
    /\ \A n \in Nodes, i \in Ids : peers[n][i] \subseteq Genuine
    /\ \A i \in Ids : registry[i] \subseteq Genuine

RegInv == TypeOK /\ LivesLeft /\ OfThisLife /\ Unborn

LEMMA IdType ==
    ASSUME TypeOK, LivesLeft, NEW n \in Nodes
    PROVE  Id(n) \in Ids
BY DEF LivesLeft, Id, Ids

LEMMA LifeOfId ==
    ASSUME NEW i \in Ids
    PROVE  i[1] \in Nodes /\ i[2] \in Nat /\ i = <<i[1], i[2]>>
<1>1. PICK n \in Nodes : i \in {n} \X (1..MaxRestarts[n] + 1)
  BY DEF Ids
<1>2. MaxRestarts[n] \in Nat
  BY HiveAssumption
<1> QED
  BY <1>1, <1>2

LEMMA MergeBounds ==
    ASSUME TypeOK, NEW n \in Nodes, NEW merged \in Merges(n)
    PROVE  /\ merged \in Files
           /\ log[n] \subseteq merged
           /\ Cardinality(merged) <= Cardinality(log[n]) + PerSession
           /\ merged \subseteq log[n] \cup UNION {Fresh(peers[n][i], log[n]) : i \in News(n)}
<1>1. News(n) \in SUBSET Ids
  BY DEF News
<1>2. merged \in After(n)[News(n)]
  BY DEF Merges
<1> QED
  BY <1>1, <1>2, MergeGrows

(* Next, action by action, with what a merge makes of the log. *)
LEMMA StepCases ==
    ASSUME TypeOK, [Next]_vars
    PROVE  \/ UNCHANGED vars
           \/ \E n \in Nodes :
                 \/ Export(n) \/ Upload(n) \/ Restart(n)
                 \/ \E i \in Ids : Download(n, i)
                 \/ \E h \in Hashes : Catch(n, h)
                 \/ \E merged \in Merges(n) :
                       /\ merged \in Files /\ log[n] \subseteq merged
                       /\ merged \subseteq log[n] \cup UNION {peers[n][i] : i \in Ids}
                       /\ log' = [log EXCEPT ![n] = merged]
                       /\ UNCHANGED <<life, export, peers, registry>>
<1>1. ASSUME NEW n \in Nodes, NEW merged \in Merges(n)
      PROVE  /\ merged \in Files /\ log[n] \subseteq merged
             /\ merged \subseteq log[n] \cup UNION {peers[n][i] : i \in Ids}
  <2>1. /\ merged \in Files /\ log[n] \subseteq merged
        /\ merged \subseteq log[n] \cup UNION {Fresh(peers[n][i], log[n]) : i \in News(n)}
    BY MergeBounds
  <2>2. \A i \in News(n) : i \in Ids /\ Fresh(peers[n][i], log[n]) \subseteq peers[n][i]
    BY DEF News, Fresh
  <2> QED
    BY <2>1, <2>2
<1> QED
  BY <1>1 DEF Next, Merge

LEMMA TypeStep ==
    ASSUME TypeOK, LivesLeft, [Next]_vars
    PROVE  TypeOK' /\ LivesLeft'
<1>1. CASE UNCHANGED vars
  BY <1>1 DEF TypeOK, LivesLeft, vars
<1>2. ASSUME NEW n \in Nodes, NEW h \in Hashes, Catch(n, h)
      PROVE  TypeOK' /\ LivesLeft'
  BY <1>2 DEF Catch, TypeOK, LivesLeft, Files
<1>3. ASSUME NEW n \in Nodes, Restart(n)
      PROVE  TypeOK' /\ LivesLeft'
  <2>1. {} \in Files
    BY DEF Files
  <2>2. NoFiles \in [Ids -> Files]
    BY <2>1 DEF NoFiles
  <2>3. TypeOK'
    BY <1>3, <2>1, <2>2 DEF Restart, TypeOK
  <2>4. life[n] + 1 \in 1..MaxRestarts[n] + 1
    <3>1. MaxRestarts[n] \in Nat /\ life[n] \in Nat
      BY HiveAssumption DEF TypeOK
    <3>2. life[n] <= MaxRestarts[n]
      BY <1>3 DEF Restart
    <3> QED
      BY <3>1, <3>2
  <2>5. LivesLeft'
    BY <1>3, <2>4 DEF Restart, TypeOK, LivesLeft
  <2> QED
    BY <2>3, <2>5
<1>4. ASSUME NEW n \in Nodes, NEW i \in Ids, Download(n, i)
      PROVE  TypeOK' /\ LivesLeft'
  BY <1>4 DEF Download, TypeOK, LivesLeft
<1>5. ASSUME NEW n \in Nodes, Export(n) \/ Upload(n)
      PROVE  TypeOK' /\ LivesLeft'
  BY <1>5 DEF Export, Upload, TypeOK, LivesLeft
<1>6. ASSUME NEW n \in Nodes, NEW merged \in Files, log' = [log EXCEPT ![n] = merged],
             UNCHANGED <<life, export, peers, registry>>
      PROVE  TypeOK' /\ LivesLeft'
  BY <1>6 DEF TypeOK, LivesLeft
<1> QED
  BY <1>1, <1>2, <1>3, <1>4, <1>5, <1>6, StepCases

LEMMA LifeStep ==
    ASSUME RegInv, [Next]_vars
    PROVE  OfThisLife' /\ Unborn' /\ \A i \in Ids : registry[i] \subseteq registry'[i]
<1> USE DEF RegInv
<1> DEFINE Goal == OfThisLife' /\ Unborn' /\ \A i \in Ids : registry[i] \subseteq registry'[i]
<1>1. CASE UNCHANGED vars
  BY <1>1 DEF OfThisLife, Unborn, vars, Id
<1>2. ASSUME NEW n \in Nodes, NEW merged \in Files, log[n] \subseteq merged,
             log' = [log EXCEPT ![n] = merged],
             UNCHANGED <<life, export, peers, registry>>
      PROVE  Goal
  <2>1. \A m \in Nodes : log[m] \subseteq log'[m]
    BY <1>2 DEF TypeOK
  <2> QED
    BY <1>2, <2>1 DEF OfThisLife, Unborn, Id
<1>3. ASSUME NEW n \in Nodes, NEW h \in Hashes, Catch(n, h)
      PROVE  Goal
  <2>1. \A m \in Nodes : log[m] \subseteq log'[m]
    BY <1>3 DEF Catch, TypeOK
  <2> QED
    BY <1>3, <2>1 DEF Catch, OfThisLife, Unborn, Id
<1>4. ASSUME NEW n \in Nodes, Restart(n)
      PROVE  Goal
  <2>1. /\ life' = [life EXCEPT ![n] = @ + 1] /\ UNCHANGED registry
        /\ export' = [export EXCEPT ![n] = {}] /\ log' = [log EXCEPT ![n] = {}]
    BY <1>4 DEF Restart
  <2>2. \A m \in Nodes : life[m] \in Nat /\ life'[m] \in Nat /\ life'[m] >= life[m]
    BY <2>1 DEF TypeOK
  <2>3. Unborn'
    BY <2>1, <2>2, LifeOfId DEF Unborn
  <2>4. registry[<<n, life[n] + 1>>] = {}
    <3>1. <<n, life[n] + 1>> \in Ids
      <4>1. life'[n] \in 1..MaxRestarts[n] + 1
        BY <1>4, TypeStep DEF LivesLeft
      <4> QED
        BY <2>1, <4>1 DEF Ids, TypeOK
    <3> QED
      BY <2>2, <3>1 DEF Unborn
  <2>5. ASSUME NEW m \in Nodes
        PROVE  registry'[Id(m)'] \subseteq export'[m] /\ export'[m] \subseteq log'[m]
    <3>1. CASE m = n
      BY <2>1, <2>4, <3>1 DEF Id, TypeOK
    <3>2. CASE m # n
      BY <2>1, <3>2 DEF Id, TypeOK, OfThisLife
    <3> QED
      BY <3>1, <3>2
  <2> QED
    BY <2>1, <2>3, <2>5 DEF OfThisLife
<1>5. ASSUME NEW n \in Nodes, Export(n)
      PROVE  Goal
  <2>1. \A m \in Nodes : registry[Id(m)] \subseteq export'[m] /\ export'[m] \subseteq log[m]
    BY <1>5 DEF Export, OfThisLife, TypeOK
  <2> QED
    BY <1>5, <2>1 DEF Export, OfThisLife, Unborn, Id
<1>6. ASSUME NEW n \in Nodes, NEW i \in Ids, Download(n, i)
      PROVE  Goal
  BY <1>6 DEF Download, OfThisLife, Unborn, Id
<1>7. ASSUME NEW n \in Nodes, Upload(n)
      PROVE  Goal
  <2>1. /\ registry' = [registry EXCEPT ![Id(n)] = export[n]]
        /\ UNCHANGED <<life, log, export, peers>>
    BY <1>7 DEF Upload
  <2>2. Id(n) = <<n, life[n]>> /\ Id(n) \in Ids /\ life[n] \in Nat
    BY IdType DEF Id, TypeOK
  <2>3. registry[Id(n)] \subseteq export[n]
    BY DEF OfThisLife
  <2>4. \A i \in Ids : registry'[i] = IF i = Id(n) THEN export[n] ELSE registry[i]
    BY <2>1 DEF TypeOK
  <2>5. \A i \in Ids : i[2] > life[i[1]] => i # Id(n)
    BY <2>2
  <2>6. Unborn'
    BY <2>1, <2>4, <2>5 DEF Unborn
  <2>7. \A m \in Nodes : registry'[Id(m)] \subseteq export[m] /\ export[m] \subseteq log[m]
    <3>1. \A m \in Nodes : Id(m) \in Ids /\ (Id(m) = Id(n) => m = n)
      BY IdType DEF Id
    <3> QED
      BY <2>4, <3>1 DEF OfThisLife
  <2>8. \A i \in Ids : registry[i] \subseteq registry'[i]
    BY <2>3, <2>4
  <2> QED
    BY <2>1, <2>6, <2>7, <2>8 DEF OfThisLife, Id
<1> QED
  BY <1>1, <1>2, <1>3, <1>4, <1>5, <1>6, <1>7, StepCases

LEMMA RegInit == Init => RegInv
<1> SUFFICES ASSUME Init PROVE RegInv
  OBVIOUS
<1>1. {} \in Files
  BY DEF Files
<1>2. NoFiles \in [Ids -> Files]
  BY <1>1 DEF NoFiles
<1>3. TypeOK
  BY <1>1, <1>2 DEF Init, TypeOK
<1>4. LivesLeft
  BY HiveAssumption DEF Init, LivesLeft
<1>5. \A n \in Nodes : registry[Id(n)] = {}
  BY <1>3, <1>4, IdType DEF Init, NoFiles
<1> QED
  BY <1>3, <1>4, <1>5 DEF Init, RegInv, OfThisLife, Unborn, NoFiles

LEMMA RegAlways == Spec => []RegInv
<1>1. RegInv /\ [Next]_vars => RegInv'
  BY TypeStep, LifeStep DEF RegInv
<1> QED
  BY RegInit, <1>1, PTL DEF Spec
-----------------------------------------------------------------------------
LEMMA GenuineStep ==
    ASSUME TypeOK, OnlyGenuine, [Next]_vars
    PROVE  OnlyGenuine'
<1>1. CASE UNCHANGED vars
  BY <1>1 DEF OnlyGenuine, vars
<1>2. ASSUME NEW n \in Nodes, NEW h \in Hashes, Catch(n, h)
      PROVE  OnlyGenuine'
  <2>1. h \in Catches[n]
    BY <1>2 DEF Catch
  <2>2. h \in Genuine /\ "header" \in Genuine
    BY <2>1 DEF Genuine
  <2> QED
    BY <1>2, <2>2 DEF Catch, OnlyGenuine, TypeOK
<1>3. ASSUME NEW n \in Nodes, Restart(n)
      PROVE  OnlyGenuine'
  BY <1>3 DEF Restart, OnlyGenuine, TypeOK, NoFiles
<1>4. ASSUME NEW n \in Nodes, Export(n) \/ Upload(n)
      PROVE  OnlyGenuine'
  BY <1>4 DEF Export, Upload, OnlyGenuine, TypeOK
<1>5. ASSUME NEW n \in Nodes, NEW i \in Ids, Download(n, i)
      PROVE  OnlyGenuine'
  BY <1>5 DEF Download, OnlyGenuine, TypeOK
<1>6. ASSUME NEW n \in Nodes, NEW merged,
             merged \subseteq log[n] \cup UNION {peers[n][i] : i \in Ids},
             log' = [log EXCEPT ![n] = merged], UNCHANGED <<life, export, peers, registry>>
      PROVE  OnlyGenuine'
  <2>1. merged \subseteq Genuine
    BY <1>6 DEF OnlyGenuine
  <2> QED
    BY <1>6, <2>1 DEF OnlyGenuine, TypeOK
<1> QED
  BY <1>1, <1>2, <1>3, <1>4, <1>5, <1>6, StepCases
-----------------------------------------------------------------------------
(* Every file holds known lines only and every container one of its lives. *)
THEOREM TypeCorrect == Spec => []TypeOK
<1>1. RegInv => TypeOK
  BY DEF RegInv
<1> QED
  BY RegAlways, <1>1, PTL

(* The budgets keep their promise (NodeRegistry): no peer's flood keeps    *)
(* out what another has to tell, whatever the order of the directory.      *)
THEOREM NobodyStarves == Spec => []NoPeerStarvesAnother
<1>1. ASSUME TypeOK PROVE NoPeerStarvesAnother
  <2> SUFFICES ASSUME NEW n \in Nodes,
                      Cardinality(News(n)) * PerPeer <= PerSession,
                      NEW i \in News(n), NEW merged \in Merges(n)
               PROVE  LET fresh == Fresh(peers[n][i], log[n])
                      IN  Cardinality(fresh \cap merged) >= Least(Cardinality(fresh), PerPeer)
    BY DEF NoPeerStarvesAnother
  <2>1. merged \in After(n)[News(n)]
    BY DEF Merges
  <2> QED
    BY <1>1, <2>1, FairShare
<1> QED
  BY TypeCorrect, <1>1, PTL

(* The record of a container only ever grows, as its export does, although *)
(* log and export are lost with it: the next container has a new id.       *)
THEOREM RegistryForgetsNothing == Spec => RegistryOnlyGrows
<1>1. RegInv /\ [Next]_vars => [\A i \in Ids : registry[i] \subseteq registry'[i]]_vars
  BY LifeStep
<1> QED
  BY RegAlways, <1>1, PTL DEF Spec, RegistryOnlyGrows

(* "Total cross-peer imports are capped per sync cycle" (NodeRegistry):    *)
(* whatever lies in /tmp, and whatever the order of it, one merge takes in *)
(* no more than the session may, drops nothing it knew, and takes nothing  *)
(* from a file that is too long.                                           *)
MergeKeepsBounds ==
    \A n \in Nodes : \A merged \in Merges(n) :
        /\ log[n] \subseteq merged
        /\ Cardinality(merged) <= Cardinality(log[n]) + PerSession
        /\ merged \subseteq log[n] \cup UNION {Fresh(peers[n][i], log[n]) : i \in News(n)}

THEOREM MergesBounded == Spec => []MergeKeepsBounds
<1>1. TypeOK => MergeKeepsBounds
  BY MergeBounds DEF MergeKeepsBounds
<1> QED
  BY TypeCorrect, <1>1, PTL

(* A log, wherever its lines come from, bars only mutations that have      *)
(* crashed on some node: the exchange makes no hash up.                    *)
THEOREM NoHashMadeUp == Spec => []OnlyGenuine
<1>1. Init => OnlyGenuine
  BY DEF Init, OnlyGenuine, NoFiles
<1>2. TypeOK /\ OnlyGenuine /\ [Next]_vars => OnlyGenuine'
  BY GenuineStep
<1> QED
  BY TypeCorrect, <1>1, <1>2, PTL DEF Spec
=============================================================================

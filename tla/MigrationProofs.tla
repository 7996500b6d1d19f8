--------------------------- MODULE MigrationProofs ---------------------------
(* Theorems about Migration, for every number of replicas, migrations,      *)
(* contents and crashes.                                                    *)
EXTENDS Migration, FiniteSetTheorems, WellFoundedInduction, TLAPS

USE VariantsAssumption, BoundsAssumption
USE DEF VariantsAssumption, BoundsAssumption, builds

-----------------------------------------------------------------------------
(* Numbers                                                                  *)

\* A set of numbers up to a bound has a greatest one: the intervals from its
\* members up to the bound are finite, so one of them is the smallest.
LEMMA MaxExists ==
  ASSUME NEW N \in Nat, NEW S, S \subseteq 0..N, S # {}
  PROVE  Max(S) \in S /\ \A y \in S : Max(S) >= y
<1> DEFINE T == {x..N : x \in S}
           R == StrictSubsetOrdering(Nat)
           F == FiniteSubsetsOf(Nat)
<1>1. T \subseteq F
  <2> SUFFICES ASSUME NEW x \in S PROVE x..N \in F
    OBVIOUS
  <2>1. x \in 0..N
    OBVIOUS
  <2>2. IsFiniteSet(x..N)
    BY <2>1, FS_Interval
  <2> QED BY <2>1, <2>2 DEF FiniteSubsetsOf
<1>2. T # {}
  OBVIOUS
<1>3. IsWellFoundedOn(R, F)
  BY FS_StrictSubsetOrderingWellFounded
<1> HIDE DEF T, R, F
<1>4. PICK t \in T : \A u \in T : <<u, t>> \notin R
  BY ONLY <1>1, <1>2, <1>3, WFMin
<1>5. PICK x \in S : t = x..N
  BY DEF T
<1>6. ASSUME NEW y \in S PROVE x >= y
  <2> SUFFICES ASSUME x < y PROVE FALSE
    OBVIOUS
  <2>1. y..N \in T
    BY DEF T
  <2>2. y..N \subseteq t /\ y..N # t /\ t \subseteq Nat
    <3>1. x \in 0..N /\ y \in 0..N
      OBVIOUS
    <3>2. x \in t /\ x \notin y..N
      BY <3>1, <1>5
    <3> QED BY <3>1, <3>2, <1>5
  <2>3. <<y..N, t>> \in R
    BY <2>2 DEF R, StrictSubsetOrdering
  <2> QED BY <1>4, <2>1, <2>3
<1> QED BY <1>5, <1>6 DEF Max

\* And, for the intervals below its members, a least one.
LEMMA MinExists ==
  ASSUME NEW N \in Nat, NEW S, S \subseteq 0..N, S # {}
  PROVE  Min(S) \in S /\ \A y \in S : Min(S) <= y
<1> DEFINE T == {0..x : x \in S}
           R == StrictSubsetOrdering(Nat)
           F == FiniteSubsetsOf(Nat)
<1>1. T \subseteq F
  <2> SUFFICES ASSUME NEW x \in S PROVE 0..x \in F
    OBVIOUS
  <2>1. x \in 0..N
    OBVIOUS
  <2>2. IsFiniteSet(0..x)
    BY <2>1, FS_Interval
  <2> QED BY <2>1, <2>2 DEF FiniteSubsetsOf
<1>2. T # {}
  OBVIOUS
<1>3. IsWellFoundedOn(R, F)
  BY FS_StrictSubsetOrderingWellFounded
<1> HIDE DEF T, R, F
<1>4. PICK t \in T : \A u \in T : <<u, t>> \notin R
  BY ONLY <1>1, <1>2, <1>3, WFMin
<1>5. PICK x \in S : t = 0..x
  BY DEF T
<1>6. ASSUME NEW y \in S PROVE x <= y
  <2> SUFFICES ASSUME y < x PROVE FALSE
    OBVIOUS
  <2>1. 0..y \in T
    BY DEF T
  <2>2. 0..y \subseteq t /\ 0..y # t /\ t \subseteq Nat
    <3>1. x \in 0..N /\ y \in 0..N
      OBVIOUS
    <3>2. x \in t /\ x \notin 0..y
      BY <3>1, <1>5
    <3> QED BY <3>1, <3>2, <1>5
  <2>3. <<0..y, t>> \in R
    BY <2>2 DEF R, StrictSubsetOrdering
  <2> QED BY <1>4, <2>1, <2>3
<1> QED BY <1>5, <1>6 DEF Min

\* The least member of a set whose members above a number are a whole interval.
LEMMA MinOfInterval ==
  ASSUME NEW c \in Nat, NEW m \in Nat, c < m
  PROVE  Min((c + 1)..m) = c + 1
BY DEF Min

LEMMA MaxOfInterval ==
  ASSUME NEW c \in Nat, NEW m \in Nat, c < m
  PROVE  Max((c + 1)..m) = m
BY DEF Max

-----------------------------------------------------------------------------
(* Builds                                                                   *)

LEMMA BuildsTyped ==
  ASSUME NEW b \in Builds
  PROVE  /\ b \in Seq(Variants) /\ Len(b) \in 0..MaxNum
         /\ DOMAIN b = 1..Len(b) /\ b \in [1..Len(b) -> Variants]
<1>1. PICK n \in 0..MaxNum : b \in [1..n -> Variants]
  BY DEF Builds
<1> QED BY <1>1

LEMMA SchemaMembers ==
  ASSUME NEW b \in Builds, NEW i, NEW v
  PROVE  <<i, v>> \in Schema(b) <=> i \in 1..Len(b) /\ v = b[i]
<1>1. DOMAIN b = 1..Len(b)
  BY BuildsTyped
<1>2. <<i, v>> \in Schema(b) <=> \E j \in 1..Len(b) : <<i, v>> = <<j, b[j]>>
  BY <1>1 DEF Schema
<1> QED BY <1>2

LEMMA SchemaPairs ==
  ASSUME NEW b \in Builds, NEW s \in Schema(b)
  PROVE  s[1] \in 1..Len(b) /\ s = <<s[1], b[s[1]]>>
BY BuildsTyped DEF Schema

LEMMA SameBuild ==
  ASSUME NEW a \in Builds, NEW b \in Builds, Len(a) = Len(b),
         \A i \in 1..Len(a) : a[i] = b[i]
  PROVE  a = b
<1>1. /\ a \in [1..Len(a) -> Variants] /\ b \in [1..Len(b) -> Variants]
      /\ Len(a) \in Nat /\ Len(b) \in Nat
  BY BuildsTyped
<1>2. PICK m \in Nat : m = Len(a)
  BY <1>1
<1>3. a \in [1..m -> Variants] /\ b \in [1..m -> Variants] /\ \A i \in 1..m : a[i] = b[i]
  BY <1>1, <1>2
<1> QED BY ONLY <1>3

LEMMA SchemaOrder ==
  ASSUME NEW a \in Builds, NEW b \in Builds, Schema(a) \subseteq Schema(b)
  PROVE  /\ Len(a) <= Len(b)
         /\ \A i \in 1..Len(a) : a[i] = b[i]
<1>1. /\ Len(a) \in Nat /\ Len(b) \in Nat
      /\ DOMAIN a = 1..Len(a) /\ DOMAIN b = 1..Len(b)
  BY BuildsTyped
<1>2. \A i \in 1..Len(a) : i \in 1..Len(b) /\ a[i] = b[i]
  BY SchemaMembers
<1>3. Len(a) = 0 \/ Len(a) \in 1..Len(b)
  BY <1>1, <1>2
<1> QED BY <1>1, <1>2, <1>3

\* The numbers of a schema.
LEMMA SchemaNumbers ==
  ASSUME NEW b \in Builds
  PROVE  /\ {s[1] : s \in Schema(b)} = 1..Len(b)
         /\ Cardinality(Schema(b)) = Len(b)
<1>1. Len(b) \in Nat /\ DOMAIN b = 1..Len(b)
  BY BuildsTyped
<1>2. {s[1] : s \in Schema(b)} = 1..Len(b)
  <2>1. \A i \in 1..Len(b) : <<i, b[i]>> \in Schema(b) /\ <<i, b[i]>>[1] = i
    BY SchemaMembers
  <2>2. \A i \in 1..Len(b) : i \in {s[1] : s \in Schema(b)}
    BY <2>1
  <2> QED BY <2>2, SchemaPairs
<1>3. Cardinality(Schema(b)) = Len(b)
  <2> DEFINE f == [i \in 1..Len(b) |-> <<i, b[i]>>]
  <2>1. ExistsBijection(1..Len(b), Schema(b))
    <3>1. f \in [1..Len(b) -> Schema(b)]
      BY SchemaMembers
    <3>2. \A i, j \in 1..Len(b) : f[i] = f[j] => i = j
      OBVIOUS
    <3>3. \A t \in Schema(b) : \E i \in 1..Len(b) : f[i] = t
      BY SchemaPairs
    <3> HIDE DEF f
    <3>4. f \in Bijection(1..Len(b), Schema(b))
      BY ONLY <3>1, <3>2, <3>3 DEF Bijection, Injection, Surjection, IsInjective
    <3> QED BY <3>4 DEF ExistsBijection
  <2> QED BY <1>1, <2>1, FS_CountingElements
<1> QED BY <1>2, <1>3

-----------------------------------------------------------------------------
(* What an update makes of a build                                          *)

LEMMA LastEqualFacts ==
  ASSUME NEW o \in Builds, NEW n \in Builds
  PROVE  LET c == LastEqual(o, n)
         IN /\ c \in 0..MaxNum /\ c <= Len(o) /\ c <= Len(n)
            /\ c # 0 => o[c] = n[c]
            /\ \A i \in 1..Len(o) : i <= Len(n) /\ o[i] = n[i] => i <= c
<1> DEFINE S == {0} \cup {i \in DOMAIN o \cap DOMAIN n : o[i] = n[i]}
<1>1. /\ Len(o) \in 0..MaxNum /\ Len(n) \in 0..MaxNum
      /\ DOMAIN o = 1..Len(o) /\ DOMAIN n = 1..Len(n)
  BY BuildsTyped
<1>2. S \subseteq 0..MaxNum /\ S # {}
  BY <1>1
<1>3. Max(S) \in S /\ \A y \in S : Max(S) >= y
  BY <1>2, MaxExists
<1>4. LastEqual(o, n) = Max(S)
  BY DEF LastEqual
<1> HIDE DEF S
<1>5. PICK c \in S : c = LastEqual(o, n) /\ \A y \in S : c >= y
  BY <1>3, <1>4
<1> USE DEF S
<1>6. c \in 0..MaxNum /\ c <= Len(o) /\ c <= Len(n) /\ (c # 0 => o[c] = n[c])
  BY <1>1, <1>5
<1>7. ASSUME NEW i \in 1..Len(o), i <= Len(n), o[i] = n[i] PROVE i <= c
  <2>1. i \in S
    BY <1>1, <1>7
  <2> QED BY <1>1, <1>5, <1>6, <2>1
<1> QED BY <1>5, <1>6, <1>7

LEMMA ReachedFacts ==
  ASSUME NEW o \in Builds, NEW n \in Builds
  PROVE  LET c == LastEqual(o, n)
             t == Reached(o, n)
         IN /\ t \in Builds /\ Len(t) = Len(n)
            /\ \A i \in 1..c : t[i] = o[i]
            /\ \A i \in 1..Len(n) : i >= c => t[i] = n[i]
<1> DEFINE t == Reached(o, n)
<1>0. PICK c \in 0..MaxNum : c = LastEqual(o, n)
  BY LastEqualFacts
<1>1. /\ Len(o) \in 0..MaxNum /\ Len(n) \in 0..MaxNum
      /\ DOMAIN o = 1..Len(o) /\ DOMAIN n = 1..Len(n)
      /\ \A i \in 1..Len(o) : o[i] \in Variants
      /\ \A i \in 1..Len(n) : n[i] \in Variants
  BY BuildsTyped
<1>2. t = [i \in 1..Len(n) |-> IF i <= c THEN o[i] ELSE n[i]]
  BY <1>0, <1>1 DEF Reached
<1>3. c <= Len(o) /\ c <= Len(n) /\ (c # 0 => o[c] = n[c])
  BY <1>0, LastEqualFacts
<1> HIDE DEF t
<1>4. t \in [1..Len(n) -> Variants]
  BY <1>1, <1>2, <1>3
<1>5. t \in Builds
  BY <1>1, <1>4 DEF Builds
<1>6. Len(t) = Len(n)
  BY <1>1, <1>4
<1>7. \A i \in 1..c : t[i] = o[i]
  BY <1>1, <1>2, <1>3
<1>8. \A i \in 1..Len(n) : i >= c => t[i] = n[i]
  BY <1>1, <1>2, <1>3
<1> QED BY <1>0, <1>5, <1>6, <1>7, <1>8 DEF t

\* Between builds that extend each other an update reaches the new one.
LEMMA ReachedExtends ==
  ASSUME NEW o \in Builds, NEW n \in Builds,
         Schema(o) \subseteq Schema(n) \/ Schema(n) \subseteq Schema(o)
  PROVE  Reached(o, n) = n
<1> DEFINE t == Reached(o, n)
<1>0. PICK c \in 0..MaxNum : c = LastEqual(o, n)
  BY LastEqualFacts
<1>1. /\ t \in Builds /\ Len(t) = Len(n)
      /\ \A i \in 1..c : t[i] = o[i]
      /\ \A i \in 1..Len(n) : i >= c => t[i] = n[i]
      /\ c <= Len(o) /\ c <= Len(n)
  BY <1>0, ReachedFacts, LastEqualFacts
<1>2. \A i \in 1..Len(o) : i <= Len(n) => o[i] = n[i]
  BY SchemaOrder, BuildsTyped
<1>3. Len(o) \in Nat /\ Len(n) \in Nat
  BY BuildsTyped
<1> HIDE DEF t
<1>4. \A i \in 1..Len(n) : t[i] = n[i]
  BY <1>0, <1>1, <1>2, <1>3
<1>5. t = n
  BY <1>1, <1>4, SameBuild
<1> QED BY <1>5 DEF t

LEMMA ReachedSame == ASSUME NEW o \in Builds PROVE Reached(o, o) = o
BY ReachedExtends

\* A clean update, and only that, leaves the schema of the new build.
LEMMA CleanUpdates ==
  ASSUME NEW o \in Builds, NEW n \in Builds
  PROVE  Updated(o, n) = Schema(n) <=> Clean(o, n)
<1> DEFINE t == Reached(o, n)
<1>0. PICK c \in 0..MaxNum : c = LastEqual(o, n)
  BY LastEqualFacts
<1>1. /\ t \in Builds /\ Len(t) = Len(n)
      /\ \A i \in 1..c : t[i] = o[i]
      /\ \A i \in 1..Len(n) : i >= c => t[i] = n[i]
      /\ c <= Len(o) /\ c <= Len(n)
      /\ c # 0 => o[c] = n[c]
      /\ \A i \in 1..Len(o) : i <= Len(n) /\ o[i] = n[i] => i <= c
  BY <1>0, ReachedFacts, LastEqualFacts
<1>2. /\ Len(o) \in Nat /\ Len(n) \in Nat
      /\ DOMAIN o = 1..Len(o) /\ DOMAIN n = 1..Len(n)
  BY BuildsTyped
<1>3. Updated(o, n) = Schema(t) \cup {s \in Schema(o) \ Schema(t) : s[2] \in NoDown}
  BY DEF Updated, LeftBehind
<1> HIDE DEF t
<1>4. ASSUME Clean(o, n) PROVE Updated(o, n) = Schema(n)
  <2>1. \A i, j \in 1..Len(o) : j <= Len(n) /\ i < j /\ o[j] = n[j] => o[i] = n[i]
    BY <1>2, <1>4 DEF Clean
  <2>2. \A i \in 1..Len(n) : t[i] = n[i]
    BY <1>0, <1>1, <1>2, <2>1
  <2>3. t = n
    BY <1>1, <2>2, SameBuild
  <2>4. \A s \in Schema(o) \ Schema(t) : s[2] \notin NoDown
    BY <1>4, <2>3 DEF Clean
  <2> QED BY <1>3, <2>3, <2>4
<1>5. ASSUME Updated(o, n) = Schema(n) PROVE Clean(o, n)
  <2>1. ASSUME NEW i \in 1..Len(o), NEW j \in 1..Len(o), i <= Len(n), j <= Len(n),
               i < j, o[j] = n[j]
        PROVE  o[i] = n[i]
    <3>1. i \in 1..c
      BY <1>0, <1>1, <1>2, <2>1
    <3>2. i \in 1..Len(t) /\ t[i] = o[i]
      BY <1>1, <1>2, <2>1, <3>1
    <3>3. <<i, o[i]>> \in Schema(n)
      BY <1>1, <1>3, <1>5, <3>2, SchemaMembers
    <3> QED BY <3>3, SchemaMembers
  <2>2. ASSUME NEW s \in Schema(o) \ Schema(n) PROVE s[2] \notin NoDown
    BY <1>3, <1>5
  <2> QED BY <1>2, <2>1, <2>2 DEF Clean
<1> QED BY <1>4, <1>5

-----------------------------------------------------------------------------
(* The invariant.  While the replicas run a single build, or two of which   *)
(* one extends the other and can undo it, there are the older build o and   *)
(* a newer one n, the same throughout a behaviour, and every record of the  *)
(* database is the one of o or of what an update from o to n reaches.       *)

StoredOf(b) == [i \in Nums |-> IF i \in DOMAIN b THEN b[i] ELSE NoScript]
NothingStored == [i \in Nums |-> NoScript]

UpdateOf(o, n) ==
    /\ applied = o
    /\ n # <<>> \/ n = o
    /\ \A r \in Replicas : build[r] \in {o, n} \ {<<>>}
    /\ \/ \A r \in Replicas : build[r] = n
       \/ /\ \E q, r \in Replicas : build[q] # build[r]
          /\ Schema(o) \subseteq Schema(n) \/ Schema(n) \subseteq Schema(o)
          /\ \A s \in Schema(o) \ Schema(n) : s[2] \notin NoDown
          /\ \A s \in Schema(n) \ Schema(o) : s[2] \notin NoDown

\* The database of the older build has not stored its migrations yet.
NeverStored(o, n) ==
    o # <<>> /\ Schema(o) \subseteq Schema(n) /\ stored = NothingStored

\* A database that was on o and on which b is applied.
With(o, b) == Schema(b) \cup {s \in Schema(o) \ Schema(b) : s[2] \in NoDown}

On(o, b) == current = Len(b) /\ effects = With(o, b)

DatabaseIs(o, n, b) ==
    /\ On(o, b)
    /\ stored = StoredOf(b) \/ (b = o /\ NeverStored(o, n))

DatabaseOK(o, n) ==
    /\ tableMade \/ o = <<>>
    /\ \E b \in {o, Reached(o, n)} : DatabaseIs(o, n, b)

\* The plan of a replica that has seen the first migrations of y: the last of them
\* that is its own has the number c.
PlannedFrom(r, y, c) ==
    /\ c <= replica[r].seen /\ replica[r].seen <= Len(y) /\ c <= Len(build[r])
    /\ c # 0 => y[c] = build[r][c]
    /\ \A i \in (c + 1)..replica[r].seen : i <= Len(build[r]) => y[i] # build[r][i]
    /\ replica[r].downs = {<<i, y[i]>> : i \in (c + 1)..replica[r].seen}
    /\ replica[r].ups = (c + 1)..Len(build[r])
    /\ c < replica[r].seen \/ c < Len(build[r])

Planned(r, y) == \E c \in 0..MaxNum : PlannedFrom(r, y, c)

PlanOK(r, o, n) ==
    /\ At(r, "rereading") => o = <<>>
    /\ At(r, "planning") => replica[r].seen \in {Len(o), Len(n)}
    /\ At(r, "storing") => /\ Schema(o) \subseteq Schema(n)
                           /\ replica[r].seen = Len(o)
                           /\ replica[r].ups = (Len(o) + 1)..Len(build[r])
    /\ At(r, "applying") => /\ replica[r].seen \in {Len(o), Len(n)}
                            /\ \E y \in {o, Reached(o, n)} : Planned(r, y)

\* What has been read is the older build's.
FromOlder(r, o) ==
    /\ At(r, "planning") => replica[r].seen = Len(o)
    /\ At(r, "applying") => replica[r].seen = Len(o) /\ Planned(r, o)

\* A single build is in use and has not been reached yet.
Due(o, n) ==
    /\ \A r \in Replicas : build[r] = n
    /\ o # Reached(o, n)
    /\ stored # StoredOf(Reached(o, n))

\* Until the first replica has updated the database, none is ready.
Behind(o, n) ==
    Due(o, n) => \A r \in Replicas : ~At(r, "ready") /\ FromOlder(r, o)

\* Until the migrations are stored nothing is carried out.
Unstored(o) ==
    o # <<>> /\ stored = NothingStored =>
        \A r \in Replicas : ~At(r, "applying") /\ FromOlder(r, o)

InStep(o, n) ==
    /\ UpdateOf(o, n)
    /\ DatabaseOK(o, n)
    /\ \A r \in Replicas : PlanOK(r, o, n)
    /\ Behind(o, n)
    /\ Unstored(o)

\* What a plan of a build b may be: it is within the build, and one that is
\* carried out changes something.
PlanFits(rep, b) ==
    /\ rep.pc = "storing" => rep.seen <= Len(b)
    /\ rep.pc \in {"storing", "applying"} => rep.ups \subseteq 1..Len(b)
    /\ rep.pc = "applying" => rep.downs # {} \/ rep.ups # {}

PlansFit == \A r \in Replicas : PlanFits(replica[r], build[r])

MInv == /\ TypeOK
        /\ PlansFit
        /\ Orderly => \E o \in Builds, n \in Builds : InStep(o, n)

-----------------------------------------------------------------------------
(* Types                                                                    *)

LEMMA ReplicaTyped ==
  ASSUME TypeOK, NEW r \in Replicas
  PROVE  /\ replica[r] \in Replica
         /\ replica[r].seen \in 0..MaxNum
         /\ replica[r].downs \subseteq Scripts
         /\ replica[r].ups \subseteq Nums
         /\ build[r] \in Seq(Variants) /\ Len(build[r]) \in Nums
         /\ \A i \in 1..Len(build[r]) : build[r][i] \in Variants
<1>1. replica[r] \in Replica
  BY DEF TypeOK
<1> QED BY <1>1 DEF TypeOK, Replica

\* The first unchanged migration going down is the highest unchanged one.
LEMMA CommonFacts ==
  ASSUME TypeOK, NEW r \in Replicas
  PROVE  /\ Common(r) \in 0..MaxNum
         /\ Common(r) = 0 \/ Unchanged(r, Common(r))
         /\ \A i \in Nums : Unchanged(r, i) => i <= Common(r)
<1> DEFINE S == {0} \cup {i \in Nums : Unchanged(r, i)}
<1>1. S \subseteq 0..MaxNum /\ S # {}
  BY DEF Nums
<1>2. Max(S) \in S /\ \A y \in S : Max(S) >= y
  BY <1>1, MaxExists
<1>3. Common(r) = Max(S)
  BY DEF Common
<1> HIDE DEF S
<1>4. Common(r) \in S /\ \A y \in S : Common(r) >= y
  BY <1>2, <1>3
<1> QED BY <1>1, <1>4 DEF S

LEMMA AboveTyped ==
  ASSUME TypeOK, NEW r \in Replicas, NEW m \in 0..MaxNum
  PROVE  Above(r, m) \subseteq Nums /\ Above(r, m) = (Common(r) + 1)..m
<1>1. Common(r) \in 0..MaxNum
  BY CommonFacts
<1> QED BY <1>1 DEF Above, Nums

LEMMA LatestTyped ==
  ASSUME NEW downs, downs \subseteq Scripts, NEW ups, ups \subseteq Nums,
         downs # {} \/ ups # {}
  PROVE  Latest(downs, ups) \in 0..MaxNum
<1>1. CASE ups # {}
  <2>1. ups \subseteq 0..MaxNum
    BY DEF Nums
  <2>2. Max(ups) \in ups
    BY <1>1, <2>1, MaxExists
  <2>3. Latest(downs, ups) = Max(ups)
    BY <1>1 DEF Latest
  <2> QED BY <2>1, <2>2, <2>3
<1>2. CASE ups = {}
  <2> DEFINE S == {s[1] : s \in downs}
  <2>1. S \subseteq 0..MaxNum /\ S \subseteq Nums /\ S # {}
    BY <1>2 DEF Scripts, Nums
  <2>2. Min(S) \in S
    BY <2>1, MinExists
  <2>3. Latest(downs, ups) = Min(S) - 1
    BY <1>2 DEF Latest
  <2>4. PICK x \in Nums : Latest(downs, ups) = x - 1
    BY <2>1, <2>2, <2>3
  <2> HIDE DEF S
  <2> QED BY ONLY <2>4, BoundsAssumption DEF Nums
<1> QED BY <1>1, <1>2

LEMMA MovesTo ==
  ASSUME TypeOK, NEW r \in Replicas, NEW rep \in Replica,
         replica' = [replica EXCEPT ![r] = rep]
  PROVE  /\ replica' \in [Replicas -> Replica]
         /\ replica'[r] = rep
         /\ \A q \in Replicas \ {r} : replica'[q] = replica[q]
BY DEF TypeOK

LEMMA StartingTyped == Starting \in Replica
BY DEF Starting, Replica

\* A step of one replica.
LEMMA TypedStep ==
  ASSUME TypeOK, PlansFit, NEW r \in Replicas, NEW rep \in Replica,
         replica' = [replica EXCEPT ![r] = rep], PlanFits(rep, build[r]),
         UNCHANGED builds, tableMade' \in BOOLEAN, current' \in 0..MaxNum,
         stored' \in [Nums -> Variants \cup {NoScript}], effects' \in SUBSET Scripts,
         faults' \in 0..MaxFaults
  PROVE  TypeOK' /\ PlansFit'
<1>1. /\ replica' \in [Replicas -> Replica]
      /\ replica'[r] = rep
      /\ \A q \in Replicas \ {r} : replica'[q] = replica[q]
  BY MovesTo
<1>2. TypeOK'
  BY <1>1 DEF TypeOK
<1>3. ASSUME NEW q \in Replicas PROVE PlanFits(replica'[q], build'[q])
  BY <1>1 DEF PlansFit
<1> QED BY <1>2, <1>3 DEF PlansFit

LEMMA TypesKept ==
  ASSUME TypeOK, PlansFit, [Next]_vars
  PROVE  TypeOK' /\ PlansFit'
<1>1. CASE UNCHANGED vars
  BY <1>1 DEF TypeOK, PlansFit, vars, dbVars
<1> USE DEF Becomes, Restarts
<1>0. \A b : PlanFits(Starting, b)
  BY DEF PlanFits, Starting
<1>2. ASSUME NEW r \in Replicas, ReadCurrent(r) PROVE TypeOK' /\ PlansFit'
  <2> DEFINE rep == IF tableMade
                    THEN [pc |-> "planning", seen |-> current, downs |-> {}, ups |-> {}]
                    ELSE [pc |-> "rereading", seen |-> 0, downs |-> {}, ups |-> {}]
  <2>1. rep \in Replica /\ PlanFits(rep, build[r])
    BY DEF TypeOK, Replica, PlanFits
  <2>2. replica' = [replica EXCEPT ![r] = rep]
    BY <1>2 DEF ReadCurrent
  <2> HIDE DEF rep
  <2> QED BY <1>2, <2>1, <2>2, TypedStep DEF ReadCurrent, TypeOK
<1>3. ASSUME NEW r \in Replicas, RereadCurrent(r) PROVE TypeOK' /\ PlansFit'
  <2> DEFINE rep == [pc |-> IF current = 0 THEN "planning" ELSE "ready",
                     seen |-> 0, downs |-> {}, ups |-> {}]
  <2>1. rep \in Replica /\ PlanFits(rep, build[r])
    BY DEF Replica, PlanFits
  <2>2. replica' = [replica EXCEPT ![r] = rep]
    BY <1>3 DEF RereadCurrent
  <2> HIDE DEF rep
  <2> QED BY <1>3, <2>1, <2>2, TypedStep DEF RereadCurrent, TypeOK, dbVars
<1>4. ASSUME NEW r \in Replicas, PlanRequired(r) PROVE TypeOK' /\ PlansFit'
  <2> DEFINE seen == replica[r].seen
             downs == {<<i, stored[i]>> : i \in Above(r, seen)}
             ups == Above(r, Len(build[r]))
  <2>1. seen \in 0..MaxNum /\ Len(build[r]) \in 0..MaxNum
    BY ReplicaTyped DEF Nums
  <2>2. Above(r, seen) \subseteq Nums /\ ups \subseteq Nums
    BY <2>1, AboveTyped
  <2>5. ups \subseteq 1..Len(build[r])
    BY <2>1, <2>2 DEF Above, Nums
  <2>3. CASE /\ Above(r, seen) \subseteq StoredNums
             /\ Becomes(r, IF downs = {} /\ ups = {} THEN "ready" ELSE "applying",
                        seen, downs, ups)
    <3>1. \A i \in Above(r, seen) : <<i, stored[i]>> \in Scripts
      BY <2>2, <2>3 DEF StoredNums, Scripts, TypeOK
    <3>2. downs \subseteq Scripts
      BY <3>1
    <3> DEFINE rep == [pc |-> IF downs = {} /\ ups = {} THEN "ready" ELSE "applying",
                       seen |-> seen, downs |-> downs, ups |-> ups]
    <3>3. replica' = [replica EXCEPT ![r] = rep]
      BY <2>3
    <3> HIDE DEF seen, downs, ups
    <3>4. rep \in Replica /\ PlanFits(rep, build[r])
      BY <2>1, <2>2, <3>2, <2>5 DEF Replica, PlanFits
    <3> HIDE DEF rep
    <3> QED BY <1>4, <3>3, <3>4, TypedStep DEF PlanRequired, TypeOK, dbVars
  <2>4. CASE Becomes(r, "ready", 0, {}, {})
    <3> DEFINE rep == [pc |-> "ready", seen |-> 0, downs |-> {}, ups |-> {}]
    <3>1. rep \in Replica /\ PlanFits(rep, build[r])
      BY DEF Replica, PlanFits
    <3> QED BY <1>4, <2>4, <3>1, TypedStep DEF PlanRequired, TypeOK, dbVars
  <2>6. CASE Restarts(r)
    BY <1>0, <1>4, <2>6, StartingTyped, TypedStep DEF PlanRequired, TypeOK, dbVars
  <2> QED BY <1>4, <2>3, <2>4, <2>6 DEF PlanRequired
<1>5. ASSUME NEW r \in Replicas, PlanFirst(r) PROVE TypeOK' /\ PlansFit'
  <2> DEFINE seen == replica[r].seen
             rep == [pc |-> "storing", seen |-> seen, downs |-> {},
                     ups |-> {i \in Nums : seen < i /\ i <= Len(build[r])}]
  <2>1. CASE Restarts(r)
    BY <1>0, <1>5, <2>1, StartingTyped, TypedStep DEF PlanFirst, TypeOK, dbVars
  <2>2. CASE ~(Len(build[r]) < seen) /\ replica' = [replica EXCEPT ![r] = rep]
    <3>1. rep \in Replica /\ PlanFits(rep, build[r])
      BY <2>2, ReplicaTyped DEF Replica, PlanFits, Nums
    <3> HIDE DEF rep
    <3> QED BY <1>5, <2>2, <3>1, TypedStep DEF PlanFirst, TypeOK, dbVars
  <2> QED BY <1>5, <2>1, <2>2 DEF PlanFirst
<1>6. ASSUME NEW r \in Replicas, StoreAlreadyApplied(r) PROVE TypeOK' /\ PlansFit'
  <2> DEFINE rep == [pc |-> IF replica[r].ups = {} THEN "ready" ELSE "applying",
                     seen |-> replica[r].seen, downs |-> {}, ups |-> replica[r].ups]
  <2>0. replica[r].seen <= Len(build[r]) /\ replica[r].ups \subseteq 1..Len(build[r])
    BY <1>6 DEF StoreAlreadyApplied, At, PlansFit, PlanFits
  <2>1. rep \in Replica /\ PlanFits(rep, build[r])
    BY <2>0, ReplicaTyped DEF Replica, PlanFits
  <2>2. replica' = [replica EXCEPT ![r] = rep]
    BY <1>6 DEF StoreAlreadyApplied
  <2>3. ASSUME NEW i \in Nums
        PROVE  (IF i <= replica[r].seen /\ stored[i] = NoScript THEN build[r][i]
                ELSE stored[i]) \in Variants \cup {NoScript}
    <3>1. CASE i <= replica[r].seen /\ stored[i] = NoScript
      <4>1. i \in 1..Len(build[r])
        BY <2>0, <3>1, ReplicaTyped DEF Nums
      <4> QED BY <3>1, <4>1, ReplicaTyped
    <3>2. CASE ~(i <= replica[r].seen /\ stored[i] = NoScript)
      BY <3>2 DEF TypeOK
    <3> QED BY <3>1, <3>2
  <2>4. stored' \in [Nums -> Variants \cup {NoScript}]
    BY <1>6, <2>3 DEF StoreAlreadyApplied
  <2> HIDE DEF rep
  <2> QED BY <1>6, <2>1, <2>2, <2>4, TypedStep DEF StoreAlreadyApplied, TypeOK
<1>7. ASSUME NEW r \in Replicas, ApplyRequired(r) PROVE TypeOK' /\ PlansFit'
  <2> DEFINE downs == replica[r].downs
             ups == replica[r].ups
             rep == [pc |-> "ready", seen |-> 0, downs |-> {}, ups |-> {}]
  <2>0. /\ downs \subseteq Scripts /\ ups \subseteq Nums /\ ups \subseteq 1..Len(build[r])
        /\ downs # {} \/ ups # {}
    BY <1>7, ReplicaTyped DEF ApplyRequired, At, PlansFit, PlanFits
  <2>1. CASE Restarts(r) /\ UNCHANGED <<current, stored, effects>>
    BY <1>0, <1>7, <2>1, StartingTyped, TypedStep DEF ApplyRequired, TypeOK
  <2>2. CASE /\ effects' = (effects \ Executed(downs)) \cup {Local(r, i) : i \in ups}
             /\ stored' = RowsAfter(r, downs, ups)
             /\ current' = Latest(downs, ups)
             /\ replica' = [replica EXCEPT ![r] = rep]
    <3>1. rep \in Replica /\ PlanFits(rep, build[r])
      BY DEF Replica, PlanFits
    <3>2. \A i \in ups : Local(r, i) \in Scripts
      BY <2>0, ReplicaTyped DEF Local, Scripts
    <3>3. effects' \in SUBSET Scripts
      BY <2>2, <3>2 DEF TypeOK
    <3>4. current' \in 0..MaxNum
      BY <2>0, <2>2, LatestTyped
    <3>5. stored' \in [Nums -> Variants \cup {NoScript}]
      <4>1. \A i \in ups : build[r][i] \in Variants
        BY <2>0, ReplicaTyped
      <4> QED BY <2>2, <4>1 DEF RowsAfter, TypeOK
    <3> HIDE DEF rep
    <3> QED BY <1>7, <2>2, <3>1, <3>3, <3>4, <3>5, TypedStep DEF ApplyRequired, TypeOK
  <2> QED BY <1>7, <2>1, <2>2 DEF ApplyRequired
<1>8. ASSUME NEW r \in Replicas, Crash(r) PROVE TypeOK' /\ PlansFit'
  <2>1. faults' \in 0..MaxFaults
    BY <1>8 DEF Crash, TypeOK
  <2> QED BY <1>0, <1>8, <2>1, StartingTyped, TypedStep DEF Crash, TypeOK, dbVars
<1> QED BY <1>1, <1>2, <1>3, <1>4, <1>5, <1>6, <1>7, <1>8 DEF Next, Migrate

LEMMA TypesAtStart == Init => TypeOK /\ PlansFit
<1> SUFFICES ASSUME NEW old \in Builds, NEW new \in Builds, applied = old,
                    build \in [Replicas -> {old, new} \ {<<>>}],
                    current = Len(old), effects = Schema(old),
                    \/ stored = [i \in Nums |-> IF i \in DOMAIN old THEN old[i] ELSE NoScript]
                    \/ stored = [i \in Nums |-> NoScript],
                    tableMade \in BOOLEAN,
                    replica = [r \in Replicas |-> Starting], faults = 0
             PROVE  TypeOK /\ PlansFit
  BY DEF Init
<1>1. ASSUME NEW b \in Builds, b # <<>> PROVE b \in Seq(Variants) /\ Len(b) \in Nums
  BY <1>1, BuildsTyped DEF Nums
<1>2. \A s \in Schema(old) : s \in Scripts
  BY BuildsTyped DEF Schema, Scripts, Nums
<1>3. stored \in [Nums -> Variants \cup {NoScript}]
  BY BuildsTyped
<1>4. TypeOK
  BY <1>1, <1>2, <1>3, BuildsTyped, StartingTyped DEF TypeOK
<1>5. PlansFit
  BY DEF PlansFit, PlanFits, Starting
<1> QED BY <1>4, <1>5

-----------------------------------------------------------------------------
(* The records stay in step                                                 *)

LEMMA BuildFacts ==
  ASSUME NEW o \in Builds, NEW n \in Builds, UpdateOf(o, n), NEW r \in Replicas
  PROVE  build[r] \in Builds /\ build[r] \in {o, n} /\ Len(build[r]) \in Nums
<1>1. build[r] \in {o, n} /\ build[r] # <<>>
  BY DEF UpdateOf
<1>2. build[r] \in Builds
  BY <1>1
<1>3. Len(build[r]) # 0
  BY <1>1, <1>2, BuildsTyped
<1> QED BY <1>1, <1>2, <1>3, BuildsTyped DEF Nums

\* A build that the database may be on.
LEMMA BasisFacts ==
  ASSUME NEW o \in Builds, NEW n \in Builds, UpdateOf(o, n)
  PROVE  /\ Reached(o, n) \in Builds
         /\ Len(Reached(o, n)) = Len(n)
         /\ Len(n) \in 0..MaxNum /\ Len(o) \in 0..MaxNum
         /\ With(o, o) = Schema(o)
         /\ With(o, Reached(o, n)) = Updated(o, n)
         /\ Schema(o) \subseteq Schema(n) => Reached(o, n) = n
BY ReachedFacts, ReachedExtends, BuildsTyped DEF With, Updated, LeftBehind

\* Builds are known by the rows they are stored in.
LEMMA StoredInjective ==
  ASSUME NEW a \in Builds, NEW b \in Builds, StoredOf(a) = StoredOf(b)
  PROVE  a = b
<1>1. /\ Len(a) \in 0..MaxNum /\ Len(b) \in 0..MaxNum
      /\ DOMAIN a = 1..Len(a) /\ DOMAIN b = 1..Len(b)
      /\ \A i \in 1..Len(a) : a[i] \in Variants
      /\ \A i \in 1..Len(b) : b[i] \in Variants
  BY BuildsTyped
<1>2. \A i \in Nums : (IF i \in DOMAIN a THEN a[i] ELSE NoScript)
                        = (IF i \in DOMAIN b THEN b[i] ELSE NoScript)
  <2>1. \A i \in Nums : StoredOf(a)[i] = StoredOf(b)[i]
    OBVIOUS
  <2> QED BY <2>1 DEF StoredOf
<1>3. \A i \in 1..Len(a) : i \in 1..Len(b) /\ a[i] = b[i]
  BY <1>1, <1>2 DEF Nums
<1>4. \A i \in 1..Len(b) : i \in 1..Len(a)
  BY <1>1, <1>2 DEF Nums
<1>5. Len(a) = Len(b)
  <2>1. ASSUME NEW j \in Nat, NEW k \in Nat,
               \A i \in 1..j : i \in 1..k, \A i \in 1..k : i \in 1..j
        PROVE  j = k
    <3>1. (j = 0 \/ j \in 1..k) /\ (k = 0 \/ k \in 1..j)
      BY <2>1
    <3> QED BY <2>1, <3>1
  <2>2. Len(a) \in Nat /\ Len(b) \in Nat
    BY <1>1
  <2> QED BY <1>3, <1>4, <2>1, <2>2
<1> QED BY <1>3, <1>5, SameBuild

\* The database is known by its effects, and by its rows once they are stored.
LEMMA StoredFacts ==
  ASSUME NEW b \in Builds, stored = StoredOf(b)
  PROVE  /\ StoredNums = 1..Len(b)
         /\ \A i \in 1..Len(b) : stored[i] = b[i]
         /\ \A i \in Nums : stored[i] # NoScript => i \in 1..Len(b)
         /\ stored = NothingStored => b = <<>>
<1>1. /\ Len(b) \in 0..MaxNum /\ DOMAIN b = 1..Len(b)
      /\ \A i \in 1..Len(b) : b[i] \in Variants
      /\ b \in Seq(Variants)
  BY BuildsTyped
<1>2. \A i \in Nums : stored[i] = IF i \in 1..Len(b) THEN b[i] ELSE NoScript
  BY <1>1 DEF StoredOf
<1>3. 1..Len(b) \subseteq Nums
  BY <1>1 DEF Nums
<1>4. StoredNums = 1..Len(b)
  BY <1>1, <1>2, <1>3 DEF StoredNums
<1>5. stored = NothingStored => Len(b) = 0
  <2> SUFFICES ASSUME stored = NothingStored, Len(b) # 0 PROVE FALSE
    OBVIOUS
  <2>1. 1 \in 1..Len(b) /\ 1 \in Nums
    BY <1>1 DEF Nums
  <2> QED BY <1>1, <1>2, <2>1 DEF NothingStored
<1> QED BY <1>1, <1>2, <1>3, <1>4, <1>5

LEMMA InStepAtStart ==
  ASSUME Init, Orderly
  PROVE  \E o \in Builds, n \in Builds : InStep(o, n)
<1>1. PICK old \in Builds, new \in Builds :
         /\ applied = old
         /\ build \in [Replicas -> {old, new} \ {<<>>}]
         /\ current = Len(old)
         /\ effects = Schema(old)
         /\ \/ stored = StoredOf(old)
            \/ /\ Schema(old) \subseteq Schema(new)
               /\ stored = NothingStored
         /\ tableMade \in IF old = <<>> THEN BOOLEAN ELSE {TRUE}
         /\ replica = [r \in Replicas |-> Starting]
  BY DEF Init, StoredOf, NothingStored
<1>2. PICK new2 \in {old, new} :
         /\ Schema(old) \subseteq Schema(new) => Schema(old) \subseteq Schema(new2)
         /\ UpdateOf(old, new2)
  <2>1. CASE \A r \in Replicas : build[r] = old
    <3>1. \A r \in Replicas : build[r] \in {old} \ {<<>>}
      BY <1>1, <2>1
    <3>2. UpdateOf(old, old)
      BY <1>1, <2>1, <3>1 DEF UpdateOf
    <3> QED BY <3>2
  <2>2. CASE /\ \A r \in Replicas : build[r] = new
             /\ \E r \in Replicas : build[r] # old
    <3>1. UpdateOf(old, new)
      BY <1>1, <2>2 DEF UpdateOf
    <3> QED BY <3>1
  <2>3. CASE \E q, r \in Replicas : build[q] = old /\ build[r] = new /\ old # new
    <3>1. UpdateOf(old, new)
      BY <1>1, <2>3 DEF UpdateOf, Orderly, Extends, Undoable
    <3> QED BY <3>1
  <2> QED BY <1>1, <2>1, <2>2, <2>3
<1>3. stored = StoredOf(old) \/ NeverStored(old, new2)
  <2>1. CASE old = <<>>
    <3>1. DOMAIN old = {}
      BY <2>1
    <3> QED BY <1>1, <3>1 DEF StoredOf, NothingStored
  <2> QED BY <1>1, <1>2, <2>1 DEF NeverStored
<1>4. DatabaseOK(old, new2)
  BY <1>1, <1>3 DEF DatabaseOK, DatabaseIs, On, With
<1>5. \A r \in Replicas : replica[r].pc = "reading"
  BY <1>1 DEF Starting
<1>6. InStep(old, new2)
  BY <1>2, <1>4, <1>5 DEF InStep, PlanOK, Behind, Unstored, FromOlder, At
<1> QED BY <1>2, <1>6

LEMMA OthersKeep ==
  ASSUME UNCHANGED builds, NEW q, replica'[q] = replica[q], NEW o, NEW n
  PROVE  /\ PlanOK(q, o, n) => PlanOK(q, o, n)'
         /\ FromOlder(q, o) => FromOlder(q, o)'
         /\ \A pc : At(q, pc) <=> At(q, pc)'
<1>1. \A y : Planned(q, y) <=> Planned(q, y)'
  BY DEF Planned, PlannedFrom
<1>2. \A pc : At(q, pc) <=> At(q, pc)'
  BY DEF At
<1> QED BY <1>1, <1>2 DEF PlanOK, FromOlder

\* What a step of one replica has to show.
LEMMA InStepStep ==
  ASSUME NEW o \in Builds, NEW n \in Builds, InStep(o, n),
         NEW r \in Replicas, UNCHANGED builds,
         \A q \in Replicas \ {r} : replica'[q] = replica[q],
         DatabaseOK(o, n)',
         PlanOK(r, o, n)',
         Due(o, n)' => Due(o, n) /\ ~At(r, "ready")' /\ FromOlder(r, o)',
         o # <<>> /\ stored' = NothingStored =>
             stored = NothingStored /\ ~At(r, "applying")' /\ FromOlder(r, o)'
  PROVE  InStep(o, n)'
<1>1. UpdateOf(o, n)'
  BY DEF InStep, UpdateOf
<1>2. ASSUME NEW q \in Replicas PROVE PlanOK(q, o, n)'
  BY OthersKeep DEF InStep
<1>3. Behind(o, n)'
  <2> SUFFICES ASSUME Due(o, n)', NEW q \in Replicas
               PROVE  ~At(q, "ready")' /\ FromOlder(q, o)'
    BY DEF Behind
  <2> QED BY OthersKeep DEF InStep, Behind
<1>4. Unstored(o)'
  <2> SUFFICES ASSUME o # <<>>, stored' = NothingStored, NEW q \in Replicas
               PROVE  ~At(q, "applying")' /\ FromOlder(q, o)'
    BY DEF Unstored, NothingStored
  <2> QED BY OthersKeep DEF InStep, Unstored
<1> QED BY <1>1, <1>2, <1>3, <1>4 DEF InStep

\* The database, and with it what is due, changes only with its own variables.
LEMMA DatabaseKeeps ==
  ASSUME NEW o, NEW n, UNCHANGED <<builds, current, stored, effects>>,
         tableMade => tableMade'
  PROVE  /\ DatabaseOK(o, n) => DatabaseOK(o, n)'
         /\ Due(o, n) <=> Due(o, n)'
<1>1. \A b : DatabaseIs(o, n, b) <=> DatabaseIs(o, n, b)'
  BY DEF DatabaseIs, On, With, NeverStored, NothingStored, StoredOf
<1> QED BY <1>1 DEF DatabaseOK, Due, StoredOf

\* A replica that starts again holds nothing.
LEMMA RestartInStep ==
  ASSUME TypeOK, NEW o \in Builds, NEW n \in Builds, InStep(o, n),
         NEW r \in Replicas, Restarts(r), UNCHANGED <<builds, dbVars>>
  PROVE  InStep(o, n)'
<1>1. /\ replica'[r] = Starting
      /\ \A q \in Replicas \ {r} : replica'[q] = replica[q]
  BY StartingTyped, MovesTo DEF Restarts
<1>2. DatabaseOK(o, n)' /\ (Due(o, n) <=> Due(o, n)')
  BY DatabaseKeeps DEF InStep, dbVars
<1>3. PlanOK(r, o, n)' /\ ~At(r, "ready")' /\ ~At(r, "applying")' /\ FromOlder(r, o)'
  BY <1>1 DEF PlanOK, FromOlder, At, Starting
<1> QED BY <1>1, <1>2, <1>3, InStepStep DEF dbVars

\* Until it has been updated the database is on the older build, as it is until its
\* migrations are stored.
LEMMA OlderDatabase ==
  ASSUME NEW o \in Builds, NEW n \in Builds, InStep(o, n), NEW r \in Replicas,
         NEW b \in {o, Reached(o, n)}, DatabaseIs(o, n, b),
         Due(o, n) \/ stored = NothingStored
  PROVE  b = o
<1>1. n # <<>> /\ Len(n) # 0
  BY BuildsTyped DEF InStep, UpdateOf
<1>2. Reached(o, n) \in Builds /\ Len(Reached(o, n)) = Len(n)
  BY BasisFacts DEF InStep
<1>3. CASE Due(o, n)
  BY <1>3 DEF Due, DatabaseIs
<1>4. CASE stored = NothingStored
  <2> SUFFICES ASSUME b # o PROVE FALSE
    OBVIOUS
  <2>1. stored = StoredOf(b) /\ b = Reached(o, n)
    BY DEF DatabaseIs
  <2>2. b = <<>>
    BY <1>2, <1>4, <2>1, StoredFacts
  <2> QED BY <1>1, <1>2, <2>1, <2>2
<1> QED BY <1>3, <1>4

LEMMA ReadInStep ==
  ASSUME TypeOK, NEW o \in Builds, NEW n \in Builds, InStep(o, n),
         NEW r \in Replicas, ReadCurrent(r)
  PROVE  InStep(o, n)'
<1> DEFINE rep == IF tableMade
                  THEN [pc |-> "planning", seen |-> current, downs |-> {}, ups |-> {}]
                  ELSE [pc |-> "rereading", seen |-> 0, downs |-> {}, ups |-> {}]
<1>1. rep \in Replica
  BY DEF TypeOK, Replica
<1>2. replica' = [replica EXCEPT ![r] = rep]
  BY DEF ReadCurrent, Becomes
<1>3. replica'[r] = rep /\ \A q \in Replicas \ {r} : replica'[q] = replica[q]
  <2> HIDE DEF rep
  <2> QED BY <1>1, <1>2, MovesTo
<1>4. /\ UNCHANGED <<builds, current, stored, effects>>
      /\ tableMade' = TRUE
  BY DEF ReadCurrent
<1>5. PICK b \in {o, Reached(o, n)} : DatabaseIs(o, n, b)
  BY DEF InStep, DatabaseOK
<1>6. DatabaseOK(o, n)' /\ (Due(o, n) <=> Due(o, n)')
  BY <1>4, DatabaseKeeps DEF InStep
<1>7. PlanOK(r, o, n)'
  <2>1. current \in {Len(o), Len(n)}
    BY <1>5, BasisFacts DEF DatabaseIs, On, InStep
  <2> QED BY <1>3, <2>1 DEF PlanOK, At, InStep, DatabaseOK
<1>8. ~At(r, "ready")' /\ ~At(r, "applying")'
  BY <1>3 DEF At
<1>9. Due(o, n) \/ stored = NothingStored => FromOlder(r, o)'
  <2> SUFFICES ASSUME Due(o, n) \/ stored = NothingStored PROVE current = Len(o)
    BY <1>3, <1>8 DEF FromOlder, At
  <2>1. b = o
    BY <1>5, OlderDatabase
  <2> QED BY <1>5, <2>1 DEF DatabaseIs, On
<1> QED BY <1>3, <1>4, <1>6, <1>7, <1>8, <1>9, InStepStep

LEMMA RereadInStep ==
  ASSUME TypeOK, NEW o \in Builds, NEW n \in Builds, InStep(o, n),
         NEW r \in Replicas, RereadCurrent(r)
  PROVE  InStep(o, n)'
<1> DEFINE rep == [pc |-> IF current = 0 THEN "planning" ELSE "ready",
                   seen |-> 0, downs |-> {}, ups |-> {}]
<1>1. rep \in Replica
  BY DEF Replica
<1>2. replica' = [replica EXCEPT ![r] = rep]
  BY DEF RereadCurrent, Becomes
<1>3. replica'[r] = rep /\ \A q \in Replicas \ {r} : replica'[q] = replica[q]
  <2> HIDE DEF rep
  <2> QED BY <1>1, <1>2, MovesTo
<1>4. UNCHANGED builds /\ UNCHANGED dbVars
  BY DEF RereadCurrent
<1>5. o = <<>> /\ Len(o) = 0
  BY DEF RereadCurrent, InStep, PlanOK
<1>6. DatabaseOK(o, n)' /\ (Due(o, n) <=> Due(o, n)')
  BY <1>4, DatabaseKeeps DEF InStep, dbVars
<1>7. PlanOK(r, o, n)'
  BY <1>3, <1>5 DEF PlanOK, At
<1>8. ~At(r, "applying")' /\ FromOlder(r, o)'
  BY <1>3, <1>5 DEF FromOlder, At
<1>9. Due(o, n) => ~At(r, "ready")'
  <2> SUFFICES ASSUME Due(o, n) PROVE current = 0
    BY <1>3 DEF At
  <2>1. PICK b \in {o, Reached(o, n)} : DatabaseIs(o, n, b)
    BY DEF InStep, DatabaseOK
  <2>2. b = o
    BY <2>1, OlderDatabase
  <2> QED BY <1>5, <2>1, <2>2 DEF DatabaseIs, On
<1>10. stored' = stored
  BY <1>4 DEF dbVars
<1> QED BY <1>3, <1>4, <1>6, <1>7, <1>8, <1>9, <1>10, InStepStep

\* When the last migrations of both are equal, nothing is changed.
LEMMA ReachedAll ==
  ASSUME NEW o \in Builds, NEW n \in Builds, NEW c \in Nat,
         Len(o) = c, Len(n) = c, c # 0, o[c] = n[c]
  PROVE  Reached(o, n) = o
<1> DEFINE t == Reached(o, n)
<1>1. LastEqual(o, n) = c
  BY LastEqualFacts
<1>2. t \in Builds /\ Len(t) = c /\ \A i \in 1..c : t[i] = o[i]
  BY <1>1, ReachedFacts
<1> QED BY <1>2, SameBuild

\* What is stored is the database's own build, and a replica may plan on it.
LEMMA PlanInStep ==
  ASSUME TypeOK, NEW o \in Builds, NEW n \in Builds, InStep(o, n),
         NEW r \in Replicas, PlanRequired(r)
  PROVE  InStep(o, n)'
<1> DEFINE seen == replica[r].seen
           downs == {<<i, stored[i]>> : i \in Above(r, seen)}
           ups == Above(r, Len(build[r]))
           beta == build[r]
<1>0. PICK c \in 0..MaxNum : c = Common(r)
  BY CommonFacts
<1>1. UNCHANGED builds /\ UNCHANGED dbVars
  BY DEF PlanRequired
<1>2. PICK b \in {o, Reached(o, n)} : DatabaseIs(o, n, b)
  BY DEF InStep, DatabaseOK
<1>3. stored # NothingStored
  BY DEF PlanRequired, StoredNums, NothingStored
<1>4. stored = StoredOf(b) /\ b \in Builds
  BY <1>2, <1>3, BasisFacts DEF InStep, DatabaseIs, NeverStored
<1>5. b # <<>> /\ Len(b) > 0
  <2>1. b # <<>>
    <3> SUFFICES ASSUME b = <<>> PROVE FALSE
      OBVIOUS
    <3>1. StoredOf(b) = NothingStored
      BY DEF StoredOf, NothingStored
    <3> QED BY <1>3, <1>4, <3>1
  <2> QED BY <2>1, <1>4, BuildsTyped
<1>6. Due(o, n) => b = o
  BY <1>2, OlderDatabase
<1>7. DatabaseOK(o, n)' /\ (Due(o, n) <=> Due(o, n)')
  BY <1>1, DatabaseKeeps DEF InStep, dbVars
<1>8. stored' = stored
  BY <1>1 DEF dbVars
<1>9. seen \in {Len(o), Len(n)} /\ seen \in 0..MaxNum
  BY ReplicaTyped DEF PlanRequired, InStep, PlanOK
<1>10. beta \in {o, n} /\ beta \in Builds /\ Len(beta) \in Nums
  BY BuildFacts DEF InStep
<1>11. ASSUME Due(o, n)
       PROVE  b = o /\ seen = Len(o) /\ beta = n /\ Len(o) > 0
  <2>1. FromOlder(r, o) /\ At(r, "planning")
    BY <1>11 DEF InStep, Behind, PlanRequired
  <2> QED BY <1>5, <1>6, <1>11, <2>1 DEF FromOlder, Due
<1>12. CASE Restarts(r)
  BY <1>1, <1>12, RestartInStep
<1>13. CASE seen = 0 /\ Becomes(r, "ready", 0, {}, {})
  <2> DEFINE rep == [pc |-> "ready", seen |-> 0, downs |-> {}, ups |-> {}]
  <2>1. rep \in Replica /\ replica' = [replica EXCEPT ![r] = rep]
    BY <1>13 DEF Replica, Becomes
  <2>2. replica'[r] = rep /\ \A q \in Replicas \ {r} : replica'[q] = replica[q]
    <3> HIDE DEF rep
    <3> QED BY <2>1, MovesTo
  <2>3. PlanOK(r, o, n)' /\ ~At(r, "applying")' /\ FromOlder(r, o)'
    BY <2>2 DEF PlanOK, FromOlder, At
  <2> QED BY <1>1, <1>3, <1>7, <1>8, <1>11, <1>13, <2>2, <2>3, InStepStep
<1>14. CASE /\ Above(r, seen) \subseteq StoredNums
            /\ Becomes(r, IF downs = {} /\ ups = {} THEN "ready" ELSE "applying",
                       seen, downs, ups)
  <2>1. /\ StoredNums = 1..Len(b)
        /\ \A i \in 1..Len(b) : stored[i] = b[i]
        /\ \A i \in Nums : stored[i] # NoScript => i \in 1..Len(b)
    BY <1>4, StoredFacts
  <2>2. Len(b) \in 0..MaxNum /\ Len(beta) \in 0..MaxNum /\ Len(beta) \in Nat /\ Len(b) \in Nat
    BY <1>4, <1>10, BuildsTyped DEF Nums
  <2>3. /\ c \in 0..MaxNum /\ c \in Nat
        /\ c = 0 \/ Unchanged(r, c)
        /\ \A i \in Nums : Unchanged(r, i) => i <= c
    BY <1>0, CommonFacts
  <2>4. Above(r, seen) = (c + 1)..seen /\ ups = (c + 1)..Len(beta)
    BY <1>0, <1>9, <2>2, AboveTyped
  <2>5. c # 0 => /\ c <= seen /\ c \in 1..Len(beta) /\ c \in 1..Len(b)
                 /\ b[c] = beta[c]
    <3> SUFFICES ASSUME c # 0
                 PROVE  c <= seen /\ c \in 1..Len(beta) /\ c \in 1..Len(b) /\ b[c] = beta[c]
      OBVIOUS
    <3>1. c <= seen /\ c <= Len(beta) /\ stored[c] = beta[c]
      BY <2>3 DEF Unchanged
    <3>2. c \in 1..Len(beta)
      BY <2>2, <2>3, <3>1
    <3>3. beta[c] \in Variants
      BY <3>2, ReplicaTyped
    <3>4. c \in Nums /\ stored[c] # NoScript
      BY <2>3, <3>1, <3>3 DEF Nums
    <3> QED BY <2>1, <3>1, <3>2, <3>4
  <2>6. c <= seen /\ c <= Len(beta) /\ c <= Len(b)
    BY <1>9, <2>2, <2>3, <2>5
  <2>8. seen <= Len(b)
    <3>1. CASE seen = c
      BY <2>6, <3>1
    <3>2. CASE seen # c
      <4>1. seen \in (c + 1)..seen
        BY <1>9, <2>3, <2>6, <3>2
      <4> QED BY <1>14, <2>1, <2>4, <4>1
    <3> QED BY <3>1, <3>2
  <2>9. ASSUME NEW i \in (c + 1)..seen
        PROVE  stored[i] = b[i] /\ (i <= Len(beta) => b[i] # beta[i])
    <3>1. i \in 1..Len(b) /\ i \in Nums /\ ~(i <= c) /\ i <= seen
      BY <1>9, <2>2, <2>3, <2>8 DEF Nums
    <3>2. ~Unchanged(r, i)
      BY <2>3, <3>1
    <3> QED BY <2>1, <3>1, <3>2 DEF Unchanged
  <2>10. downs = {<<i, b[i]>> : i \in (c + 1)..seen}
    BY <2>4, <2>9
  <2> DEFINE rep == [pc |-> IF downs = {} /\ ups = {} THEN "ready" ELSE "applying",
                     seen |-> seen, downs |-> downs, ups |-> ups]
  <2>11. replica' = [replica EXCEPT ![r] = rep]
    BY <1>14 DEF Becomes
  <2>12. downs \subseteq Scripts /\ ups \subseteq Nums
    <3>1. Above(r, seen) \subseteq Nums /\ ups \subseteq Nums
      BY <1>9, <2>2, AboveTyped
    <3>2. \A i \in Above(r, seen) : <<i, stored[i]>> \in Scripts
      BY <1>14, <3>1 DEF StoredNums, Scripts, TypeOK
    <3> QED BY <3>1, <3>2
  <2>13. downs = {} <=> ~(c < seen)
    <3>1. (c + 1)..seen = {} <=> ~(c < seen)
      BY <1>9, <2>3
    <3> QED BY <2>10, <3>1
  <2>14. ups = {} <=> ~(c < Len(beta))
    <3>1. \A m \in Nat : (c + 1)..m = {} <=> ~(c < m)
      BY <2>3
    <3> QED BY <2>2, <2>4, <3>1
  <2> HIDE DEF downs, ups, seen, beta
  <2>15. rep \in Replica
    BY <1>9, <2>12 DEF Replica
  <2> HIDE DEF rep
  <2>16. replica'[r] = rep /\ \A q \in Replicas \ {r} : replica'[q] = replica[q]
    BY <2>11, <2>15, MovesTo
  <2> USE DEF rep
  <2>17. rep.pc = "applying" => PlannedFrom(r, b, c)'
    <3> SUFFICES ASSUME rep.pc = "applying" PROVE PlannedFrom(r, b, c)'
      OBVIOUS
    <3>1. c < seen \/ c < Len(beta)
      BY <2>13, <2>14
    <3>2. /\ replica'[r].seen = seen /\ replica'[r].downs = downs /\ replica'[r].ups = ups
          /\ build'[r] = beta
      BY <1>1, <2>16 DEF beta
    <3> HIDE DEF rep
    <3> QED BY <2>4, <2>5, <2>6, <2>8, <2>9, <2>10, <3>1, <3>2 DEF PlannedFrom
  <2>18. rep.pc = "applying" => Planned(r, b)'
    BY <2>3, <2>17 DEF Planned
  <2>19. PlanOK(r, o, n)'
    BY <1>2, <1>9, <2>16, <2>18 DEF PlanOK, At
  <2>20. ASSUME Due(o, n) PROVE ~At(r, "ready")' /\ FromOlder(r, o)'
    <3>1. b = o /\ seen = Len(o) /\ beta = n
      BY <1>11, <2>20
    <3>2. rep.pc # "ready"
      <4> SUFFICES ASSUME rep.pc = "ready" PROVE FALSE
        OBVIOUS
      <4>1. ~(c < Len(o)) /\ ~(c < Len(n))
        BY <2>13, <2>14, <3>1
      <4>2. Len(o) = c /\ Len(n) = c /\ c # 0
        BY <1>9, <1>11, <2>2, <2>3, <2>6, <3>1, <4>1, <2>20
      <4>3. c \in 1..Len(o) /\ o[c] = n[c]
        BY <2>5, <3>1, <4>2
      <4>4. Reached(o, n) = o
        BY <4>2, <4>3, ReachedAll
      <4> QED BY <2>20, <4>4 DEF Due
    <3> QED BY <2>16, <2>18, <3>1, <3>2 DEF FromOlder, At
  <2> QED BY <1>1, <1>3, <1>7, <1>8, <2>16, <2>19, <2>20, InStepStep
<1> QED BY <1>12, <1>13, <1>14 DEF PlanRequired

LEMMA PlanFirstInStep ==
  ASSUME TypeOK, NEW o \in Builds, NEW n \in Builds, InStep(o, n),
         NEW r \in Replicas, PlanFirst(r)
  PROVE  InStep(o, n)'
<1> DEFINE seen == replica[r].seen
           beta == build[r]
<1>1. UNCHANGED builds /\ UNCHANGED dbVars
  BY DEF PlanFirst
<1>2. PICK b \in {o, Reached(o, n)} : DatabaseIs(o, n, b)
  BY DEF InStep, DatabaseOK
<1>3. stored = NothingStored
  BY DEF PlanFirst, StoredNums, NothingStored, TypeOK
<1>4. b = o
  BY <1>2, <1>3, OlderDatabase
<1>5. n # <<>>
  BY DEF InStep, UpdateOf
<1>6. seen = Len(o) /\ Schema(o) \subseteq Schema(n)
  <2>1. CASE o # <<>>
    <3>1. NeverStored(o, n)
      BY <1>2, <1>3, <1>4, <2>1, StoredFacts DEF DatabaseIs
    <3>2. FromOlder(r, o)
      BY <1>3, <2>1 DEF InStep, Unstored
    <3> QED BY <3>1, <3>2 DEF NeverStored, FromOlder, PlanFirst
  <2>2. CASE o = <<>>
    <3>1. \A q \in Replicas : build[q] = n
      BY <2>2 DEF InStep, UpdateOf
    <3>2. Schema(o) = {}
      BY <2>2 DEF Schema
    <3>3. Reached(o, n) = n
      BY <3>2, BasisFacts DEF InStep
    <3>4. stored # StoredOf(n)
      BY <1>3, <1>5, StoredFacts
    <3>5. FromOlder(r, o)
      BY <1>5, <2>2, <3>1, <3>3, <3>4 DEF InStep, Behind, Due
    <3> QED BY <3>2, <3>5 DEF FromOlder, PlanFirst
  <2> QED BY <2>1, <2>2
<1>7. DatabaseOK(o, n)' /\ (Due(o, n) <=> Due(o, n)')
  BY <1>1, DatabaseKeeps DEF InStep, dbVars
<1>8. stored' = stored
  BY <1>1 DEF dbVars
<1>9. CASE Restarts(r)
  BY <1>1, <1>9, RestartInStep
<1>10. CASE Becomes(r, "storing", seen, {}, {i \in Nums : seen < i /\ i <= Len(beta)})
  <2> DEFINE rep == [pc |-> "storing", seen |-> seen, downs |-> {},
                     ups |-> {i \in Nums : seen < i /\ i <= Len(beta)}]
  <2>1. rep \in Replica /\ replica' = [replica EXCEPT ![r] = rep]
    BY <1>10, ReplicaTyped DEF Replica, Becomes
  <2>2. replica'[r] = rep /\ \A q \in Replicas \ {r} : replica'[q] = replica[q]
    <3> HIDE DEF rep
    <3> QED BY <2>1, MovesTo
  <2>3. Len(beta) \in 0..MaxNum /\ Len(o) \in 0..MaxNum
    BY BuildFacts, BuildsTyped DEF InStep, Nums
  <2>4. \A j, k \in 0..MaxNum : {i \in Nums : j < i /\ i <= k} = (j + 1)..k
    BY DEF Nums
  <2>5. {i \in Nums : seen < i /\ i <= Len(beta)} = (Len(o) + 1)..Len(beta)
    BY <1>6, <2>3, <2>4
  <2>6. PlanOK(r, o, n)' /\ FromOlder(r, o)' /\ ~At(r, "ready")' /\ ~At(r, "applying")'
    BY <1>1, <1>6, <2>2, <2>5 DEF PlanOK, FromOlder, At
  <2> QED BY <1>1, <1>7, <1>8, <2>2, <2>6, InStepStep
<1> QED BY <1>9, <1>10 DEF PlanFirst

\* Storing what is applied makes the rows of the older build complete.
LEMMA StoreInStep ==
  ASSUME TypeOK, NEW o \in Builds, NEW n \in Builds, InStep(o, n),
         NEW r \in Replicas, StoreAlreadyApplied(r)
  PROVE  InStep(o, n)'
<1> DEFINE seen == replica[r].seen
           beta == build[r]
           ups == replica[r].ups
<1>1. /\ UNCHANGED builds /\ tableMade' = tableMade
      /\ current' = current /\ effects' = effects
  BY DEF StoreAlreadyApplied
<1>3. seen = Len(o) /\ Schema(o) \subseteq Schema(n) /\ ups = (Len(o) + 1)..Len(beta)
  BY DEF InStep, PlanOK, StoreAlreadyApplied
<1>0. Reached(o, n) = n
  BY <1>3, BasisFacts DEF InStep
<1>2. PICK b \in {o, n} : DatabaseIs(o, n, b)
  BY <1>0 DEF InStep, DatabaseOK
<1>4. beta \in {o, n} /\ beta \in Builds /\ Len(beta) \in Nums /\ b \in Builds
  BY BuildFacts DEF InStep
<1>5. /\ Len(o) \in 0..MaxNum /\ Len(b) \in 0..MaxNum /\ Len(beta) \in 0..MaxNum
      /\ DOMAIN o = 1..Len(o) /\ DOMAIN b = 1..Len(b) /\ DOMAIN beta = 1..Len(beta)
      /\ \A i \in 1..Len(b) : b[i] \in Variants
  BY <1>4, BuildsTyped
<1>6. \A a \in {o, n} : Len(o) <= Len(a) /\ \A i \in 1..Len(o) : o[i] = a[i]
  BY <1>3, <1>5, SchemaOrder
<1>7. ASSUME NEW i \in Nums
      PROVE  stored'[i] = IF i \in 1..Len(b) THEN b[i] ELSE NoScript
  <2>1. stored'[i] = IF i <= Len(o) /\ stored[i] = NoScript THEN beta[i] ELSE stored[i]
    BY <1>3 DEF StoreAlreadyApplied
  <2>2. i \in Nat /\ i >= 1
    BY DEF Nums
  <2>3. CASE stored = StoredOf(b)
    <3>1. stored[i] = IF i \in 1..Len(b) THEN b[i] ELSE NoScript
      BY <1>5, <2>3 DEF StoredOf
    <3>2. i <= Len(o) => i \in 1..Len(b)
      BY <1>5, <1>6, <2>2
    <3> QED BY <1>5, <2>1, <3>1, <3>2
  <2>4. CASE b = o /\ NeverStored(o, n)
    <3>1. stored[i] = NoScript
      BY <2>4 DEF NeverStored, NothingStored
    <3>2. i <= Len(o) => i \in 1..Len(b) /\ beta[i] = b[i]
      BY <1>4, <1>5, <1>6, <2>2, <2>4
    <3>3. i \in 1..Len(b) => i <= Len(o)
      BY <1>5, <2>4
    <3> QED BY <2>1, <3>1, <3>2, <3>3
  <2> QED BY <1>2, <2>3, <2>4 DEF DatabaseIs
<1>8. stored' = StoredOf(b)
  <2>1. stored' \in [Nums -> {stored'[i] : i \in Nums}]
    BY DEF StoreAlreadyApplied
  <2> QED BY <1>5, <1>7, <2>1 DEF StoredOf
<1>9. DatabaseOK(o, n)'
  <2>1. On(o, b)'
    BY <1>1, <1>2 DEF DatabaseIs, On, With
  <2>2. StoredOf(b)' = StoredOf(b)
    BY DEF StoredOf
  <2>3. tableMade' \/ o = <<>>
    BY <1>1 DEF InStep, DatabaseOK
  <2> QED BY <1>0, <1>8, <2>1, <2>2, <2>3 DEF DatabaseOK, DatabaseIs
<1> DEFINE rep == [pc |-> IF ups = {} THEN "ready" ELSE "applying",
                   seen |-> seen, downs |-> {}, ups |-> ups]
<1>10. rep \in Replica /\ replica' = [replica EXCEPT ![r] = rep]
  BY ReplicaTyped DEF Replica, Becomes, StoreAlreadyApplied
<1>11. replica'[r] = rep /\ \A q \in Replicas \ {r} : replica'[q] = replica[q]
  <2> HIDE DEF rep
  <2> QED BY <1>10, MovesTo
<1>12. rep.pc = "applying" => Planned(r, o)'
  <2> SUFFICES ASSUME rep.pc = "applying" PROVE PlannedFrom(r, o, Len(o))'
    BY <1>5 DEF Planned
  <2>1. ups # {}
    OBVIOUS
  <2>2. Len(o) < Len(beta)
    <3>1. \A j, k \in Nat : (j + 1)..k # {} => j < k
      OBVIOUS
    <3> QED BY <1>3, <1>5, <2>1, <3>1
  <2>3. /\ replica'[r].seen = Len(o) /\ replica'[r].downs = {}
        /\ replica'[r].ups = (Len(o) + 1)..Len(beta) /\ build'[r] = beta
    BY <1>1, <1>3, <1>11
  <2>4. Len(o) # 0 => o[Len(o)] = beta[Len(o)]
    BY <1>4, <1>5, <1>6
  <2>5. (Len(o) + 1)..Len(o) = {}
    BY <1>5
  <2>6. Len(o) <= Len(o) /\ Len(o) <= Len(beta)
    BY <1>5, <2>2
  <2> HIDE DEF rep, beta
  <2> QED BY <2>2, <2>3, <2>4, <2>5, <2>6 DEF PlannedFrom
<1>13. PlanOK(r, o, n)' /\ FromOlder(r, o)'
  BY <1>3, <1>11, <1>12 DEF PlanOK, FromOlder, At
<1>14. ASSUME Due(o, n), rep.pc = "ready"
       PROVE  FALSE
  <2>1. ups = {} /\ beta = n
    BY <1>14 DEF Due
  <2>2. Len(n) <= Len(o) /\ Len(n) \in Nat
    <3>1. ASSUME NEW j \in Nat, NEW k \in Nat, (j + 1)..k = {} PROVE k <= j
      BY ONLY <3>1
    <3>2. Len(n) \in Nat /\ Len(o) \in Nat
      BY BuildsTyped
    <3>3. (Len(o) + 1)..Len(n) = {}
      BY <1>3, <2>1
    <3> QED BY ONLY <3>1, <3>2, <3>3
  <2>3. Len(o) = Len(n) /\ \A i \in 1..Len(o) : o[i] = n[i]
    BY <1>5, <1>6, <2>2
  <2>4. o = n
    BY <2>3, SameBuild
  <2> QED BY <1>0, <1>14, <2>4 DEF Due
<1>15. o # <<>> => stored' # NothingStored
  <2> SUFFICES ASSUME o # <<>>, stored' = NothingStored PROVE FALSE
    OBVIOUS
  <2>1. 1 \in 1..Len(o)
    BY <1>5, BuildsTyped
  <2>2. 1 \in 1..Len(b) /\ 1 \in Nums
    BY <1>5, <1>6, <2>1 DEF Nums
  <2> QED BY <1>5, <1>7, <2>2 DEF NothingStored
<1>16. Due(o, n)' => Due(o, n) /\ ~At(r, "ready")'
  <2> SUFFICES ASSUME Due(o, n)' PROVE Due(o, n)
    BY <1>11, <1>14 DEF At
  <2>1. stored' # StoredOf(n) /\ o # n /\ \A q \in Replicas : build[q] = n
    BY <1>0, <1>1 DEF Due, StoredOf
  <2>2. b = o
    BY <1>8, <2>1
  <2>3. n # <<>>
    BY DEF InStep, UpdateOf
  <2>4. stored # StoredOf(n)
    <3>1. CASE stored = StoredOf(o)
      BY <2>1, <3>1, StoredInjective
    <3>2. CASE stored = NothingStored
      BY <2>3, <3>2, StoredFacts
    <3> QED BY <1>2, <2>2, <3>1, <3>2 DEF DatabaseIs, NeverStored
  <2> QED BY <1>0, <2>1, <2>4 DEF Due
<1> HIDE DEF rep
<1> QED BY <1>1, <1>9, <1>11, <1>13, <1>15, <1>16, InStepStep

ScriptsOf(b, S) == {<<i, b[i]>> : i \in S}
RowsOf(b, beta, D, U) ==
    [i \in Nums |-> IF i \in U THEN beta[i]
                    ELSE IF i \in {s[1] : s \in D} THEN NoScript ELSE StoredOf(b)[i]]

\* Taking down all of b above a common beginning and bringing up all of a build
\* beta above it leaves exactly beta, in each of the three records.
SameUpTo(b, beta, c) ==
    /\ c \in Nat /\ c <= Len(b) /\ c <= Len(beta)
    /\ c < Len(b) \/ c < Len(beta)
    /\ \A i \in 1..c : b[i] = beta[i]

LEMMA Replaces ==
  ASSUME NEW b \in Builds, NEW beta \in Builds, NEW c, SameUpTo(b, beta, c)
  PROVE  LET D == ScriptsOf(b, (c + 1)..Len(b))
             U == (c + 1)..Len(beta)
         IN /\ (Schema(b) \ D) \cup ScriptsOf(beta, U) = Schema(beta)
            /\ RowsOf(b, beta, D, U) = StoredOf(beta)
            /\ Latest(D, U) = Len(beta)
<1> DEFINE D == ScriptsOf(b, (c + 1)..Len(b))
           U == (c + 1)..Len(beta)
<1>0. /\ c \in Nat /\ c <= Len(b) /\ c <= Len(beta)
      /\ c < Len(b) \/ c < Len(beta)
      /\ \A i \in 1..c : b[i] = beta[i]
      /\ D = ScriptsOf(b, (c + 1)..Len(b))
      /\ U = (c + 1)..Len(beta)
  BY DEF SameUpTo
<1> SUFFICES /\ (Schema(b) \ D) \cup ScriptsOf(beta, U) = Schema(beta)
             /\ RowsOf(b, beta, D, U) = StoredOf(beta)
             /\ Latest(D, U) = Len(beta)
  OBVIOUS
<1> HIDE DEF D, U
<1> USE <1>0
<1>1. /\ Len(b) \in 0..MaxNum /\ Len(beta) \in 0..MaxNum
      /\ Len(b) \in Nat /\ Len(beta) \in Nat
      /\ DOMAIN b = 1..Len(b) /\ DOMAIN beta = 1..Len(beta)
  BY BuildsTyped
<1>2. \A i, v : <<i, v>> \in D <=> i \in (c + 1)..Len(b) /\ v = b[i]
  BY DEF ScriptsOf
<1>3. {s[1] : s \in D} = (c + 1)..Len(b)
  <2> USE DEF ScriptsOf
  <2>1. \A i \in (c + 1)..Len(b) : <<i, b[i]>> \in D /\ <<i, b[i]>>[1] = i
    BY <1>2
  <2>2. \A i \in (c + 1)..Len(b) : i \in {s[1] : s \in D}
    BY <2>1
  <2> QED BY <2>2
<1>4. \A i \in 1..Len(b) : i \notin (c + 1)..Len(b) <=> i \in 1..c
  BY <1>1
<1>5. \A i \in 1..Len(beta) : i \notin U <=> i \in 1..c
  BY <1>1
<1>6. 1..c \subseteq 1..Len(b) /\ 1..c \subseteq 1..Len(beta) /\ U \subseteq 1..Len(beta)
  BY <1>1
<1> USE DEF ScriptsOf
<1>7. (Schema(b) \ D) \cup ScriptsOf(beta, U) = Schema(beta)
  <2>1. ASSUME NEW s \in Schema(b) \ D PROVE s \in Schema(beta)
    <3>1. s[1] \in 1..Len(b) /\ s = <<s[1], b[s[1]]>>
      BY SchemaPairs
    <3>2. s[1] \in 1..c
      BY <1>2, <1>4, <2>1, <3>1
    <3> QED BY <1>6, <3>1, <3>2, SchemaMembers
  <2>2. ASSUME NEW i \in U PROVE <<i, beta[i]>> \in Schema(beta)
    BY <1>6, SchemaMembers
  <2>3. ASSUME NEW s \in Schema(beta)
        PROVE  s \in (Schema(b) \ D) \cup {<<i, beta[i]>> : i \in U}
    <3>1. s[1] \in 1..Len(beta) /\ s = <<s[1], beta[s[1]]>>
      BY SchemaPairs
    <3>2. CASE s[1] \in U
      BY <3>1, <3>2
    <3>3. CASE s[1] \notin U
      <4>1. s[1] \in 1..c
        BY <1>5, <3>1, <3>3
      <4>2. s[1] \in 1..Len(b) /\ s[1] \notin (c + 1)..Len(b) /\ s = <<s[1], b[s[1]]>>
        BY <1>4, <1>6, <3>1, <4>1
      <4>3. s \in Schema(b)
        BY <4>2, SchemaMembers
      <4>4. s \notin D
        BY <1>2, <4>2
      <4> QED BY <4>3, <4>4
    <3> QED BY <3>2, <3>3
  <2> QED BY <2>1, <2>2, <2>3
<1> HIDE DEF ScriptsOf
<1>8. ASSUME NEW i \in Nums
      PROVE  (IF i \in U THEN beta[i] ELSE IF i \in {s[1] : s \in D} THEN NoScript
              ELSE StoredOf(b)[i]) = StoredOf(beta)[i]
  <2>1. /\ StoredOf(b)[i] = IF i \in 1..Len(b) THEN b[i] ELSE NoScript
        /\ StoredOf(beta)[i] = IF i \in 1..Len(beta) THEN beta[i] ELSE NoScript
    BY <1>1 DEF StoredOf
  <2>2. CASE i \in U
    BY <1>6, <2>1, <2>2
  <2>3. CASE i \notin U /\ i \in (c + 1)..Len(b)
    <3>1. i \notin 1..c
      BY <1>1, <2>3
    <3>2. i \notin 1..Len(beta)
      BY <1>5, <2>3, <3>1
    <3> QED BY <1>3, <2>1, <2>3, <3>2
  <2>4. CASE i \notin U /\ i \notin (c + 1)..Len(b)
    <3>1. i \in 1..Len(b) <=> i \in 1..c
      BY <1>4, <1>6, <2>4
    <3>2. i \in 1..Len(beta) <=> i \in 1..c
      BY <1>5, <1>6, <2>4
    <3> QED BY <1>3, <2>1, <2>4, <3>1, <3>2
  <2> QED BY <2>2, <2>3, <2>4
<1>9. RowsOf(b, beta, D, U) = StoredOf(beta)
  BY <1>8 DEF RowsOf, StoredOf
<1>10. Latest(D, U) = Len(beta)
  <2>1. CASE c < Len(beta)
    <3>1. Max(U) = Len(beta)
      BY <1>1, <2>1, MaxOfInterval
    <3>2. Len(beta) \in U
      BY <1>1, <2>1
    <3> QED BY <3>1, <3>2 DEF Latest
  <2>2. CASE ~(c < Len(beta))
    <3>0. c = Len(beta) /\ c < Len(b)
      <4>1. ASSUME NEW k \in Nat, c <= k, ~(c < k) PROVE c = k
        BY ONLY <4>1, c \in Nat
      <4> QED BY <1>1, <2>2, <4>1
    <3>1. U = {} /\ c = Len(beta) /\ c < Len(b)
      <4>1. (c + 1)..c = {}
        OBVIOUS
      <4> QED BY <3>0, <4>1
    <3>2. Min((c + 1)..Len(b)) = c + 1
      BY <1>1, <3>1, MinOfInterval
    <3>3. Latest(D, U) = Min((c + 1)..Len(b)) - 1
      BY <1>3, <3>1 DEF Latest
    <3> QED BY <3>1, <3>2, <3>3
  <2> QED BY <2>1, <2>2
<1> QED BY <1>7, <1>9, <1>10

\* So does, of the migrations taken down, executing those that have a down script,
\* except for what an update leaves behind.
LEMMA Updates ==
  ASSUME NEW b \in Builds, NEW beta \in Builds, NEW c \in 0..MaxNum,
         c = LastEqual(b, beta), c < Len(b) \/ c < Len(beta)
  PROVE  LET D == ScriptsOf(b, (c + 1)..Len(b))
             U == (c + 1)..Len(beta)
         IN /\ (Schema(b) \ Executed(D)) \cup ScriptsOf(beta, U) = Updated(b, beta)
            /\ RowsOf(b, beta, D, U) = StoredOf(Reached(b, beta))
            /\ Latest(D, U) = Len(beta)
<1> DEFINE D == ScriptsOf(b, (c + 1)..Len(b))
           U == (c + 1)..Len(beta)
           t == Reached(b, beta)
<1>1. /\ t \in Builds /\ Len(t) = Len(beta)
      /\ \A i \in 1..c : t[i] = b[i]
      /\ \A i \in 1..Len(beta) : i >= c => t[i] = beta[i]
      /\ c <= Len(b) /\ c <= Len(beta)
      /\ \A i \in 1..Len(b) : i <= Len(beta) /\ b[i] = beta[i] => i <= c
  BY ReachedFacts, LastEqualFacts
<1>2. Updated(b, beta) = Schema(t) \cup {s \in Schema(b) \ Schema(t) : s[2] \in NoDown}
  BY DEF Updated, LeftBehind
<1>3. Len(b) \in Nat /\ Len(beta) \in Nat
  BY BuildsTyped
<1> HIDE DEF t
<1>4. SameUpTo(b, t, c)
  BY <1>1 DEF SameUpTo
<1>5. /\ (Schema(b) \ D) \cup ScriptsOf(t, U) = Schema(t)
      /\ RowsOf(b, t, D, U) = StoredOf(t)
      /\ Latest(D, U) = Len(beta)
  BY <1>1, <1>4, Replaces
<1>6. \A i \in U : t[i] = beta[i]
  BY <1>1, <1>3
<1>7. ScriptsOf(t, U) = ScriptsOf(beta, U) /\ RowsOf(b, t, D, U) = RowsOf(b, beta, D, U)
  <2> HIDE DEF D, U
  <2> QED BY <1>6 DEF ScriptsOf, RowsOf
<1>8. D = Schema(b) \ Schema(t)
  <2>1. ASSUME NEW s \in D PROVE s \in Schema(b) \ Schema(t)
    <3>1. PICK i \in (c + 1)..Len(b) : s = <<i, b[i]>>
      BY DEF ScriptsOf
    <3>2. i \in 1..Len(b) /\ ~(i <= c)
      BY <1>3, <3>1
    <3>3. i <= Len(beta) => b[i] # beta[i]
      BY <1>1, <3>2
    <3>4. s \notin Schema(t)
      <4> SUFFICES ASSUME s \in Schema(t) PROVE FALSE
        OBVIOUS
      <4>1. i \in 1..Len(t) /\ b[i] = t[i]
        BY <1>1, <3>1, SchemaMembers
      <4> QED BY <1>1, <1>3, <3>2, <3>3, <4>1
    <3> QED BY <3>1, <3>2, <3>4, SchemaMembers
  <2>2. ASSUME NEW s \in Schema(b) \ Schema(t) PROVE s \in D
    <3>1. s[1] \in 1..Len(b) /\ s = <<s[1], b[s[1]]>>
      BY SchemaPairs
    <3>2. s[1] \notin 1..c
      <4> SUFFICES ASSUME s[1] \in 1..c PROVE FALSE
        OBVIOUS
      <4>1. s[1] \in 1..Len(t) /\ t[s[1]] = b[s[1]]
        BY <1>1, <1>3
      <4>2. <<s[1], t[s[1]]>> \in Schema(t)
        BY <1>1, <4>1, SchemaMembers
      <4> QED BY <2>2, <3>1, <4>1, <4>2
    <3>3. s[1] \in (c + 1)..Len(b)
      BY <1>3, <3>1, <3>2
    <3> QED BY <3>1, <3>3 DEF ScriptsOf
  <2> QED BY <2>1, <2>2
<1> HIDE DEF D, U
<1>9. (Schema(b) \ Executed(D)) = (Schema(b) \ D) \cup {s \in D : s[2] \in NoDown}
  BY <1>8 DEF Executed
<1>10. (Schema(b) \ Executed(D)) \cup ScriptsOf(beta, U) = Updated(b, beta)
  BY <1>2, <1>5, <1>7, <1>8, <1>9
<1> QED BY <1>5, <1>7, <1>10 DEF t, D, U

\* What a plan against the build the database is on leaves once it is carried out.
LEMMA CarriesOut ==
  ASSUME TypeOK, NEW b \in Builds, NEW r \in Replicas, build[r] \in Builds,
         effects = Schema(b), stored = StoredOf(b),
         Planned(r, b), replica[r].seen = Len(b)
  PROVE  LET downs == replica[r].downs
             ups == replica[r].ups
         IN /\ (effects \ Executed(downs)) \cup {Local(r, i) : i \in ups}
                   = Updated(b, build[r])
            /\ RowsAfter(r, downs, ups) = StoredOf(Reached(b, build[r]))
            /\ Latest(downs, ups) = Len(build[r])
<1> DEFINE downs == replica[r].downs
           ups == replica[r].ups
           beta == build[r]
<1>1. PICK c \in 0..MaxNum : PlannedFrom(r, b, c)
  BY DEF Planned
<1>2. /\ downs = ScriptsOf(b, (c + 1)..Len(b))
      /\ ups = (c + 1)..Len(beta)
      /\ c <= Len(b) /\ c <= Len(beta)
      /\ c < Len(b) \/ c < Len(beta)
      /\ c # 0 => b[c] = beta[c]
      /\ \A i \in (c + 1)..Len(b) : i <= Len(beta) => b[i] # beta[i]
  BY <1>1 DEF PlannedFrom, ScriptsOf
<1>3. c = LastEqual(b, beta)
  <2>1. Len(b) \in Nat /\ Len(beta) \in Nat
    BY BuildsTyped
  <2>2. PICK e \in 0..MaxNum : e = LastEqual(b, beta)
    BY LastEqualFacts
  <2>3. /\ e <= Len(b) /\ e <= Len(beta) /\ (e # 0 => b[e] = beta[e])
        /\ \A i \in 1..Len(b) : i <= Len(beta) /\ b[i] = beta[i] => i <= e
    BY <2>2, LastEqualFacts
  <2> HIDE DEF downs, ups, beta
  <2>4. c <= e
    <3>1. c # 0 => c \in 1..Len(b)
      BY <1>2, <2>1
    <3> QED BY <1>2, <2>3, <3>1
  <2>5. ~(c < e)
    <3> SUFFICES ASSUME c < e PROVE FALSE
      OBVIOUS
    <3>1. e \in (c + 1)..Len(b)
      BY <2>1, <2>3
    <3> QED BY <1>2, <2>3, <3>1
  <2> QED BY <2>2, <2>4, <2>5
<1>4. /\ (Schema(b) \ Executed(downs)) \cup ScriptsOf(beta, ups) = Updated(b, beta)
      /\ RowsOf(b, beta, downs, ups) = StoredOf(Reached(b, beta))
      /\ Latest(downs, ups) = Len(beta)
  <2>1. beta \in Builds
    OBVIOUS
  <2> HIDE DEF downs, ups, beta
  <2> QED BY <1>2, <1>3, <2>1, Updates
<1> HIDE DEF downs, ups, beta
<1>5. RowsAfter(r, downs, ups) = StoredOf(Reached(b, beta))
  BY <1>4 DEF RowsAfter, RowsOf, beta
<1>6. (effects \ Executed(downs)) \cup {Local(r, i) : i \in ups} = Updated(b, beta)
  BY <1>4 DEF Local, ScriptsOf, beta
<1> QED BY <1>4, <1>5, <1>6 DEF downs, ups, beta

\* A plan of the single build in use that has been overtaken but whose scripts all
\* succeed only takes down, once more, migrations without a down script.
LEMMA Overtaken ==
  ASSUME TypeOK, NEW o \in Builds, NEW n \in Builds, InStep(o, n),
         NEW r \in Replicas, At(r, "applying"), build[r] = n,
         Applicable(r, replica[r].downs, replica[r].ups),
         effects = With(o, Reached(o, n)), stored = StoredOf(Reached(o, n))
  PROVE  LET downs == replica[r].downs
             ups == replica[r].ups
         IN /\ (effects \ Executed(downs)) \cup {Local(r, i) : i \in ups} = effects
            /\ RowsAfter(r, downs, ups) = stored
            /\ Latest(downs, ups) = Len(n)
<1> DEFINE seen == replica[r].seen
           downs == replica[r].downs
           ups == replica[r].ups
           t == Reached(o, n)
<1>0. PICK e \in 0..MaxNum : e = LastEqual(o, n)
  BY LastEqualFacts
<1>1. /\ t \in Builds /\ Len(t) = Len(n)
      /\ \A i \in 1..Len(n) : i >= e => t[i] = n[i]
      /\ e <= Len(o) /\ e <= Len(n) /\ (e # 0 => o[e] = n[e])
  BY <1>0, ReachedFacts, LastEqualFacts
<1>2. /\ Len(o) \in Nat /\ Len(n) \in Nat
      /\ Len(o) <= MaxNum /\ Len(n) <= MaxNum
  BY BuildsTyped
<1>3. effects = Schema(t) \cup {s \in Schema(o) \ Schema(t) : s[2] \in NoDown}
  BY DEF With
<1>4. PICK y \in {o, t}, c \in 0..MaxNum : PlannedFrom(r, y, c)
  BY DEF InStep, PlanOK, Planned
<1>5. seen \in {Len(o), Len(n)}
  BY DEF InStep, PlanOK
<1>6. /\ c <= seen /\ seen <= Len(y) /\ c <= Len(n)
      /\ \A i \in (c + 1)..seen : i <= Len(n) => y[i] # n[i]
      /\ downs = {<<i, y[i]>> : i \in (c + 1)..seen}
      /\ ups = (c + 1)..Len(n)
      /\ c < seen \/ c < Len(n)
  BY <1>4 DEF PlannedFrom
<1>7. Executed(downs) \subseteq effects /\ Executed(downs) \subseteq downs
  BY DEF Applicable, Executed
<1>8. \A i \in ups : <<i, n[i]>> \notin effects \ Executed(downs)
  BY DEF Applicable, Local
<1> HIDE DEF t, seen, downs, ups
<1>9. e <= c
  <2> SUFFICES ASSUME ~(e <= c) PROVE FALSE
    OBVIOUS
  <2>1. e \in (c + 1)..seen /\ e \in 1..Len(n) /\ e # 0
    BY <1>1, <1>2, <1>5
  <2>2. o[e] = n[e] /\ t[e] = n[e]
    BY <1>1, <2>1
  <2> QED BY <1>1, <1>4, <1>6, <2>1, <2>2
<1>10. c = Len(n)
  <2> SUFFICES ASSUME c < Len(n) PROVE FALSE
    BY <1>2, <1>6
  <2>1. c + 1 \in ups /\ c + 1 \in 1..Len(n) /\ c + 1 >= e
    BY <1>2, <1>6, <1>9
  <2>2. <<c + 1, n[c + 1]>> \in Schema(t)
    BY <1>1, <2>1, SchemaMembers
  <2>3. <<c + 1, n[c + 1]>> \in downs
    BY <1>3, <1>7, <1>8, <2>1, <2>2
  <2>4. PICK i \in (c + 1)..seen : <<c + 1, n[c + 1]>> = <<i, y[i]>>
    BY <1>6, <2>3
  <2>5. c + 1 <= Len(n) /\ c + 1 = i /\ y[c + 1] = n[c + 1]
    BY <2>1, <2>4
  <2> QED BY <1>6, <2>5
<1>11. seen = Len(o) /\ c < seen /\ y = o
  BY <1>1, <1>2, <1>4, <1>5, <1>6, <1>10
<1>12. ups = {}
  BY <1>2, <1>6, <1>10
<1>13. \A s \in downs : s[1] \in (c + 1)..seen
  BY <1>6
<1>14. Executed(downs) = {}
  <2> SUFFICES ASSUME NEW s \in Executed(downs) PROVE FALSE
    OBVIOUS
  <2>1. s[1] \in (c + 1)..seen /\ s \in effects /\ s[2] \notin NoDown
    BY <1>7, <1>13 DEF Executed
  <2>2. s \in Schema(t)
    BY <1>3, <2>1
  <2>3. s[1] \in 1..Len(n)
    BY <1>1, <2>2, SchemaPairs
  <2> QED BY <1>2, <1>5, <1>10, <2>1, <2>3
<1>15. (effects \ Executed(downs)) \cup {Local(r, i) : i \in ups} = effects
  BY <1>12, <1>14
<1>16. {s[1] : s \in downs} = (c + 1)..seen
  <2>1. \A i \in (c + 1)..seen : <<i, y[i]>> \in downs /\ <<i, y[i]>>[1] = i
    BY <1>6
  <2>2. \A i \in (c + 1)..seen : i \in {s[1] : s \in downs}
    BY <2>1
  <2> QED BY <1>13, <2>2
<1>17. RowsAfter(r, downs, ups) = stored
  <2>1. \A i \in (c + 1)..seen : i \notin 1..Len(t)
    BY <1>1, <1>2, <1>5, <1>10
  <2>2. DOMAIN t = 1..Len(t)
    BY <1>1, BuildsTyped
  <2>3. stored = [i \in Nums |-> IF i \in 1..Len(t) THEN t[i] ELSE NoScript]
    BY <2>2 DEF StoredOf, t
  <2>4. RowsAfter(r, downs, ups) =
            [i \in Nums |-> IF i \in (c + 1)..seen THEN NoScript ELSE stored[i]]
    BY <1>12, <1>16 DEF RowsAfter
  <2> QED BY <2>1, <2>3, <2>4
<1>18. Latest(downs, ups) = Len(n)
  <2>1. Min((c + 1)..seen) = c + 1
    BY <1>2, <1>11, MinOfInterval
  <2>2. Latest(downs, ups) = Min((c + 1)..seen) - 1
    BY <1>12, <1>16 DEF Latest
  <2> QED BY <1>10, <2>1, <2>2
<1> QED BY <1>15, <1>17, <1>18 DEF downs, ups

\* While two builds are in use, a plan whose scripts all succeed was made against
\* the build the database is on, and is not of that build.
LEMMA PlannedFromDatabase ==
  ASSUME TypeOK, NEW o \in Builds, NEW n \in Builds, InStep(o, n),
         ~(\A q \in Replicas : build[q] = n),
         NEW r \in Replicas, At(r, "applying"),
         Applicable(r, replica[r].downs, replica[r].ups),
         NEW b \in {o, n}, effects = Schema(b)
  PROVE  Planned(r, b) /\ replica[r].seen = Len(b)
<1> DEFINE seen == replica[r].seen
           beta == build[r]
<1>1. /\ Schema(o) \subseteq Schema(n) \/ Schema(n) \subseteq Schema(o)
      /\ \A s \in Schema(o) \ Schema(n) : s[2] \notin NoDown
      /\ \A s \in Schema(n) \ Schema(o) : s[2] \notin NoDown
  BY DEF InStep, UpdateOf
<1>2. Reached(o, n) = n
  BY <1>1, ReachedExtends
<1>3. beta \in {o, n} /\ beta \in Builds /\ Len(beta) \in Nums /\ b \in Builds
  BY BuildFacts DEF InStep
<1>4. seen \in {Len(o), Len(n)} /\ \E y \in {o, n} : Planned(r, y)
  BY <1>2 DEF InStep, PlanOK
<1>5. \A a \in {o, n} : Len(a) \in 0..MaxNum /\ Len(a) \in Nat
  BY BuildsTyped
<1>7. b # beta
  <2> SUFFICES ASSUME b = beta PROVE FALSE
    OBVIOUS
  <2>1. PICK y \in {o, n}, c \in 0..MaxNum : PlannedFrom(r, y, c)
    BY <1>4 DEF Planned
  <2>2. /\ replica[r].downs = {<<i, y[i]>> : i \in (c + 1)..seen}
        /\ replica[r].ups = (c + 1)..Len(beta)
        /\ c <= seen /\ seen <= Len(y) /\ c <= Len(beta)
        /\ c < seen \/ c < Len(beta)
        /\ \A i \in (c + 1)..seen : i <= Len(beta) => y[i] # beta[i]
    BY <2>1 DEF PlannedFrom
  <2>3. CASE c < Len(beta)
    <3>1. c + 1 \in (c + 1)..Len(beta) /\ c + 1 \in 1..Len(b) /\ c + 1 <= Len(beta)
      BY <1>3, <1>5, <2>3
    <3>2. Local(r, c + 1) \in effects
      BY <1>3, <3>1, SchemaMembers DEF Local
    <3>3. <<c + 1, beta[c + 1]>> \in replica[r].downs
      BY <2>2, <3>1, <3>2 DEF Applicable, Executed, Local
    <3>4. PICK i \in (c + 1)..seen : <<c + 1, beta[c + 1]>> = <<i, y[i]>>
      BY <2>2, <3>3
    <3> QED BY <2>2, <3>1, <3>4
  <2>4. CASE ~(c < Len(beta))
    <3>1. c = Len(beta) /\ c < seen /\ seen \in Nat
      BY <1>3, <1>4, <1>5, <2>2, <2>4
    <3>2. <<c + 1, y[c + 1]>> \in replica[r].downs
      BY <2>2, <3>1
    <3>3. c + 1 \in 1..Len(y) /\ c + 1 \notin 1..Len(beta)
      BY <1>3, <1>5, <2>1, <2>2, <3>1
    <3>4. <<c + 1, y[c + 1]>> \in Schema(y) /\ <<c + 1, y[c + 1]>> \notin Schema(beta)
      BY <1>3, <2>1, <3>3, SchemaMembers
    <3>5. y[c + 1] \notin NoDown
      BY <1>1, <1>3, <2>1, <3>4
    <3>6. <<c + 1, y[c + 1]>> \in effects
      BY <3>2, <3>5 DEF Applicable, Executed
    <3> QED BY <3>4, <3>6
  <2> QED BY <2>3, <2>4
<1>8. {b, beta} = {o, n} /\ o # n
  BY <1>3, <1>7
<1>9. /\ \/ Len(b) <= Len(beta) /\ \A i \in 1..Len(b) : b[i] = beta[i]
         \/ Len(beta) <= Len(b) /\ \A i \in 1..Len(beta) : beta[i] = b[i]
  BY <1>1, <1>3, <1>8, SchemaOrder
<1>10. Len(b) # Len(beta)
  BY <1>3, <1>7, <1>9, SameBuild
<1>11. PICK y \in {b, beta}, c \in 0..MaxNum : PlannedFrom(r, y, c)
  BY <1>4, <1>8 DEF Planned
<1>12. seen \in {Len(b), Len(beta)}
  BY <1>4, <1>8
<1>13. /\ replica[r].downs = {<<i, y[i]>> : i \in (c + 1)..seen}
       /\ replica[r].ups = (c + 1)..Len(beta)
       /\ c <= seen /\ c <= Len(beta) /\ seen <= Len(y)
       /\ c < seen \/ c < Len(beta)
       /\ \A i \in (c + 1)..seen : i <= Len(beta) => y[i] # beta[i]
  BY <1>11 DEF PlannedFrom
<1>14. CASE y = b
  <2> SUFFICES ASSUME seen # Len(b) PROVE FALSE
    BY <1>11, <1>14 DEF Planned
  <2>1. seen = Len(beta) /\ Len(beta) < Len(b)
    BY <1>3, <1>5, <1>10, <1>12, <1>13, <1>14
  <2>2. c + 1 \in (c + 1)..seen /\ c + 1 <= Len(beta) /\ c + 1 \in 1..Len(beta)
    BY <1>3, <1>5, <1>13, <2>1
  <2>3. beta[c + 1] = b[c + 1]
    BY <1>3, <1>5, <1>9, <2>1, <2>2
  <2> QED BY <1>13, <1>14, <2>2, <2>3
<1>15. CASE y = beta
  <2>1. c = seen
    <3> SUFFICES ASSUME c < seen PROVE FALSE
      BY <1>3, <1>5, <1>12, <1>13
    <3>1. c + 1 \in (c + 1)..seen /\ c + 1 <= Len(beta)
      BY <1>3, <1>5, <1>12, <1>13, <1>15
    <3> QED BY <1>13, <1>15, <3>1
  <2>2. seen = Len(b) /\ Len(b) < Len(beta)
    BY <1>12, <1>13, <2>1
  <2>3. c # 0 => b[c] = beta[c]
    <3>1. c # 0 => c \in 1..Len(b)
      BY <1>3, <1>5, <2>1, <2>2
    <3> QED BY <1>3, <1>5, <1>9, <2>1, <2>2, <3>1
  <2>4. (c + 1)..seen = {}
    BY <2>1
  <2>5. replica[r].downs = {<<i, b[i]>> : i \in (c + 1)..seen}
    BY <1>13, <2>4
  <2>6. PlannedFrom(r, b, c)
    BY <1>3, <1>5, <1>13, <2>1, <2>2, <2>3, <2>4, <2>5 DEF PlannedFrom
  <2> QED BY <2>2, <2>6 DEF Planned
<1> QED BY <1>11, <1>14, <1>15

\* So carrying a plan out leaves what the build of its replica makes of o.
LEMMA Lands ==
  ASSUME TypeOK, NEW o \in Builds, NEW n \in Builds, InStep(o, n),
         NEW r \in Replicas, At(r, "applying"),
         Applicable(r, replica[r].downs, replica[r].ups)
  PROVE  LET downs == replica[r].downs
             ups == replica[r].ups
         IN /\ (effects \ Executed(downs)) \cup {Local(r, i) : i \in ups}
                   = Updated(o, build[r])
            /\ RowsAfter(r, downs, ups) = StoredOf(Reached(o, build[r]))
            /\ Latest(downs, ups) = Len(build[r])
<1> DEFINE seen == replica[r].seen
           beta == build[r]
           t == Reached(o, n)
<1>1. PICK b \in {o, t} : DatabaseIs(o, n, b)
  BY DEF InStep, DatabaseOK
<1>2. effects = With(o, b) /\ stored = StoredOf(b)
  BY <1>1 DEF InStep, Unstored, DatabaseIs, NeverStored, On
<1>3. beta \in {o, n} /\ beta \in Builds
  BY BuildFacts DEF InStep
<1>4. /\ t \in Builds /\ Len(t) = Len(n) /\ With(o, o) = Schema(o)
      /\ With(o, t) = Updated(o, n)
  BY BasisFacts DEF InStep
<1>5. CASE \A q \in Replicas : build[q] = n
  <2>1. beta = n
    BY <1>5
  <2>2. CASE b = o
    <3>1. seen = Len(o) /\ Planned(r, o)
      <4>1. CASE o = t
        BY <1>4, <4>1 DEF InStep, PlanOK
      <4>2. CASE o # t
        <5>1. Due(o, n)
          BY <1>2, <1>4, <1>5, <2>2, <4>2, StoredInjective DEF Due
        <5> QED BY <5>1 DEF InStep, Behind, FromOlder
      <4> QED BY <4>1, <4>2
    <3> QED BY <1>2, <1>3, <1>4, <2>2, <3>1, CarriesOut
  <2>3. CASE b = t
    BY <1>2, <1>4, <2>1, <2>3, Overtaken
  <2> QED BY <1>1, <2>2, <2>3
<1>6. CASE ~(\A q \in Replicas : build[q] = n)
  <2>1. /\ Schema(o) \subseteq Schema(n) \/ Schema(n) \subseteq Schema(o)
        /\ \A s \in Schema(o) \ Schema(n) : s[2] \notin NoDown
        /\ \A s \in Schema(n) \ Schema(o) : s[2] \notin NoDown
    BY <1>6 DEF InStep, UpdateOf
  <2>2. \A a, z \in {o, n} : Reached(a, z) = z /\ Updated(a, z) = Schema(z)
    BY <2>1, ReachedExtends DEF Updated, LeftBehind
  <2>3. t = n /\ b \in {o, n} /\ b \in Builds
    BY <1>1, <2>2
  <2>4. effects = Schema(b)
    BY <1>2, <2>1, <2>3 DEF With
  <2>5. Planned(r, b) /\ seen = Len(b)
    BY <1>6, <2>3, <2>4, PlannedFromDatabase
  <2>6. /\ Updated(b, beta) = Updated(o, beta)
        /\ Reached(b, beta) = Reached(o, beta)
    BY <1>3, <2>2, <2>3
  <2> QED BY <1>2, <1>3, <2>3, <2>4, <2>5, <2>6, CarriesOut
<1> QED BY <1>5, <1>6

LEMMA ApplyInStep ==
  ASSUME TypeOK, NEW o \in Builds, NEW n \in Builds, InStep(o, n),
         NEW r \in Replicas, ApplyRequired(r)
  PROVE  InStep(o, n)'
<1> DEFINE downs == replica[r].downs
           ups == replica[r].ups
           beta == build[r]
           a == Reached(o, beta)
<1>1. UNCHANGED builds /\ tableMade' = tableMade
  BY DEF ApplyRequired
<1>2. CASE Restarts(r) /\ UNCHANGED <<current, stored, effects>>
  BY <1>1, <1>2, RestartInStep DEF dbVars
<1>3. CASE /\ Applicable(r, downs, ups)
           /\ effects' = (effects \ Executed(downs)) \cup {Local(r, i) : i \in ups}
           /\ stored' = RowsAfter(r, downs, ups)
           /\ current' = Latest(downs, ups)
           /\ Becomes(r, "ready", 0, {}, {})
  <2> DEFINE rep == [pc |-> "ready", seen |-> 0, downs |-> {}, ups |-> {}]
  <2>1. rep \in Replica /\ replica' = [replica EXCEPT ![r] = rep]
    BY <1>3 DEF Replica, Becomes
  <2>2. replica'[r] = rep /\ \A q \in Replicas \ {r} : replica'[q] = replica[q]
    <3> HIDE DEF rep
    <3> QED BY <2>1, MovesTo
  <2>3. At(r, "applying")
    BY DEF ApplyRequired
  <2>4. effects' = Updated(o, beta) /\ stored' = StoredOf(a) /\ current' = Len(beta)
    BY <1>3, <2>3, Lands
  <2>5. beta \in {o, n} /\ beta \in Builds /\ Len(beta) \in Nums
    BY BuildFacts DEF InStep
  <2>6. a \in Builds /\ Len(a) = Len(beta) /\ Updated(o, beta) = With(o, a)
    BY <2>5, ReachedFacts DEF Updated, LeftBehind, With
  <2>7. a \in {o, Reached(o, n)}
    BY <2>5, ReachedSame
  <2> HIDE DEF a
  <2>8. DatabaseOK(o, n)'
    <3>1. PICK b \in {o, Reached(o, n)} : b = a
      BY <2>7
    <3>2. On(o, b)' /\ stored' = StoredOf(b)'
      BY <2>4, <2>6, <3>1 DEF On, With, StoredOf
    <3>3. tableMade' \/ o = <<>>
      BY <1>1 DEF InStep, DatabaseOK
    <3> QED BY <3>2, <3>3 DEF DatabaseOK, DatabaseIs
  <2>9. PlanOK(r, o, n)' /\ ~At(r, "applying")'
    BY <2>2 DEF PlanOK, At
  <2>10. stored' # NothingStored
    <3>1. Len(a) \in 0..MaxNum /\ DOMAIN a = 1..Len(a)
          /\ \A i \in 1..Len(a) : a[i] \in Variants
      BY <2>6, BuildsTyped
    <3>2. 1 \in 1..Len(a) /\ 1 \in Nums
      BY <2>5, <2>6 DEF Nums
    <3>3. stored'[1] = a[1] /\ a[1] # NoScript
      BY <2>4, <3>1, <3>2 DEF StoredOf
    <3> QED BY <3>2, <3>3 DEF NothingStored
  <2>11. ~Due(o, n)'
    <3> SUFFICES ASSUME \A q \in Replicas : build[q] = n
                 PROVE  stored' = StoredOf(Reached(o, n))
      BY <1>1 DEF Due, StoredOf
    <3> QED BY <2>4 DEF a
  <2> QED BY <1>1, <2>2, <2>8, <2>9, <2>10, <2>11, InStepStep
<1> QED BY <1>2, <1>3 DEF ApplyRequired

-----------------------------------------------------------------------------
(* Theorems                                                                 *)

LEMMA InvAtStart == Init => MInv
BY TypesAtStart, InStepAtStart DEF MInv

\* Nothing but the replicas' builds, their plans and the database matters.
LEMMA IdleInStep ==
  ASSUME NEW o \in Builds, NEW n \in Builds, InStep(o, n),
         UNCHANGED <<builds, dbVars, replica>>
  PROVE  InStep(o, n)'
<1>1. UNCHANGED <<builds, tableMade, current, stored, effects, replica>>
  BY DEF dbVars
<1>2. UpdateOf(o, n)'
  BY <1>1 DEF InStep, UpdateOf
<1>3. DatabaseOK(o, n)' /\ (Due(o, n) <=> Due(o, n)')
  BY <1>1, DatabaseKeeps DEF InStep
<1>4. \A r \in Replicas : /\ PlanOK(r, o, n) => PlanOK(r, o, n)'
                          /\ FromOlder(r, o) => FromOlder(r, o)'
                          /\ \A pc : At(r, pc) <=> At(r, pc)'
  BY <1>1, OthersKeep
<1>5. Behind(o, n)' /\ Unstored(o)'
  BY <1>1, <1>3, <1>4 DEF InStep, Behind, Unstored, NothingStored
<1> QED BY <1>2, <1>3, <1>4, <1>5 DEF InStep

LEMMA InvKept == MInv /\ [Next]_vars => MInv'
<1> SUFFICES ASSUME MInv, [Next]_vars PROVE MInv'
  OBVIOUS
<1>1. TypeOK' /\ PlansFit'
  BY TypesKept DEF MInv
<1>2. ASSUME Orderly' PROVE \E o \in Builds, n \in Builds : InStep(o, n)'
  <2>1. UNCHANGED builds
    BY DEF Next, Migrate, Crash, ReadCurrent, RereadCurrent, PlanRequired, PlanFirst,
           StoreAlreadyApplied, ApplyRequired, vars
  <2>2. Orderly
    BY <1>2, <2>1 DEF Orderly, Extends, Undoable
  <2>3. PICK o \in Builds, n \in Builds : InStep(o, n)
    BY <2>2 DEF MInv
  <2>4. TypeOK
    BY DEF MInv
  <2>5. CASE UNCHANGED vars
    BY <2>3, <2>5, IdleInStep DEF vars, dbVars
  <2>6. ASSUME NEW r \in Replicas, Migrate(r) PROVE InStep(o, n)'
    BY <2>3, <2>4, <2>6, ReadInStep, RereadInStep, PlanInStep, PlanFirstInStep,
       StoreInStep, ApplyInStep DEF Migrate
  <2>7. ASSUME NEW r \in Replicas, Crash(r) PROVE InStep(o, n)'
    BY <2>3, <2>4, <2>7, RestartInStep DEF Crash
  <2> QED BY <2>5, <2>6, <2>7 DEF Next
<1> QED BY <1>1, <1>2 DEF MInv

\* Every variable keeps its type: a replica never reads or makes a version or a
\* plan that is out of bounds, whatever the builds of the others.
THEOREM TypeCorrect == Spec => []TypeOK
<1>1. MInv => TypeOK
  BY DEF MInv
<1> QED BY <1>1, InvAtStart, InvKept, PTL DEF Spec

LEMMA RecordsOfInv == MInv => RecordsAgree
<1> SUFFICES ASSUME MInv, Orderly
             PROVE  IF StoredNums = {}
                    THEN {s[1] : s \in effects} = 1..current /\ Cardinality(effects) = current
                    ELSE /\ StoredNums = 1..current
                         /\ \A i \in StoredNums : <<i, stored[i]>> \in effects
                         /\ \A s \in effects : stored[s[1]] = s[2] \/ s[2] \in NoDown
  BY DEF RecordsAgree
<1>1. PICK o \in Builds, n \in Builds : InStep(o, n)
  BY DEF MInv
<1>2. PICK b \in {o, Reached(o, n)} : DatabaseIs(o, n, b)
  BY <1>1 DEF InStep, DatabaseOK
<1>3. /\ b \in Builds /\ effects = With(o, b) /\ current = Len(b)
      /\ stored = StoredOf(b) \/ (b = o /\ NeverStored(o, n))
  BY <1>1, <1>2, BasisFacts DEF InStep, DatabaseIs, On
<1>4. Len(b) \in Nat
  BY <1>3, BuildsTyped
<1>5. CASE StoredNums = {}
  <2>1. b = o
    <3> SUFFICES ASSUME stored = StoredOf(b), b # o PROVE FALSE
      BY <1>3
    <3>1. 1..Len(b) = {}
      BY <1>3, <1>5, StoredFacts
    <3>2. Len(b) = 0 /\ Len(n) = 0
      BY <1>1, <1>2, <1>4, <3>1, BasisFacts DEF InStep
    <3>3. n = <<>>
      BY <3>2, BuildsTyped
    <3>4. Reached(o, n) = o
      BY <1>1, <3>3, ReachedSame DEF InStep, UpdateOf
    <3> QED BY <1>2, <3>4
  <2>2. effects = Schema(b)
    BY <1>3, <2>1 DEF With
  <2> QED BY <1>3, <1>5, <2>2, SchemaNumbers
<1>6. CASE StoredNums # {}
  <2>1. stored = StoredOf(b)
    BY <1>3, <1>6 DEF NeverStored, NothingStored, StoredNums
  <2>2. StoredNums = 1..Len(b) /\ \A i \in 1..Len(b) : stored[i] = b[i]
    BY <1>3, <2>1, StoredFacts
  <2>3. \A i \in StoredNums : <<i, stored[i]>> \in effects
    BY <1>3, <2>2, SchemaMembers DEF With
  <2>4. ASSUME NEW s \in effects PROVE stored[s[1]] = s[2] \/ s[2] \in NoDown
    <3>1. CASE s \in Schema(b)
      BY <1>3, <2>2, <3>1, SchemaPairs
    <3>2. CASE s \notin Schema(b)
      BY <1>3, <3>2 DEF With
    <3> QED BY <3>1, <3>2
  <2> QED BY <1>3, <1>6, <2>2, <2>3, <2>4
<1> QED BY <1>5, <1>6

\* The version, the rows of stored migrations and the effects on the schema never
\* disagree, however the replicas of one or two builds overlap, crash and start
\* again without any lock.
THEOREM RecordsInStep == Spec => []RecordsAgree
BY RecordsOfInv, InvAtStart, InvKept, PTL DEF Spec

LEMMA ReadyOnItsBuild == MInv => ReadyOnBuild
<1> SUFFICES ASSUME MInv, \A q, r \in Replicas : build[q] = build[r],
                    NEW r \in Replicas, At(r, "ready")
             PROVE  /\ effects = Updated(applied, build[r])
                    /\ effects = Schema(build[r]) <=> Clean(applied, build[r])
  BY DEF ReadyOnBuild
<1>1. Orderly
  BY DEF Orderly, Extends, Undoable
<1>2. PICK o \in Builds, n \in Builds : InStep(o, n)
  BY <1>1 DEF MInv
<1>3. applied = o /\ n # <<>> /\ \A q \in Replicas : build[q] = n
  BY <1>2 DEF InStep, UpdateOf
<1>4. ~Due(o, n)
  BY <1>2 DEF InStep, Behind
<1>5. PICK b \in {o, Reached(o, n)} : DatabaseIs(o, n, b)
  BY <1>2 DEF InStep, DatabaseOK
<1>6. b = Reached(o, n)
  <2> SUFFICES ASSUME o # Reached(o, n), b = o PROVE FALSE
    BY <1>5
  <2>1. stored = StoredOf(Reached(o, n)) /\ Reached(o, n) \in Builds
    BY <1>2, <1>3, <1>4, BasisFacts DEF Due, InStep
  <2>2. CASE stored = StoredOf(o)
    BY <2>1, <2>2, StoredInjective
  <2>3. CASE stored = NothingStored
    <3>1. Reached(o, n) = <<>> /\ Len(Reached(o, n)) = Len(n)
      BY <1>2, <2>1, <2>3, StoredFacts, BasisFacts DEF InStep
    <3> QED BY <1>3, <3>1, BuildsTyped
  <2> QED BY <1>5, <2>2, <2>3 DEF DatabaseIs, NeverStored
<1>7. effects = Updated(o, n)
  BY <1>2, <1>5, <1>6, BasisFacts DEF DatabaseIs, On, InStep
<1> QED BY <1>3, <1>7, CleanUpdates

\* A replica goes on to serve, unless two builds are in use, on what its build makes
\* of the one applied before: on its own schema exactly if the update edits nothing
\* below an unchanged migration and takes down nothing without a down script.
THEOREM ServesOnItsBuild == Spec => []ReadyOnBuild
BY ReadyOnItsBuild, InvAtStart, InvKept, PTL DEF Spec

\* The transaction of a plan that is not overtaken.
LEMMA StepLands ==
  ASSUME MInv, Next, NEW r \in Replicas, Orderly, At(r, "applying"), At(r, "ready")'
  PROVE  effects' = Updated(applied, build[r])
<1>1. PICK o \in Builds, n \in Builds : InStep(o, n) /\ applied = o
  BY DEF MInv, InStep, UpdateOf
<1>2. TypeOK
  BY DEF MInv
<1>3. Starting.pc # "ready"
  BY DEF Starting
<1>4. PICK q \in Replicas : Migrate(q) \/ Crash(q)
  BY DEF Next
<1>5. q = r
  <2> SUFFICES ASSUME q # r PROVE FALSE
    OBVIOUS
  <2>1. replica'[r] = replica[r]
    BY <1>2, <1>4 DEF Migrate, Crash, ReadCurrent, RereadCurrent, PlanRequired, PlanFirst,
       StoreAlreadyApplied, ApplyRequired, Becomes, Restarts, TypeOK
  <2> QED BY <2>1 DEF At
<1>6. ~Restarts(r)
  BY <1>2, <1>3, StartingTyped, MovesTo DEF Restarts, At
<1>7. ApplyRequired(r)
  BY <1>4, <1>5, <1>6 DEF Migrate, Crash, ReadCurrent, RereadCurrent, PlanRequired,
     PlanFirst, StoreAlreadyApplied, At
<1>8. /\ Applicable(r, replica[r].downs, replica[r].ups)
      /\ effects' = (effects \ Executed(replica[r].downs)) \cup {Local(r, i) : i \in replica[r].ups}
  BY <1>6, <1>7 DEF ApplyRequired
<1> QED BY <1>1, <1>2, <1>8, Lands

\* A transaction that is committed leaves what its replica's build leads to, also
\* when its plan was made against a database another build has changed since.
THEOREM PlansLand == Spec => LandsOnBuild
<1>1. MInv /\ [Next]_vars =>
         [\A r \in Replicas : Orderly /\ At(r, "applying") /\ At(r, "ready")' =>
             effects' = Updated(applied, build[r])]_vars
  BY StepLands
<1> QED BY <1>1, InvAtStart, InvKept, PTL DEF Spec, LandsOnBuild
=============================================================================

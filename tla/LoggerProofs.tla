---------------------------- MODULE LoggerProofs ----------------------------
(***************************************************************************)
(* Proof that rotation loses the oldest lines only and keeps their order,  *)
(* whatever call fails, and that what is written to standard error is in   *)
(* the log until the log is rotated or cleared; for any number and size of *)
(* backups and any number of lines and failures.                           *)
(***************************************************************************)
EXTENDS Logger, WellFoundedInduction, FiniteSetTheorems, SequenceTheorems, TLAPS

-----------------------------------------------------------------------------
(* The loop of _rotate.                                                    *)

\* Induction: in a set without the next number of some k there is no least one.
LEMMA Induction ==
  ASSUME NEW P \in SUBSET Nat, 0 \in P, \A k \in P : k + 1 \in P
  PROVE  P = Nat
<1> SUFFICES ASSUME Nat \ P # {} PROVE FALSE
  OBVIOUS
<1> DEFINE R == OpToRel(<, Nat)
<1>1. PICK k \in Nat \ P : \A l \in Nat \ P : <<l, k>> \notin R
  <2>1. IsWellFoundedOn(R, Nat)
    BY NatLessThanWellFounded
  <2> HIDE DEF R
  <2> QED BY <2>1, WFMin
<1>2. k - 1 \in Nat \ P
  <2>1. k \in Nat /\ k # 0
    BY <1>1
  <2>2. k - 1 \in Nat /\ (k - 1) + 1 = k
    BY <2>1
  <2> QED BY <1>1, <2>2
<1>3. <<k - 1, k>> \in R
  BY <1>1, <1>2 DEF OpToRel
<1> QED BY <1>1, <1>2, <1>3

\* What the names are after the turns of the loop from Backups down to i.
Turns(g, nm, bad) ==
    g = [i \in Names |-> IF i > Backups THEN nm ELSE Shift(g[i + 1], i, bad)]

\* The loop ends.
LEMMA TurnsExist ==
  ASSUME LoggerAssumption, NEW nm, NEW bad
  PROVE  \E g : Turns(g, nm, bad) /\ Shifted(nm, bad) = g[0]
<1> DEFINE Done(g, k) ==
              /\ g = [i \in Names |-> g[i]]
              /\ \A i \in Names : i >= Backups + 1 - k =>
                    g[i] = IF i > Backups THEN nm ELSE Shift(g[i + 1], i, bad)
           P == {k \in Nat : k <= Backups + 1 => \E g : Done(g, k)}
<1>0. Backups \in Nat
  BY DEF LoggerAssumption
<1>1. 0 \in P
  <2> DEFINE g == [i \in Names |-> nm]
  <2>1. g = [i \in Names |-> g[i]] /\ \A i \in Names : g[i] = nm
    OBVIOUS
  <2> HIDE DEF g
  <2>2. Done(g, 0)
    BY <1>0, <2>1 DEF Names
  <2> QED BY <2>2
<1>2. ASSUME NEW k \in P PROVE k + 1 \in P
  <2> SUFFICES ASSUME k + 1 <= Backups + 1 PROVE \E g : Done(g, k + 1)
    OBVIOUS
  <2>1. PICK g : Done(g, k)
    BY <1>0, <1>2
  <2>2. PICK j \in Names : j = Backups - k /\ j < Backups + 1 /\ j + 1 \in Names
    BY <1>0, <1>2 DEF Names
  <2> DEFINE h == [g EXCEPT ![j] = Shift(g[j + 1], j, bad)]
  <2>3. /\ h = [i \in Names |-> h[i]] /\ h[j] = Shift(g[j + 1], j, bad)
        /\ \A i \in Names : i # j => h[i] = g[i]
    BY <2>1, <2>2
  <2> HIDE DEF h
  <2>4. ASSUME NEW i \in Names, i >= Backups + 1 - (k + 1)
        PROVE  h[i] = IF i > Backups THEN nm ELSE Shift(h[i + 1], i, bad)
    <3>1. CASE i = j
      BY <1>0, <2>2, <2>3, <3>1 DEF Names
    <3>2. CASE i # j
      <4>1. k \in Nat
        BY <1>2
      <4>2. /\ i >= Backups + 1 - k
            /\ i > Backups \/ (~(i > Backups) /\ i + 1 \in Names /\ i + 1 # j)
        BY <1>0, <2>2, <2>4, <3>2, <4>1 DEF Names
      <4>3. g[i] = IF i > Backups THEN nm ELSE Shift(g[i + 1], i, bad)
        BY <2>1, <4>2
      <4> QED BY <2>3, <3>2, <4>2, <4>3
    <3> QED BY <3>1, <3>2
  <2> QED BY <2>3, <2>4
<1>3. P = Nat
  <2>1. P \in SUBSET Nat
    OBVIOUS
  <2> HIDE DEF P
  <2> QED BY <1>1, <1>2, <2>1, Induction
<1>4. PICK g : Done(g, Backups + 1)
  BY <1>0, <1>3
<1>5. Turns(g, nm, bad)
  <2>1. \A i \in Names : i >= Backups + 1 - (Backups + 1)
    BY <1>0 DEF Names
  <2>2. /\ \A i \in Names : g[i] = IF i > Backups THEN nm ELSE Shift(g[i + 1], i, bad)
        /\ g = [i \in Names |-> g[i]]
    BY <1>4, <2>1
  <2> QED BY <2>2 DEF Turns
<1> DEFINE f == CHOOSE h : Turns(h, nm, bad)
<1>6. Turns(f, nm, bad)
  <2> HIDE DEF f
  <2> QED BY <1>5 DEF f
<1>7. Shifted(nm, bad) = f[0]
  BY DEF Shifted, Turns
<1> QED BY <1>6, <1>7

\* No two names stand for one file.
Distinct(nm) == \A i, j \in Names : nm[i] = nm[j] /\ i # j => nm[i] = 0
Naming == {nm \in [Names -> Files \cup {0}] : Distinct(nm)}

\* Each name has its own file after the loop, or that of the name before it.
Moved(to, nm) ==
    \A j \in Names : to[j] = 0 \/ to[j] = nm[j] \/ (j > 0 /\ to[j] = nm[j - 1])

\* One turn: a file is moved to the next name, or stays, or is removed.
LEMMA ShiftFacts ==
  ASSUME LoggerAssumption, NEW nm \in Naming, NEW to \in Naming, NEW bad,
         NEW i \in 0..Backups, Moved(to, nm), \A j \in 0..i : to[j] = nm[j]
  PROVE  /\ Shift(to, i, bad) \in Naming /\ Moved(Shift(to, i, bad), nm)
         /\ \A j \in 0..i : j # i => Shift(to, i, bad)[j] = nm[j]
<1>1. Backups \in Nat /\ i \in Names /\ i + 1 \in Names /\ i # i + 1 /\ (i + 1) - 1 = i /\ 0..i \subseteq Names
  BY DEF LoggerAssumption, Names
<1>2. to \in [Names -> Files \cup {0}] /\ Distinct(to) /\ to[i] = nm[i]
  BY DEF Naming
<1>3. ASSUME Shift(to, i, bad) = [to EXCEPT ![i] = 0]
      PROVE  /\ Shift(to, i, bad) \in Naming /\ Moved(Shift(to, i, bad), nm)
             /\ \A j \in 0..i : j # i => Shift(to, i, bad)[j] = nm[j]
  <2> DEFINE x == [to EXCEPT ![i] = 0]
  <2>1. x \in [Names -> Files \cup {0}] /\ x[i] = 0 /\ \A j \in Names : j # i => x[j] = to[j]
    BY <1>1, <1>2
  <2> HIDE DEF x
  <2>2. Distinct(x) /\ Moved(x, nm)
    BY <1>2, <2>1 DEF Distinct, Moved
  <2> QED BY <1>1, <1>3, <2>1, <2>2 DEF Naming, x
<1>4. ASSUME Shift(to, i, bad) = [to EXCEPT ![i + 1] = to[i], ![i] = 0]
      PROVE  /\ Shift(to, i, bad) \in Naming /\ Moved(Shift(to, i, bad), nm)
             /\ \A j \in 0..i : j # i => Shift(to, i, bad)[j] = nm[j]
  <2> DEFINE x == [to EXCEPT ![i + 1] = to[i], ![i] = 0]
  <2>1. /\ x \in [Names -> Files \cup {0}] /\ x[i] = 0 /\ x[i + 1] = to[i]
        /\ \A j \in Names : j # i /\ j # i + 1 => x[j] = to[j]
    BY <1>1, <1>2
  <2> HIDE DEF x
  <2>2. Distinct(x)
    BY <1>1, <1>2, <2>1 DEF Distinct
  <2>3. Moved(x, nm)
    BY <1>1, <1>2, <2>1 DEF Moved
  <2>4. \A j \in 0..i : j # i => x[j] = nm[j]
    BY <1>1, <2>1
  <2> QED BY <1>4, <2>1, <2>2, <2>3, <2>4 DEF Naming, x
<1>5. Shift(to, i, bad) = to \/ Shift(to, i, bad) = [to EXCEPT ![i] = 0]
      \/ Shift(to, i, bad) = [to EXCEPT ![i + 1] = to[i], ![i] = 0]
  BY DEF Shift
<1> QED BY <1>3, <1>4, <1>5

\* Renaming keeps the order of the files, whatever fails.
LEMMA ShiftedFacts ==
  ASSUME LoggerAssumption, NEW nm \in Naming, NEW bad
  PROVE  /\ Shifted(nm, bad) \in Naming /\ Moved(Shifted(nm, bad), nm)
         /\ \A i, j \in Names : \A k, l \in Names :
               /\ Shifted(nm, bad)[i] # 0 /\ Shifted(nm, bad)[j] # 0
               /\ Shifted(nm, bad)[i] = nm[k] /\ Shifted(nm, bad)[j] = nm[l]
               => (i < j <=> k < l)
<1>0. Backups \in Nat
  BY DEF LoggerAssumption
<1>1. PICK g : Turns(g, nm, bad) /\ Shifted(nm, bad) = g[0]
  BY TurnsExist
<1> DEFINE P == {k \in Nat : k <= Backups + 1 =>
                    LET i == Backups + 1 - k IN
                    /\ g[i] \in Naming /\ Moved(g[i], nm)
                    /\ \A j \in Names : j < i => g[i][j] = nm[j]}
<1>2. 0 \in P
  <2>1. Backups + 1 \in Names /\ g[Backups + 1] = nm
    BY <1>0, <1>1 DEF Turns, Names
  <2>2. Moved(nm, nm)
    BY DEF Moved
  <2> QED BY <1>0, <2>1, <2>2
<1>3. ASSUME NEW k \in P PROVE k + 1 \in P
  <2> SUFFICES ASSUME k + 1 <= Backups + 1
               PROVE  LET i == Backups + 1 - (k + 1) IN
                      /\ g[i] \in Naming /\ Moved(g[i], nm)
                      /\ \A j \in Names : j < i => g[i][j] = nm[j]
    OBVIOUS
  <2> DEFINE i == Backups - k
  <2>1. /\ i \in 0..Backups /\ Backups + 1 - (k + 1) = i /\ Backups + 1 - k = i + 1 /\ i \in Names
        /\ k <= Backups + 1
    BY <1>0, <1>3 DEF Names
  <2>2. /\ g[i + 1] \in Naming /\ Moved(g[i + 1], nm)
        /\ \A j \in Names : j < i + 1 => g[i + 1][j] = nm[j]
    BY <1>3, <2>1
  <2> HIDE DEF i
  <2>3. g[i] = Shift(g[i + 1], i, bad)
    <3>1. i \in Names /\ ~(i > Backups)
      BY <1>0, <2>1
    <3> HIDE DEF P
    <3> QED BY <1>1, <3>1 DEF Turns
  <2>4. \A j \in 0..i : g[i + 1][j] = nm[j]
    BY <1>0, <2>1, <2>2 DEF Names
  <2>5. /\ g[i] \in Naming /\ Moved(g[i], nm)
        /\ \A j \in 0..i : j # i => g[i][j] = nm[j]
    BY <2>1, <2>2, <2>3, <2>4, ShiftFacts
  <2>6. \A j \in Names : j < i => j \in 0..i /\ j # i
    BY <1>0, <2>1 DEF Names
  <2> QED BY <2>1, <2>5, <2>6
<1>4. P = Nat
  <2>1. P \in SUBSET Nat
    OBVIOUS
  <2> HIDE DEF P
  <2> QED BY <1>2, <1>3, <2>1, Induction
<1>5. g[0] \in Naming /\ Moved(g[0], nm)
  BY <1>0, <1>4
<1> DEFINE to == g[0]
<1>6. ASSUME NEW i \in Names, NEW j \in Names, NEW k \in Names, NEW l \in Names,
             to[i] # 0, to[j] # 0, to[i] = nm[k], to[j] = nm[l], i < j
      PROVE  k < l
  <2>1. /\ k = i \/ (i > 0 /\ k = i - 1)
        /\ l = j \/ (j > 0 /\ l = j - 1)
    BY <1>0, <1>5, <1>6 DEF Moved, Naming, Distinct, Names
  <2>2. k # l
    BY <1>0, <1>5, <1>6 DEF Naming, Distinct, Names
  <2> QED BY <1>0, <1>6, <2>1, <2>2 DEF Names
<1>7. ASSUME NEW i \in Names, NEW j \in Names, NEW k \in Names, NEW l \in Names,
             to[i] # 0, to[j] # 0, to[i] = nm[k], to[j] = nm[l], k < l
      PROVE  i < j
  <2>1. i # j
    BY <1>0, <1>7 DEF Naming, Distinct, Names
  <2>2. ~(j < i)
    BY <1>0, <1>6, <1>7 DEF Names
  <2> QED BY <1>0, <2>1, <2>2 DEF Names
<1> QED BY <1>1, <1>5, <1>6, <1>7

\* Without a failure every backup moves on, and the last one is removed.
LEMMA ShiftedClean ==
  ASSUME LoggerAssumption, NEW nm \in Naming
  PROVE  /\ Shifted(nm, NoFailure)[0] = 0
         /\ \A j \in 1..Backups : Shifted(nm, NoFailure)[j] = nm[j - 1]
         /\ Shifted(nm, NoFailure)[Backups + 1] = nm[Backups + 1]
<1>0. Backups \in Nat \ {0}
  BY DEF LoggerAssumption
<1>1. PICK g : Turns(g, nm, NoFailure) /\ Shifted(nm, NoFailure) = g[0]
  BY TurnsExist
<1> DEFINE Is(i, to) ==
              /\ to \in [Names -> Files \cup {0}]
              /\ \A j \in Names : j < i => to[j] = nm[j]
              /\ i <= Backups => to[i] = 0
              /\ \A j \in i + 1..Backups : to[j] = nm[j - 1]
              /\ to[Backups + 1] = nm[Backups + 1]
           P == {k \in Nat : k <= Backups + 1 => Is(Backups + 1 - k, g[Backups + 1 - k])}
<1>2. 0 \in P
  <2>1. Backups + 1 \in Names /\ g[Backups + 1] = nm
    BY <1>0, <1>1 DEF Turns, Names
  <2>2. Is(Backups + 1, nm)
    BY <1>0 DEF Naming
  <2> QED BY <1>0, <2>1, <2>2
<1>3. ASSUME NEW k \in P PROVE k + 1 \in P
  <2> SUFFICES ASSUME k + 1 <= Backups + 1
               PROVE  Is(Backups + 1 - (k + 1), g[Backups + 1 - (k + 1)])
    OBVIOUS
  <2> DEFINE i == Backups - k
             to == g[i + 1]
             x == g[i]
  <2>0. k \in Nat /\ k <= Backups + 1 /\ Is(Backups + 1 - k, g[Backups + 1 - k])
    BY <1>0
  <2> HIDE DEF P, Is
  <2>1. /\ i \in 0..Backups /\ Backups + 1 - (k + 1) = i /\ Backups + 1 - k = i + 1
        /\ i \in Names /\ ~(i > Backups) /\ i + 1 \in Names
    BY <1>0, <2>0 DEF Names
  <2>2. Is(i + 1, to)
    BY <2>0, <2>1
  <2> HIDE DEF i
  <2>3. x = Shift(to, i, NoFailure)
    BY <1>1, <2>1 DEF Turns
  <2>4. to[i] = nm[i] /\ to \in [Names -> Files \cup {0}]
    BY <1>0, <2>1, <2>2 DEF Is
  <2> HIDE DEF to, x
  <2>5. CASE nm[i] = 0 \/ i = Backups
    <3>1. x = [to EXCEPT ![i] = 0]
      BY <2>3, <2>4, <2>5 DEF Shift, NoFailure
    <3>2. x \in [Names -> Files \cup {0}] /\ x[i] = 0 /\ \A j \in Names : j # i => x[j] = to[j]
      BY <2>1, <2>4, <3>1
    <3>3. i < Backups => to[i + 1] = 0
      BY <1>0, <2>1, <2>2 DEF Is
    <3>4. \A j \in i + 1..Backups : x[j] = nm[j - 1]
      <4> SUFFICES ASSUME NEW j \in i + 1..Backups PROVE x[j] = nm[j - 1]
        OBVIOUS
      <4>1. x[j] = to[j]
        BY <1>0, <2>1, <3>2 DEF Names
      <4>2. CASE j = i + 1
        BY <1>0, <2>1, <2>5, <3>3, <4>1, <4>2
      <4>3. CASE j # i + 1
        BY <1>0, <2>1, <2>2, <4>1, <4>3 DEF Is
      <4> QED BY <4>2, <4>3
    <3>5. \A j \in Names : j < i => x[j] = nm[j]
      BY <1>0, <2>1, <2>2, <3>2 DEF Is, Names
    <3>6. x[Backups + 1] = nm[Backups + 1]
      BY <1>0, <2>1, <2>2, <3>2 DEF Is, Names
    <3> QED BY <2>1, <3>2, <3>4, <3>5, <3>6 DEF Is, x
  <2>6. CASE nm[i] # 0 /\ i # Backups
    <3>1. x = [to EXCEPT ![i + 1] = nm[i], ![i] = 0]
      BY <2>3, <2>4, <2>6 DEF Shift, NoFailure
    <3>2. /\ x \in [Names -> Files \cup {0}] /\ x[i] = 0 /\ x[i + 1] = nm[i]
          /\ \A j \in Names : j # i /\ j # i + 1 => x[j] = to[j]
      <4>1. nm[i] \in Files \cup {0} /\ i + 1 # i
        BY <2>1 DEF Naming
      <4> QED BY <2>1, <2>4, <3>1, <4>1
    <3>3. \A j \in i + 1..Backups : x[j] = nm[j - 1]
      <4> SUFFICES ASSUME NEW j \in i + 1..Backups PROVE x[j] = nm[j - 1]
        OBVIOUS
      <4>1. CASE j = i + 1
        BY <1>0, <2>1, <3>2, <4>1
      <4>2. CASE j # i + 1
        BY <1>0, <2>1, <2>2, <3>2, <4>2 DEF Is, Names
      <4> QED BY <4>1, <4>2
    <3>4. \A j \in Names : j < i => x[j] = nm[j]
      BY <1>0, <2>1, <2>2, <3>2 DEF Is, Names
    <3>5. x[Backups + 1] = nm[Backups + 1]
      BY <1>0, <2>1, <2>2, <2>6, <3>2 DEF Is, Names
    <3> QED BY <2>1, <3>2, <3>3, <3>4, <3>5 DEF Is, x
  <2> QED BY <2>5, <2>6
<1>4. P = Nat
  <2>1. P \in SUBSET Nat
    OBVIOUS
  <2> HIDE DEF P
  <2> QED BY <1>2, <1>3, <2>1, Induction
<1>5. Is(0, g[0])
  BY <1>0, <1>4
<1> QED BY <1>0, <1>1, <1>5

-----------------------------------------------------------------------------
(* Files.                                                                  *)

LEMMA OneMore ==
  ASSUME NEW S, NEW x, NEW k \in Nat, IsFiniteSet(S), Cardinality(S) <= k
  PROVE  /\ IsFiniteSet(S \cup {x}) /\ Cardinality(S \cup {x}) \in Nat
         /\ Cardinality(S \cup {x}) <= k + 1
<1>1. Cardinality(S) \in Nat
  BY FS_CardinalityType
<1>2. IsFiniteSet(S \cup {x})
      /\ Cardinality(S \cup {x}) = IF x \in S THEN Cardinality(S) ELSE Cardinality(S) + 1
  BY FS_AddElement
<1> QED BY <1>1, <1>2

\* The card has a file for every name and both descriptors.
LEMMA FreeFacts ==
  ASSUME LoggerAssumption, NEW nm
  PROVE  /\ Free(nm) \in Files /\ Free(nm) # fh.file /\ Free(nm) # err
         /\ \A i \in Names : nm[i] # Free(nm)
<1> DEFINE named == {nm[i] : i \in Names}
           used == named \cup {fh.file, err}
<1>0. Backups \in Nat
  BY DEF LoggerAssumption
<1>1. IsFiniteSet(Names) /\ Cardinality(Names) = Backups + 2
  <2>1. IsFiniteSet(0..Backups + 1) /\ Cardinality(0..Backups + 1) = (Backups + 1) - 0 + 1
    BY <1>0, FS_Interval
  <2> QED BY <1>0, <2>1 DEF Names
<1>2. IsFiniteSet(Files) /\ Cardinality(Files) = Backups + 5
  <2>1. IsFiniteSet(1..Backups + 5) /\ Cardinality(1..Backups + 5) = (Backups + 5) - 1 + 1
    BY <1>0, FS_Interval
  <2> QED BY <1>0, <2>1 DEF Files
<1>3. IsFiniteSet(named) /\ Cardinality(named) <= Backups + 2 /\ Cardinality(named) \in Nat
  <2> DEFINE s == [i \in Names |-> nm[i]]
  <2>1. s \in Surjection(Names, named)
    BY DEF Surjection
  <2> HIDE DEF s, named
  <2>2. IsFiniteSet(named) /\ Cardinality(named) <= Cardinality(Names)
    BY <1>1, <2>1, FS_Surjection
  <2> QED BY <1>1, <2>2, FS_CardinalityType
<1>4. IsFiniteSet(used) /\ Cardinality(used) <= Backups + 4 /\ Cardinality(used) \in Nat
  <2> DEFINE more == named \cup {fh.file}
  <2>1. used = more \cup {err} /\ Backups + 2 \in Nat /\ Backups + 3 \in Nat
    BY <1>0
  <2> HIDE DEF named, used
  <2>2. IsFiniteSet(more) /\ Cardinality(more) \in Nat /\ Cardinality(more) <= (Backups + 2) + 1
    BY <1>3, <2>1, OneMore
  <2> HIDE DEF more
  <2>3. Cardinality(more) <= Backups + 3
    BY <1>0, <2>2
  <2>4. IsFiniteSet(used) /\ Cardinality(used) \in Nat /\ Cardinality(used) <= (Backups + 3) + 1
    BY <2>1, <2>2, <2>3, OneMore
  <2> QED BY <1>0, <2>4
<1>5. ~(Files \subseteq used)
  <2> HIDE DEF used
  <2> SUFFICES ASSUME Files \subseteq used PROVE FALSE
    OBVIOUS
  <2>1. Cardinality(Files) <= Cardinality(used)
    BY <1>4, FS_Subset
  <2> QED BY <1>0, <1>2, <1>4, <2>1
<1>6. PICK f \in Files : f \notin used
  BY <1>5
<1>7. Free(nm) \in Files /\ Free(nm) \notin used
  BY <1>6 DEF Free
<1> QED BY <1>7

\* What a name holds.
Held(nm, d, i) == IF nm[i] = 0 THEN <<>> ELSE d[nm[i]]

\* The files, when k lines have been written.
Store(k) == [Files -> Seq(1..k)]

LEMMA StoreGrows ==
  ASSUME NEW k \in Nat, NEW l \in Nat, k <= l, NEW d \in Store(k)
  PROVE  d \in Store(l)
<1>1. ASSUME NEW f \in Files PROVE d[f] \in Seq(1..l)
  <2>1. d[f] \in Seq(1..k) /\ 1..k \subseteq 1..l
    BY DEF Store
  <2> QED BY <2>1, SeqMonotonic
<1> QED BY <1>1 DEF Store

\* open gives the log a file of its own and leaves the other names alone.
LEMMA OpenedFacts ==
  ASSUME LoggerAssumption, NEW k \in Nat, NEW nm \in Naming, NEW d \in Store(k), NEW append \in BOOLEAN
  PROVE  LET o == Opened(nm, d, append) IN
         /\ o.name \in Naming /\ o.name[0] \in Files
         /\ nm[0] # 0 => o.name[0] = nm[0]
         /\ nm[0] = 0 => o.name[0] # err
         /\ \A i \in Names : i # 0 => o.name[i] = nm[i] /\ Held(o.name, o.data, i) = Held(nm, d, i)
         /\ o.data \in Store(k)
         /\ o.data[o.name[0]] = IF append THEN Held(nm, d, 0) ELSE <<>>
         /\ o.fh = [file |-> o.name[0], append |-> append, pos |-> Len(o.data[o.name[0]])]
<1> DEFINE f == IF nm[0] = 0 THEN Free(nm) ELSE nm[0]
           kept == IF append /\ nm[0] # 0 THEN d[f] ELSE <<>>
           x == [nm EXCEPT ![0] = f]
           y == [d EXCEPT ![f] = kept]
           o == Opened(nm, d, append)
<1>1. o = [name |-> x, data |-> y, fh |-> [file |-> f, append |-> append, pos |-> Len(kept)]]
  BY DEF Opened
<1>2. 0 \in Names /\ 0 \notin Files
  BY DEF LoggerAssumption, Names, Files
<1>3. nm \in [Names -> Files \cup {0}] /\ Distinct(nm)
  BY DEF Naming
<1>4. f \in Files /\ (nm[0] = 0 => f # err /\ \A i \in Names : nm[i] # f)
  BY <1>2, <1>3, FreeFacts
<1>5. kept \in Seq(1..k) /\ kept = IF append THEN Held(nm, d, 0) ELSE <<>>
  <2>1. d[f] \in Seq(1..k) /\ <<>> \in Seq(1..k)
    BY <1>4 DEF Store
  <2>2. nm[0] # 0 => Held(nm, d, 0) = d[f]
    BY DEF Held
  <2>3. nm[0] = 0 => Held(nm, d, 0) = <<>>
    BY DEF Held
  <2> HIDE DEF f, x, y, o
  <2> QED BY <2>1, <2>2, <2>3
<1> HIDE DEF f, kept
<1>6. /\ x \in [Names -> Files \cup {0}] /\ x[0] = f
      /\ \A i \in Names : i # 0 => x[i] = nm[i]
  BY <1>2, <1>3, <1>4
<1>7. y \in Store(k) /\ y[f] = kept /\ \A g \in Files : g # f => y[g] = d[g]
  BY <1>4, <1>5 DEF Store
<1>8. o.name = x /\ o.data = y /\ o.fh = [file |-> f, append |-> append, pos |-> Len(kept)]
  BY <1>1
<1> HIDE DEF x, y, o
<1>9. \A i \in Names : i # 0 => x[i] # f
  BY <1>2, <1>3, <1>4, <1>6 DEF Distinct, f
<1>10. x \in Naming
  BY <1>3, <1>6, <1>9 DEF Naming, Distinct
<1>11. \A i \in Names : i # 0 => Held(x, y, i) = Held(nm, d, i)
  BY <1>6, <1>7, <1>9 DEF Held
<1>12. nm[0] # 0 => f = nm[0]
  BY DEF f
<1> QED BY <1>4, <1>5, <1>6, <1>7, <1>8, <1>10, <1>11, <1>12 DEF o

\* A line is put at the end, or in the place of another.
LEMMA PutFacts ==
  ASSUME NEW k \in Nat, NEW d \in Store(k), NEW f \in Files, NEW p \in Nat, NEW line \in 1..k
  PROVE  LET e == Put(d, f, p, line) IN
         /\ e \in Store(k) /\ \A g \in Files : g # f => e[g] = d[g]
         /\ p < Len(d[f]) => /\ Len(e[f]) = Len(d[f]) /\ e[f][p + 1] = line
                             /\ \A q \in DOMAIN d[f] : q # p + 1 => e[f][q] = d[f][q]
         /\ ~(p < Len(d[f])) => /\ Len(e[f]) = Len(d[f]) + 1 /\ e[f][Len(d[f]) + 1] = line
                                /\ \A q \in DOMAIN d[f] : e[f][q] = d[f][q]
<1> DEFINE s == d[f]
           t == IF p < Len(s) THEN [s EXCEPT ![p + 1] = line] ELSE Append(s, line)
           e == Put(d, f, p, line)
<1>1. e = [d EXCEPT ![f] = t]
  BY DEF Put
<1>2. s \in Seq(1..k) /\ Len(s) \in Nat
  BY DEF Store
<1>3. CASE p < Len(s)
  <2>1. p + 1 \in 1..Len(s) /\ DOMAIN s = 1..Len(s)
    BY <1>2, <1>3
  <2> DEFINE u == [s EXCEPT ![p + 1] = line]
  <2>2. u[p + 1] = line /\ \A q \in DOMAIN s : q # p + 1 => u[q] = s[q]
    BY <1>2, <2>1
  <2>3. u \in Seq(1..k) /\ Len(u) = Len(s)
    BY <1>2, <2>1, ExceptSeq
  <2>4. t = u
    BY <1>3
  <2> HIDE DEF u, t
  <2>5. e \in Store(k) /\ e[f] = u /\ \A g \in Files : g # f => e[g] = d[g]
    BY <1>1, <2>3, <2>4 DEF Store
  <2> HIDE DEF e
  <2> QED BY <1>3, <2>2, <2>3, <2>5 DEF e
<1>4. CASE ~(p < Len(s))
  <2> DEFINE u == Append(s, line)
  <2>1. /\ u \in Seq(1..k) /\ Len(u) = Len(s) + 1 /\ u[Len(s) + 1] = line
        /\ \A q \in DOMAIN s : u[q] = s[q]
    BY <1>2
  <2>2. t = u
    BY <1>4
  <2> HIDE DEF u, t
  <2>3. e \in Store(k) /\ e[f] = u /\ \A g \in Files : g # f => e[g] = d[g]
    BY <1>1, <2>1, <2>2 DEF Store
  <2> HIDE DEF e
  <2> QED BY <1>4, <2>1, <2>3 DEF e
<1> QED BY <1>3, <1>4

\* What is left is what has a name or is open.
LEMMA BecomesFacts ==
  ASSUME LoggerAssumption, NEW k \in Nat, NEW s, NEW e, s.name \in Naming, s.data \in Store(k), Becomes(s, e)
  PROVE  /\ name' = s.name /\ fh' = s.fh /\ err' = e /\ data' \in Store(k)
         /\ \A i \in Names : Held(name', data', i) = Held(s.name, s.data, i)
         /\ s.fh.file \in Files => data'[s.fh.file] = s.data[s.fh.file]
<1>1. name' = s.name /\ fh' = s.fh /\ err' = e
  BY DEF Becomes
<1> DEFINE live == {s.name[i] : i \in Names} \cup {s.fh.file, e}
<1>2. data' = [f \in Files |-> IF f \in live THEN s.data[f] ELSE <<>>]
  BY DEF Becomes
<1>3. \A f \in Files : s.data[f] \in Seq(1..k)
  BY DEF Store
<1>4. \A i \in Names : s.name[i] \in live /\ s.name[i] \in Files \cup {0}
  BY DEF Naming
<1>5. s.fh.file \in live
  OBVIOUS
<1> HIDE DEF live
<1>6. data' \in Store(k)
  <2>1. <<>> \in Seq(1..k)
    OBVIOUS
  <2>2. \A f \in Files : (IF f \in live THEN s.data[f] ELSE <<>>) \in Seq(1..k)
    BY <1>3, <2>1
  <2> QED BY <1>2, <2>2 DEF Store
<1>7. \A f \in Files : f \in live => data'[f] = s.data[f]
  BY <1>2
<1>8. \A i \in Names : Held(name', data', i) = Held(s.name, s.data, i)
  BY <1>1, <1>4, <1>7 DEF Held
<1> QED BY <1>1, <1>5, <1>6, <1>7, <1>8

-----------------------------------------------------------------------------
(* The order of the lines of a run.                                        *)

\* From the oldest backup to the log the lines of own are in order.
OrderedIn(nm, d, own) ==
    \A i, j \in Names : \A p \in DOMAIN Held(nm, d, i), q \in DOMAIN Held(nm, d, j) :
       /\ i > j \/ (i = j /\ p < q)
       /\ Held(nm, d, i)[p] \in own /\ Held(nm, d, j)[q] \in own
       => Held(nm, d, i)[p] < Held(nm, d, j)[q]

\* Every name that holds something holds what a name held, in the same order.
Carried(to, e, nm, d) ==
    \A i, j \in Names : Held(to, e, i) # <<>> /\ Held(to, e, j) # <<>> =>
       \E k, l \in Names : /\ Held(to, e, i) = Held(nm, d, k) /\ Held(to, e, j) = Held(nm, d, l)
                           /\ i > j => k > l
                           /\ i = j => k = l

LEMMA CarriedOrdered ==
  ASSUME NEW to, NEW e, NEW nm, NEW d, NEW own, Carried(to, e, nm, d), OrderedIn(nm, d, own)
  PROVE  OrderedIn(to, e, own)
<1> SUFFICES ASSUME NEW i \in Names, NEW j \in Names,
                    NEW p \in DOMAIN Held(to, e, i), NEW q \in DOMAIN Held(to, e, j),
                    i > j \/ (i = j /\ p < q),
                    Held(to, e, i)[p] \in own, Held(to, e, j)[q] \in own
             PROVE  Held(to, e, i)[p] < Held(to, e, j)[q]
  BY DEF OrderedIn
<1>1. Held(to, e, i) # <<>> /\ Held(to, e, j) # <<>>
  OBVIOUS
<1>2. PICK k \in Names, l \in Names :
         /\ Held(to, e, i) = Held(nm, d, k) /\ Held(to, e, j) = Held(nm, d, l)
         /\ i > j => k > l
         /\ i = j => k = l
  BY <1>1 DEF Carried
<1> QED BY <1>2 DEF OrderedIn

\* Names that keep what they hold or lose it keep the order.
LEMMA LessOrdered ==
  ASSUME NEW to, NEW e, NEW nm, NEW d, NEW own, OrderedIn(nm, d, own),
         \A i \in Names : Held(to, e, i) = Held(nm, d, i) \/ Held(to, e, i) = <<>>
  PROVE  OrderedIn(to, e, own)
<1>1. Carried(to, e, nm, d)
  BY DEF Carried
<1> QED BY <1>1, CarriedOrdered

LEMMA ShiftedOrdered ==
  ASSUME LoggerAssumption, NEW nm \in Naming, NEW d, NEW bad, NEW own, OrderedIn(nm, d, own)
  PROVE  OrderedIn(Shifted(nm, bad), d, own)
<1> DEFINE to == Shifted(nm, bad)
<1>1. /\ to \in Naming /\ Moved(to, nm)
      /\ \A i, j \in Names : \A k, l \in Names :
            to[i] # 0 /\ to[j] # 0 /\ to[i] = nm[k] /\ to[j] = nm[l] => (i < j <=> k < l)
  BY ShiftedFacts
<1> HIDE DEF to
<1>2. ASSUME NEW i \in Names, to[i] # 0
      PROVE  \E k \in Names : to[i] = nm[k] /\ Held(to, d, i) = Held(nm, d, k)
  <2>1. \E k \in Names : to[i] = nm[k]
    <3>1. i > 0 => i - 1 \in Names
      BY DEF LoggerAssumption, Names
    <3> QED BY <1>1, <1>2, <3>1 DEF Moved
  <2> QED BY <1>2, <2>1 DEF Held
<1>3. ASSUME NEW i \in Names, NEW j \in Names, Held(to, d, i) # <<>>, Held(to, d, j) # <<>>
      PROVE  \E k, l \in Names :
                /\ Held(to, d, i) = Held(nm, d, k) /\ Held(to, d, j) = Held(nm, d, l)
                /\ i > j => k > l
                /\ i = j => k = l
  <2>1. to[i] # 0 /\ to[j] # 0
    BY <1>3 DEF Held
  <2>2. PICK k \in Names : to[i] = nm[k] /\ Held(to, d, i) = Held(nm, d, k)
    BY <1>2, <2>1
  <2>3. CASE i = j
    BY <2>2, <2>3 DEF LoggerAssumption, Names
  <2>4. CASE i # j
    <3>1. PICK l \in Names : to[j] = nm[l] /\ Held(to, d, j) = Held(nm, d, l)
      BY <1>2, <2>1
    <3>2. j < i <=> l < k
      BY <1>1, <2>1, <2>2, <3>1
    <3>3. i > j => k > l
      BY <3>2 DEF LoggerAssumption, Names
    <3> QED BY <2>2, <2>4, <3>1, <3>3
  <2> QED BY <2>3, <2>4
<1>4. Carried(to, d, nm, d)
  BY <1>3 DEF Carried
<1> QED BY <1>4, CarriedOrdered DEF to

\* The lines of own are among the first p.
Within(s, own, p) == \A q \in DOMAIN s : s[q] \in own => q <= p

\* The line goes behind all those of own, at the position p of the log.
GoesBehind(nm, d, f, p, own, line) ==
    LET e == Put(d, f, p, line) IN
    /\ e \in Store(line)
    /\ OrderedIn(nm, e, own \cup {line})
    /\ Within(e[f], own \cup {line}, p + 1)
    /\ p + 1 <= Len(e[f])
    /\ \A i \in Names : i # 0 => Held(nm, e, i) = Held(nm, d, i)

\* A line of the handler goes behind all those of the run.
LEMMA OwnLineOrdered ==
  ASSUME LoggerAssumption, NEW k \in Nat, NEW nm \in Naming, NEW d \in Store(k), NEW p \in Nat,
         NEW own \in SUBSET (1..k), OrderedIn(nm, d, own), NEW f \in Files, f = nm[0],
         NEW line, line = k + 1,
         p <= Len(d[f]), Within(d[f], own, p)
  PROVE  GoesBehind(nm, d, f, p, own, line)
<1> DEFINE e == Put(d, f, p, line)
<1>0. /\ 0 \in Names /\ \A i \in Names : i \in Nat
      /\ f = nm[0] /\ f \in Files /\ f # 0 /\ p <= Len(d[f]) /\ Within(d[f], own, p)
  BY DEF LoggerAssumption, Names, Files
<1>1. d \in Store(line) /\ line \in 1..line /\ line \in Nat
  BY StoreGrows
<1>2. /\ e \in Store(line) /\ \A g \in Files : g # f => e[g] = d[g]
      /\ p < Len(d[f]) => /\ Len(e[f]) = Len(d[f]) /\ e[f][p + 1] = line
                          /\ \A q \in DOMAIN d[f] : q # p + 1 => e[f][q] = d[f][q]
      /\ ~(p < Len(d[f])) => /\ Len(e[f]) = Len(d[f]) + 1 /\ e[f][Len(d[f]) + 1] = line
                             /\ \A q \in DOMAIN d[f] : e[f][q] = d[f][q]
  BY <1>0, <1>1, PutFacts
<1>3. /\ d[f] \in Seq(1..k) /\ Len(d[f]) \in Nat /\ DOMAIN d[f] = 1..Len(d[f])
      /\ e[f] \in Seq(1..line) /\ Len(e[f]) \in Nat /\ DOMAIN e[f] = 1..Len(e[f])
      /\ \A q \in DOMAIN d[f] : d[f][q] \in 1..k
  <2>1. e \in Store(line) /\ f \in Files
    BY <1>0, <1>2
  <2> HIDE DEF e
  <2> QED BY <2>1 DEF Store
<1> HIDE DEF e
<1>4. /\ p + 1 \in DOMAIN e[f] /\ e[f][p + 1] = line
      /\ \A q \in DOMAIN e[f] : q # p + 1 => q \in DOMAIN d[f] /\ e[f][q] = d[f][q]
  <2>1. CASE p < Len(d[f])
    BY <1>2, <1>3, <2>1
  <2>2. CASE ~(p < Len(d[f]))
    <3>1. p = Len(d[f])
      BY <1>0, <1>3, <2>2
    <3> QED BY <1>2, <1>3, <2>2, <3>1
  <2> QED BY <2>1, <2>2
<1>5. \A i \in Names : i # 0 => Held(nm, e, i) = Held(nm, d, i)
  BY <1>0, <1>2 DEF Held, Naming, Distinct
<1>6. Held(nm, e, 0) = e[f] /\ Held(nm, d, 0) = d[f]
  BY <1>0 DEF Held
<1>7. \A q \in DOMAIN e[f] : e[f][q] \in own \cup {line} => q <= p + 1
  <2> SUFFICES ASSUME NEW q \in DOMAIN e[f], e[f][q] \in own \cup {line}, q # p + 1 PROVE q <= p + 1
    BY <1>3
  <2>1. q \in DOMAIN d[f] /\ e[f][q] = d[f][q] /\ d[f][q] \in 1..k
    BY <1>3, <1>4
  <2>2. d[f][q] \in own
    BY <2>1
  <2> QED BY <1>0, <1>3, <2>1, <2>2 DEF Within
<1>8. ASSUME NEW i \in Names, NEW q \in DOMAIN Held(nm, d, i) PROVE Held(nm, d, i)[q] \in 1..k
  <2>1. nm[i] = 0 \/ nm[i] \in Files
    BY DEF Naming
  <2>2. Held(nm, d, i) \in Seq(1..k)
    BY <2>1 DEF Held, Store
  <2> QED BY <2>2
<1>9. ASSUME NEW i \in Names, NEW j \in Names,
             NEW q \in DOMAIN Held(nm, e, i), NEW r \in DOMAIN Held(nm, e, j),
             i > j \/ (i = j /\ q < r),
             Held(nm, e, i)[q] \in own \cup {line}, Held(nm, e, j)[r] \in own \cup {line}
      PROVE  Held(nm, e, i)[q] < Held(nm, e, j)[r]
  <2>1. ~(i = 0 /\ q = p + 1)
    <3> SUFFICES ASSUME i = 0, q = p + 1 PROVE FALSE
      OBVIOUS
    <3>1. j = 0 /\ q < r
      BY <1>0, <1>9
    <3>2. r \in DOMAIN e[f] /\ e[f][r] \in own \cup {line}
      BY <1>6, <1>9, <3>1
    <3>3. r <= p + 1 /\ r \in Nat
      BY <1>3, <1>7, <3>2
    <3> QED BY <3>1, <3>3
  <2>2. q \in DOMAIN Held(nm, d, i) /\ Held(nm, e, i)[q] = Held(nm, d, i)[q]
    BY <1>4, <1>5, <1>6, <2>1
  <2>3. Held(nm, d, i)[q] \in 1..k /\ Held(nm, d, i)[q] \in own
    BY <1>8, <1>9, <2>2
  <2>4. CASE j = 0 /\ r = p + 1
    BY <1>4, <1>6, <2>2, <2>3, <2>4
  <2>5. CASE ~(j = 0 /\ r = p + 1)
    <3>1. r \in DOMAIN Held(nm, d, j) /\ Held(nm, e, j)[r] = Held(nm, d, j)[r]
      BY <1>4, <1>5, <1>6, <2>5
    <3>2. Held(nm, d, j)[r] \in own
      BY <1>8, <1>9, <3>1
    <3> QED BY <1>9, <2>2, <2>3, <3>1, <3>2 DEF OrderedIn
  <2> QED BY <2>4, <2>5
<1>10. OrderedIn(nm, e, own \cup {line})
  BY <1>9 DEF OrderedIn
<1>11. p + 1 <= Len(e[f])
  BY <1>3, <1>4
<1>12. Within(e[f], own \cup {line}, p + 1)
  BY <1>7 DEF Within
<1> QED BY <1>2, <1>5, <1>10, <1>11, <1>12 DEF e, GoesBehind

\* The line goes to the end of the file f and is none of own.
GoesLast(nm, d, f, own, line) ==
    LET e == Put(d, f, Len(d[f]), line) IN
    /\ e \in Store(line)
    /\ OrderedIn(nm, e, own)
    /\ \A g \in Files : g # f => e[g] = d[g]
    /\ Len(e[f]) = Len(d[f]) + 1 /\ e[f][Len(d[f]) + 1] = line
    /\ \A q \in DOMAIN d[f] : e[f][q] = d[f][q]

\* A line of another writer is none of the run's, at the end of any file.
LEMMA OtherLineOrdered ==
  ASSUME LoggerAssumption, NEW k \in Nat, NEW nm \in Naming, NEW d \in Store(k), NEW f \in Files,
         NEW own \in SUBSET (1..k), OrderedIn(nm, d, own), NEW line, line = k + 1
  PROVE  GoesLast(nm, d, f, own, line)
<1> DEFINE e == Put(d, f, Len(d[f]), line)
<1>1. d \in Store(line) /\ line \in 1..line /\ line \in Nat /\ Len(d[f]) \in Nat
  BY StoreGrows DEF Store
<1>2. /\ e \in Store(line) /\ \A g \in Files : g # f => e[g] = d[g]
      /\ Len(e[f]) = Len(d[f]) + 1 /\ e[f][Len(d[f]) + 1] = line
      /\ \A q \in DOMAIN d[f] : e[f][q] = d[f][q]
  BY <1>1, PutFacts
<1>3. /\ DOMAIN d[f] = 1..Len(d[f]) /\ Len(d[f]) \in Nat
      /\ e[f] \in Seq(1..line) /\ DOMAIN e[f] = 1..Len(e[f])
  BY <1>2 DEF Store
<1> HIDE DEF e
<1>4. \A q \in DOMAIN e[f] : e[f][q] \in own => q \in DOMAIN d[f] /\ e[f][q] = d[f][q]
  BY <1>2, <1>3
<1>5. ASSUME NEW i \in Names, NEW q \in DOMAIN Held(nm, e, i), Held(nm, e, i)[q] \in own
      PROVE  q \in DOMAIN Held(nm, d, i) /\ Held(nm, e, i)[q] = Held(nm, d, i)[q]
  <2>1. nm[i] = 0 \/ nm[i] \in Files
    BY DEF Naming
  <2>2. CASE nm[i] = 0
    BY <1>5, <2>2 DEF Held
  <2>3. CASE nm[i] # 0 /\ nm[i] # f
    BY <1>2, <1>5, <2>1, <2>3 DEF Held
  <2>4. CASE nm[i] # 0 /\ nm[i] = f
    <3>1. Held(nm, e, i) = e[f] /\ Held(nm, d, i) = d[f]
      BY <2>4 DEF Held
    <3> QED BY <1>4, <1>5, <3>1
  <2> QED BY <2>2, <2>3, <2>4
<1>6. OrderedIn(nm, e, own)
  <2> SUFFICES ASSUME NEW i \in Names, NEW j \in Names,
                      NEW p \in DOMAIN Held(nm, e, i), NEW q \in DOMAIN Held(nm, e, j),
                      i > j \/ (i = j /\ p < q),
                      Held(nm, e, i)[p] \in own, Held(nm, e, j)[q] \in own
               PROVE  Held(nm, e, i)[p] < Held(nm, e, j)[q]
    BY DEF OrderedIn
  <2>1. p \in DOMAIN Held(nm, d, i) /\ Held(nm, e, i)[p] = Held(nm, d, i)[p]
    BY <1>5
  <2>2. q \in DOMAIN Held(nm, d, j) /\ Held(nm, e, j)[q] = Held(nm, d, j)[q]
    BY <1>5
  <2> QED BY <2>1, <2>2 DEF OrderedIn
<1> QED BY <1>2, <1>6 DEF e, GoesLast

\* A tail of the log, in a file of its own, keeps the order.
LEMMA TailOrdered ==
  ASSUME LoggerAssumption, NEW k \in Nat, NEW nm \in Naming, NEW d \in Store(k), NEW own,
         OrderedIn(nm, d, own), nm[0] # 0, Len(d[nm[0]]) > MaxBytes
  PROVE  LET f == Free(nm)
             s == d[nm[0]]
             to == [nm EXCEPT ![0] = f]
             e == [d EXCEPT ![f] = SubSeq(s, Len(s) - MaxBytes + 2, Len(s))]
         IN to \in Naming /\ e \in Store(k) /\ OrderedIn(to, e, own)
<1> DEFINE f == Free(nm)
           s == d[nm[0]]
           m == Len(s) - MaxBytes + 2
           t == SubSeq(s, m, Len(s))
           to == [nm EXCEPT ![0] = f]
           e == [d EXCEPT ![f] = t]
<1>0. 0 \in Names /\ nm[0] \in Files /\ nm \in [Names -> Files \cup {0}] /\ 0 \notin Files
      /\ \A i \in Names : i \in Nat
  BY DEF Naming, Names, LoggerAssumption, Files
<1>1. f \in Files /\ \A i \in Names : nm[i] # f
  BY FreeFacts
<1>2. s \in Seq(1..k) /\ Len(s) \in Nat /\ DOMAIN s = 1..Len(s) /\ \A q \in 1..Len(s) : s[q] \in 1..k
  BY <1>0 DEF Store
<1>3. m \in Int /\ m >= 1 /\ \A i \in m..Len(s) : i \in 1..Len(s)
  BY <1>2 DEF LoggerAssumption
<1> HIDE DEF m
<1>4. /\ t \in Seq(1..k)
      /\ Len(t) = IF m <= Len(s) THEN Len(s) - m + 1 ELSE 0
      /\ \A i \in 1..Len(s) - m + 1 : t[i] = s[m + i - 1]
  <2>1. \A i \in m..Len(s) : s[i] \in 1..k
    BY <1>2, <1>3
  <2>2. Len(s) \in Int
    BY <1>2
  <2> HIDE DEF s
  <2> QED BY <1>3, <2>1, <2>2, SubSeqProperties
<1>5. /\ DOMAIN t = 1..Len(t)
      /\ \A i \in DOMAIN t : m + i - 1 \in DOMAIN s /\ t[i] = s[m + i - 1]
      /\ \A i \in DOMAIN t : i \in Int
  <2>1. DOMAIN t = 1..Len(t) /\ Len(t) \in Nat
    BY <1>4
  <2>2. ASSUME NEW i \in DOMAIN t
        PROVE  i \in 1..Len(s) - m + 1 /\ m + i - 1 \in 1..Len(s) /\ i \in Int
    <3> HIDE DEF s, t
    <3>1. i \in Int /\ 1 <= i /\ i <= Len(t)
      BY <2>1, <2>2
    <3>2. Len(s) \in Int /\ m \in Int /\ m >= 1
      BY <1>2, <1>3
    <3>3. Len(t) = IF m <= Len(s) THEN Len(s) - m + 1 ELSE 0
      BY <1>4
    <3>4. i <= Len(s) - m + 1
      BY <3>1, <3>2, <3>3
    <3> QED BY <3>1, <3>2, <3>4
  <2> QED BY <1>2, <1>4, <2>1, <2>2
<1> HIDE DEF f, s, t
<1>6. /\ to \in [Names -> Files \cup {0}] /\ to[0] = f
      /\ \A i \in Names : i # 0 => to[i] = nm[i]
  BY <1>0, <1>1
<1>7. e \in Store(k) /\ e[f] = t /\ \A g \in Files : g # f => e[g] = d[g]
  BY <1>1, <1>4 DEF Store
<1> HIDE DEF to, e
<1>8. to \in Naming
  BY <1>1, <1>6 DEF Naming, Distinct
<1>9. Held(to, e, 0) = t /\ Held(nm, d, 0) = s
  <2>1. f # 0
    BY <1>0, <1>1
  <2> QED BY <1>0, <1>6, <1>7, <2>1 DEF Held, s
<1>10. \A i \in Names : i # 0 => Held(to, e, i) = Held(nm, d, i)
  <2>1. \A i \in Names : nm[i] = 0 \/ (nm[i] \in Files /\ nm[i] # f)
    BY <1>0, <1>1
  <2> QED BY <1>6, <1>7, <2>1 DEF Held
<1>11. OrderedIn(to, e, own)
  <2> SUFFICES ASSUME NEW i \in Names, NEW j \in Names,
                      NEW p \in DOMAIN Held(to, e, i), NEW q \in DOMAIN Held(to, e, j),
                      i > j \/ (i = j /\ p < q),
                      Held(to, e, i)[p] \in own, Held(to, e, j)[q] \in own
               PROVE  Held(to, e, i)[p] < Held(to, e, j)[q]
    BY DEF OrderedIn
  <2> DEFINE a == IF i = 0 THEN m + p - 1 ELSE p
             b == IF j = 0 THEN m + q - 1 ELSE q
  <2>1. a \in DOMAIN Held(nm, d, i) /\ Held(to, e, i)[p] = Held(nm, d, i)[a]
    BY <1>5, <1>9, <1>10
  <2>2. b \in DOMAIN Held(nm, d, j) /\ Held(to, e, j)[q] = Held(nm, d, j)[b]
    BY <1>5, <1>9, <1>10
  <2>3. i > j \/ (i = j /\ a < b)
    <3>1. CASE i = 0 /\ j = 0
      <4>1. p \in Int /\ q \in Int /\ p < q
        BY <1>5, <1>9, <3>1
      <4> QED BY <1>3, <3>1, <4>1
    <3>2. CASE ~(i = 0 /\ j = 0)
      BY <3>2
    <3> QED BY <3>1, <3>2
  <2> HIDE DEF a, b
  <2> QED BY <2>1, <2>2, <2>3 DEF OrderedIn
<1> QED BY <1>7, <1>8, <1>11 DEF e, to, f, s, t, m

-----------------------------------------------------------------------------
(* What the operations leave.                                              *)

\* The handler is closed, or at the end of the log.
Fits(s, k) ==
    /\ s.name \in Naming /\ s.data \in Store(k)
    /\ \/ s.fh = Closed
       \/ /\ s.name[0] \in Files
          /\ \E append \in BOOLEAN : s.fh = [file |-> s.name[0], append |-> append,
                                             pos |-> Len(s.data[s.name[0]])]

\* In the log as opened for writing, no line of the run is behind the handler.
Placed(h, d, own) ==
    h # Closed /\ ~h.append =>
       h.pos <= Len(d[h.file]) /\ Within(d[h.file], own, h.pos)

Handles == [file : Files \cup {0}, append : BOOLEAN, pos : Nat]

LEMMA OpenedFits ==
  ASSUME LoggerAssumption, NEW k \in Nat, NEW nm \in Naming, NEW d \in Store(k), NEW append \in BOOLEAN
  PROVE  LET o == Opened(nm, d, append) IN
         /\ Fits(o, k)
         /\ \A own : OrderedIn(nm, d, own) => OrderedIn(o.name, o.data, own)
<1> DEFINE o == Opened(nm, d, append)
<1>1. /\ o.name \in Naming /\ o.name[0] \in Files
      /\ \A i \in Names : i # 0 => Held(o.name, o.data, i) = Held(nm, d, i)
      /\ o.data \in Store(k)
      /\ o.data[o.name[0]] = IF append THEN Held(nm, d, 0) ELSE <<>>
      /\ o.fh = [file |-> o.name[0], append |-> append, pos |-> Len(o.data[o.name[0]])]
  BY OpenedFacts
<1> HIDE DEF o
<1>2. Fits(o, k)
  BY <1>1 DEF Fits
<1>3. Held(o.name, o.data, 0) = o.data[o.name[0]]
  BY <1>1 DEF Held, Files
<1>4. \A i \in Names : Held(o.name, o.data, i) = Held(nm, d, i) \/ Held(o.name, o.data, i) = <<>>
  BY <1>1, <1>3
<1> QED BY <1>2, <1>4, LessOrdered DEF o

LEMMA NotOpenedFits ==
  ASSUME NEW k \in Nat, NEW nm \in Naming, NEW d \in Store(k)
  PROVE  Fits(NotOpened(nm, d), k) /\ NotOpened(nm, d).name = nm /\ NotOpened(nm, d).data = d
BY DEF NotOpened, Fits

LEMMA RotateFits ==
  ASSUME LoggerAssumption, NEW k \in Nat, NEW nm \in Naming, NEW d \in Store(k), NEW bad
  PROVE  LET r == Rotate(nm, d, bad) IN
         /\ Fits(r, k)
         /\ \A own : OrderedIn(nm, d, own) => OrderedIn(r.name, r.data, own)
<1> DEFINE to == Shifted(nm, bad)
           r == Rotate(nm, d, bad)
<1>1. to \in Naming /\ \A own : OrderedIn(nm, d, own) => OrderedIn(to, d, own)
  BY ShiftedFacts, ShiftedOrdered
<1>2. r = NotOpened(to, d) \/ r = Opened(to, d, FALSE)
  BY DEF Rotate
<1> HIDE DEF to, r
<1>3. CASE r = NotOpened(to, d)
  BY <1>1, <1>3, NotOpenedFits DEF r
<1>4. CASE r = Opened(to, d, FALSE)
  BY <1>1, <1>4, OpenedFits DEF r
<1> QED BY <1>2, <1>3, <1>4

LEMMA FitsBecomes ==
  ASSUME LoggerAssumption, NEW k \in Nat, NEW s, NEW e, NEW own,
         Fits(s, k), Becomes(s, e), OrderedIn(s.name, s.data, own)
  PROVE  /\ name' \in Naming /\ data' \in Store(k) /\ err' = e /\ fh' = s.fh
         /\ fh' \in Handles /\ (fh' # Closed => fh'.file = name'[0] /\ name'[0] \in Files)
         /\ OrderedIn(name', data', own) /\ Placed(fh', data', own)
         /\ \A i \in Names : Held(name', data', i) = Held(s.name, s.data, i)
         /\ name' = s.name
<1>1. s.name \in Naming /\ s.data \in Store(k)
  BY DEF Fits
<1>2. /\ name' = s.name /\ fh' = s.fh /\ err' = e /\ data' \in Store(k)
      /\ \A i \in Names : Held(name', data', i) = Held(s.name, s.data, i)
      /\ s.fh.file \in Files => data'[s.fh.file] = s.data[s.fh.file]
  BY <1>1, BecomesFacts
<1>3. OrderedIn(name', data', own)
  BY <1>2, LessOrdered
<1>4. CASE s.fh = Closed
  BY <1>1, <1>2, <1>3, <1>4 DEF Placed, Handles, Closed
<1>5. CASE s.fh # Closed
  <2>1. PICK append \in BOOLEAN : s.fh = [file |-> s.name[0], append |-> append,
                                         pos |-> Len(s.data[s.name[0]])]
    BY <1>5 DEF Fits
  <2>2. s.name[0] \in Files
    BY <1>5 DEF Fits
  <2> DEFINE f == s.name[0]
  <2>3. s.data[f] \in Seq(1..k) /\ Len(s.data[f]) \in Nat /\ DOMAIN s.data[f] = 1..Len(s.data[f])
    BY <1>1, <2>2 DEF Store
  <2>4. s.fh.file = f /\ s.fh.pos = Len(s.data[f]) /\ s.fh \in Handles
    BY <2>1, <2>2, <2>3 DEF Handles
  <2>5. data'[f] = s.data[f]
    BY <1>2, <2>2, <2>4
  <2> HIDE DEF f
  <2>6. Placed(fh', data', own)
    BY <1>2, <2>3, <2>4, <2>5 DEF Placed, Within
  <2> QED BY <1>1, <1>2, <1>3, <2>2, <2>4, <2>6 DEF f
<1> QED BY <1>4, <1>5

-----------------------------------------------------------------------------
(* Types, the handler's file and the order.                                *)

Runs(k) == [own : SUBSET (1..k), others : SUBSET (1..k),
            rotated : BOOLEAN, cleared : BOOLEAN, failed : BOOLEAN]

LogInv ==
    /\ name \in Naming /\ data \in Store(n) /\ n \in 0..MaxLines
    /\ err \in Files \cup {0} /\ running \in BOOLEAN /\ pending \in BOOLEAN
    /\ (running <=> err # 0)
    /\ faults \in 0..MaxFaults /\ run \in Runs(n)
    /\ fh \in Handles /\ (fh # Closed => running /\ fh.file = name[0] /\ name[0] \in Files)
    /\ OrderedIn(name, data, run.own) /\ Placed(fh, data, run.own)

LEMMA RunGrows ==
  ASSUME NEW k \in Nat, NEW r \in Runs(k)
  PROVE  /\ r \in Runs(k + 1)
         /\ \A b, c \in BOOLEAN : [r EXCEPT !.own = @ \cup {k + 1}, !.failed = b, !.rotated = c] \in Runs(k + 1)
         /\ \A b \in BOOLEAN : [r EXCEPT !.own = @ \cup {k + 1}, !.failed = b] \in Runs(k + 1)
         /\ [r EXCEPT !.others = @ \cup {k + 1}] \in Runs(k + 1)
         /\ \A b \in BOOLEAN : [r EXCEPT !.cleared = TRUE, !.failed = b] \in Runs(k)
<1>1. 1..k \subseteq 1..k + 1 /\ k + 1 \in 1..k + 1
  OBVIOUS
<1>2. r.own \cup {k + 1} \in SUBSET (1..k + 1) /\ r.others \cup {k + 1} \in SUBSET (1..k + 1)
      /\ r.own \in SUBSET (1..k + 1) /\ r.others \in SUBSET (1..k + 1)
  BY <1>1 DEF Runs
<1> QED BY <1>2 DEF Runs

LEMMA FaultFacts ==
  ASSUME LoggerAssumption, NEW bad, faults \in 0..MaxFaults, Fault(bad)
  PROVE  faults' \in 0..MaxFaults
BY DEF Fault, LoggerAssumption

\* A line of the handler, before it is seen whether the file is full.
LEMMA LineFacts ==
  ASSUME LoggerAssumption, LogInv, fh # Closed
  PROVE  LET p == At(fh, data)
             d == Put(data, fh.file, p, n + 1) IN
         /\ fh.file = name[0] /\ p \in Nat
         /\ p <= Len(data[name[0]]) /\ (fh.append => p = Len(data[name[0]])) /\ (~fh.append => p = fh.pos)
         /\ d \in Store(n + 1) /\ OrderedIn(name, d, run.own \cup {n + 1})
         /\ Within(d[name[0]], run.own \cup {n + 1}, p + 1)
         /\ p + 1 <= Len(d[name[0]])
         /\ \A i \in Names : i # 0 => Held(name, d, i) = Held(name, data, i)
<1> DEFINE f == name[0]
           p == At(fh, data)
<1>1. /\ f = name[0] /\ fh.file = f /\ f \in Files /\ fh \in Handles /\ n \in Nat /\ name \in Naming
      /\ data \in Store(n) /\ run.own \in SUBSET (1..n)
      /\ OrderedIn(name, data, run.own) /\ Placed(fh, data, run.own)
  BY DEF LogInv, Runs
<1>2. Len(data[f]) \in Nat /\ DOMAIN data[f] = 1..Len(data[f])
  BY <1>1 DEF Store
<1>3. /\ p \in Nat /\ p <= Len(data[f]) /\ (fh.append => p = Len(data[f])) /\ (~fh.append => p = fh.pos)
      /\ Within(data[f], run.own, p)
  <2>1. CASE fh.append
    BY <1>1, <1>2, <2>1 DEF At, Within
  <2>2. CASE ~fh.append
    BY <1>1, <1>2, <2>2 DEF At, Placed, Handles
  <2> QED BY <2>1, <2>2
<1> HIDE DEF p
<1> DEFINE own == run.own
           line == n + 1
           d == Put(data, f, p, line)
<1>4. /\ own \in SUBSET (1..n) /\ OrderedIn(name, data, own) /\ Within(data[f], own, p)
      /\ n \in Nat /\ name \in Naming /\ data \in Store(n) /\ f \in Files /\ f = name[0]
      /\ p \in Nat /\ p <= Len(data[f]) /\ line = n + 1
  BY <1>1, <1>3
<1>5. /\ d \in Store(line) /\ OrderedIn(name, d, own \cup {line})
      /\ Within(d[f], own \cup {line}, p + 1)
      /\ p + 1 <= Len(d[f])
      /\ \A i \in Names : i # 0 => Held(name, d, i) = Held(name, data, i)
  <2> HIDE DEF own, f, line
  <2>1. GoesBehind(name, data, f, p, own, line)
    BY <1>4, OwnLineOrdered
  <2> QED BY <2>1 DEF GoesBehind
<1> QED BY <1>1, <1>3, <1>5 DEF p

\* A line that is lost changes nothing about the others.
LEMMA LostLine ==
  ASSUME LoggerAssumption, NEW k \in Nat, NEW nm \in Naming, NEW d \in Store(k), NEW own,
         OrderedIn(nm, d, own), NEW h, (h # Closed => h.file \in Files), Placed(h, d, own)
  PROVE  /\ d \in Store(k + 1) /\ OrderedIn(nm, d, own \cup {k + 1})
         /\ Placed(h, d, own \cup {k + 1})
<1>1. d \in Store(k + 1)
  BY StoreGrows
<1>2. \A f \in Files : \A p \in DOMAIN d[f] : d[f][p] \in 1..k /\ d[f][p] # k + 1
  <2> SUFFICES ASSUME NEW f \in Files, NEW p \in DOMAIN d[f] PROVE d[f][p] \in 1..k
    OBVIOUS
  <2>1. d[f] \in Seq(1..k)
    BY DEF Store
  <2> QED BY <2>1
<1>3. \A i \in Names : \A p \in DOMAIN Held(nm, d, i) : Held(nm, d, i)[p] # k + 1
  <2> SUFFICES ASSUME NEW i \in Names, NEW p \in DOMAIN Held(nm, d, i) PROVE Held(nm, d, i)[p] # k + 1
    OBVIOUS
  <2>1. nm[i] = 0 \/ nm[i] \in Files
    BY DEF Naming
  <2> QED BY <1>2, <2>1 DEF Held
<1>4. OrderedIn(nm, d, own \cup {k + 1})
  <2> SUFFICES ASSUME NEW i \in Names, NEW j \in Names,
                      NEW p \in DOMAIN Held(nm, d, i), NEW q \in DOMAIN Held(nm, d, j),
                      i > j \/ (i = j /\ p < q),
                      Held(nm, d, i)[p] \in own \cup {k + 1}, Held(nm, d, j)[q] \in own \cup {k + 1}
               PROVE  Held(nm, d, i)[p] < Held(nm, d, j)[q]
    BY DEF OrderedIn
  <2>1. Held(nm, d, i)[p] \in own /\ Held(nm, d, j)[q] \in own
    BY <1>3
  <2> QED BY <2>1 DEF OrderedIn
<1>5. Placed(h, d, own \cup {k + 1})
  BY <1>2 DEF Placed, Within
<1> QED BY <1>1, <1>4, <1>5

LEMMA LogInit ==
  ASSUME LoggerAssumption, Init
  PROVE  LogInv
<1>1. name \in [Names -> Files \cup {0}] /\ \A i \in Names : name[i] = 0
  BY DEF Init
<1>2. name \in Naming
  BY <1>1 DEF Naming, Distinct
<1>3. data \in Store(n)
  <2>1. <<>> \in Seq(1..n)
    OBVIOUS
  <2> QED BY <2>1 DEF Init, Store
<1>4. \A i \in Names : Held(name, data, i) = <<>>
  BY <1>1 DEF Held
<1>5. OrderedIn(name, data, run.own)
  BY <1>4 DEF OrderedIn
<1>6. fh = Closed /\ fh \in Handles
  BY DEF Init, Closed, Handles
<1>7. Placed(fh, data, run.own)
  BY <1>6 DEF Placed
<1>8. run \in Runs(n)
  BY DEF Init, NewRun, Runs
<1>9. /\ n \in 0..MaxLines /\ faults \in 0..MaxFaults /\ err \in Files \cup {0}
      /\ running \in BOOLEAN /\ pending \in BOOLEAN /\ (running <=> err # 0)
  <2>1. n = 0 /\ faults = 0 /\ err = 0
    BY DEF Init
  <2>2. running = FALSE /\ pending = FALSE
    BY DEF Init
  <2>3. n \in 0..MaxLines /\ faults \in 0..MaxFaults
    BY <2>1 DEF LoggerAssumption
  <2> QED BY <2>1, <2>2, <2>3
<1> QED BY <1>2, <1>3, <1>5, <1>6, <1>7, <1>8, <1>9 DEF LogInv

LEMMA WriteKeeps ==
  ASSUME LoggerAssumption, LogInv, NEW bad, Write(bad)
  PROVE  LogInv'
<1>0. /\ n \in Nat /\ n' = n + 1 /\ n' \in 0..MaxLines
      /\ run.own \in SUBSET (1..n) /\ running /\ running' = running /\ pending' = pending
      /\ name \in Naming /\ data \in Store(n) /\ run \in Runs(n)
      /\ fh \in Handles /\ (fh # Closed => fh.file = name[0] /\ name[0] \in Files)
      /\ OrderedIn(name, data, run.own) /\ Placed(fh, data, run.own)
      /\ err \in Files \cup {0} /\ err # 0 /\ pending \in BOOLEAN
  BY DEF Write, LogInv, Runs, LoggerAssumption
<1>1. faults' \in 0..MaxFaults
  BY FaultFacts DEF Write, LogInv
<1>2. run' \in Runs(n') /\ run'.own = run.own \cup {n + 1}
  <2> DEFINE b == run.failed \/ bad # NoFailure
             c == run.rotated \/ (fh # Closed /\ At(fh, data) + 1 > MaxBytes)
  <2>1. run' = [run EXCEPT !.own = @ \cup {n + 1}, !.failed = b, !.rotated = c]
    BY DEF Write
  <2>2. b \in BOOLEAN /\ c \in BOOLEAN
    BY <1>0 DEF Runs
  <2> HIDE DEF b, c
  <2>3. run'.own = run.own \cup {n + 1}
    BY <1>0, <2>1 DEF Runs
  <2> QED BY <1>0, <2>1, <2>2, <2>3, RunGrows
<1> DEFINE own == run.own \cup {n + 1}
<1>3. /\ name' \in Naming /\ data' \in Store(n + 1) /\ err' = err
      /\ fh' \in Handles /\ (fh' # Closed => fh'.file = name'[0] /\ name'[0] \in Files)
      /\ OrderedIn(name', data', own) /\ Placed(fh', data', own)
  <2>1. CASE fh = Closed
    <3>1. UNCHANGED <<name, data, fh, err>>
      BY <2>1 DEF Write, disk
    <3> QED BY <1>0, <3>1, LostLine
  <2>2. CASE fh # Closed
    <3> DEFINE p == At(fh, data)
               d == Put(data, fh.file, p, n + 1)
    <3>1. /\ fh.file = name[0] /\ p \in Nat
          /\ d \in Store(n + 1) /\ OrderedIn(name, d, own)
          /\ Within(d[name[0]], own, p + 1)
          /\ p + 1 <= Len(d[name[0]])
      BY <2>2, LineFacts
    <3>2. \/ Becomes(Rotate(name, d, bad), err)
          \/ data' = d /\ fh' = [fh EXCEPT !.pos = p + 1] /\ UNCHANGED <<name, err>>
      BY <2>2 DEF Write
    <3> HIDE DEF p, d, own
    <3>3. CASE Becomes(Rotate(name, d, bad), err)
      <4> DEFINE r == Rotate(name, d, bad)
      <4>1. Fits(r, n + 1) /\ OrderedIn(r.name, r.data, own)
        BY <1>0, <3>1, RotateFits
      <4>2. n + 1 \in Nat
        BY <1>0
      <4> HIDE DEF r
      <4> QED BY <3>3, <4>1, <4>2, FitsBecomes DEF r
    <3>4. CASE data' = d /\ fh' = [fh EXCEPT !.pos = p + 1] /\ UNCHANGED <<name, err>>
      <4>1. /\ fh' \in Handles /\ fh'.file = fh.file /\ fh'.append = fh.append /\ fh'.pos = p + 1
        BY <1>0, <3>1, <3>4 DEF Handles
      <4>2. Placed(fh', data', own)
        BY <3>1, <3>4, <4>1 DEF Placed
      <4> QED BY <1>0, <2>2, <3>1, <3>4, <4>1, <4>2
    <3> QED BY <3>2, <3>3, <3>4
  <2> QED BY <2>1, <2>2
<1> QED BY <1>0, <1>1, <1>2, <1>3 DEF LogInv

LEMMA WriteFailsKeeps ==
  ASSUME LoggerAssumption, LogInv, WriteFails
  PROVE  LogInv'
<1>1. /\ n \in Nat /\ n' = n + 1 /\ n' \in 0..MaxLines /\ faults' \in 0..MaxFaults
      /\ UNCHANGED <<name, data, fh, err, running, pending>>
  BY DEF WriteFails, LogInv, disk, LoggerAssumption
<1>2. run' \in Runs(n') /\ run'.own = run.own \cup {n + 1}
  <2>1. run \in Runs(n) /\ run' = [run EXCEPT !.own = @ \cup {n + 1}, !.failed = TRUE]
    BY DEF WriteFails, LogInv
  <2>2. run'.own = run.own \cup {n + 1}
    BY <2>1 DEF Runs
  <2> QED BY <1>1, <2>1, <2>2, RunGrows
<1>3. name \in Naming /\ data \in Store(n) /\ OrderedIn(name, data, run.own)
      /\ Placed(fh, data, run.own) /\ (fh # Closed => fh.file \in Files)
  BY DEF LogInv
<1>4. data \in Store(n + 1) /\ OrderedIn(name, data, run.own \cup {n + 1})
      /\ Placed(fh, data, run.own \cup {n + 1})
  BY <1>1, <1>3, LostLine
<1> QED BY <1>1, <1>2, <1>4 DEF LogInv

LEMMA WriteStderrKeeps ==
  ASSUME LoggerAssumption, LogInv, WriteStderr
  PROVE  LogInv'
<1> DEFINE own == run.own
           d == Put(data, err, Len(data[err]), n + 1)
<1>1. /\ n \in Nat /\ n' = n + 1 /\ n' \in 0..MaxLines /\ running /\ data' = d
      /\ UNCHANGED <<name, fh, err, running, pending, faults>>
  BY DEF WriteStderr, LogInv, LoggerAssumption
<1>2. run' \in Runs(n') /\ run'.own = own
  <2>1. run \in Runs(n) /\ run' = [run EXCEPT !.others = @ \cup {n + 1}]
    BY DEF WriteStderr, LogInv
  <2>2. run'.own = own
    BY <2>1 DEF Runs
  <2> QED BY <1>1, <2>1, <2>2, RunGrows
<1>3. /\ name \in Naming /\ data \in Store(n) /\ OrderedIn(name, data, own) /\ own \in SUBSET (1..n)
      /\ Placed(fh, data, own) /\ fh \in Handles /\ (fh # Closed => fh.file \in Files)
      /\ err \in Files
  BY <1>1 DEF LogInv, Runs
<1> HIDE DEF own
<1>4. /\ d \in Store(n + 1) /\ OrderedIn(name, d, own)
      /\ \A g \in Files : g # err => d[g] = data[g]
      /\ Len(d[err]) = Len(data[err]) + 1 /\ d[err][Len(data[err]) + 1] = n + 1
      /\ \A q \in DOMAIN data[err] : d[err][q] = data[err][q]
  <2> DEFINE line == n + 1
  <2>1. line = n + 1 /\ d = Put(data, err, Len(data[err]), line)
    OBVIOUS
  <2> HIDE DEF line, d
  <2>2. GoesLast(name, data, err, own, line)
    BY <1>1, <1>3, <2>1, OtherLineOrdered
  <2> QED BY <2>1, <2>2 DEF GoesLast
<1>5. Placed(fh, d, own)
  <2> SUFFICES ASSUME fh # Closed, ~fh.append
               PROVE  fh.pos <= Len(d[fh.file]) /\ Within(d[fh.file], own, fh.pos)
    BY DEF Placed
  <2>1. fh.pos <= Len(data[fh.file]) /\ Within(data[fh.file], own, fh.pos) /\ fh.pos \in Nat
    BY <1>3 DEF Placed, Handles
  <2>2. CASE fh.file # err
    BY <1>3, <1>4, <2>1, <2>2
  <2>3. CASE fh.file = err
    <3>1. /\ Len(data[err]) \in Nat /\ DOMAIN data[err] = 1..Len(data[err])
          /\ DOMAIN d[err] = 1..Len(d[err]) /\ n + 1 \notin own
      <4>1. data[err] \in Seq(1..n)
        BY <1>3 DEF Store
      <4>2. d \in Store(n + 1)
        BY <1>4
      <4> HIDE DEF d
      <4>3. d[err] \in Seq(1..n + 1)
        BY <1>3, <4>2 DEF Store
      <4> QED BY <1>1, <1>3, <4>1, <4>3
    <3>2. \A q \in DOMAIN d[err] : d[err][q] \in own => q \in DOMAIN data[err] /\ data[err][q] \in own
      BY <1>4, <3>1
    <3> QED BY <1>4, <2>1, <2>3, <3>1, <3>2 DEF Within
  <2> QED BY <2>2, <2>3
<1> HIDE DEF d
<1> QED BY <1>1, <1>2, <1>3, <1>4, <1>5 DEF LogInv

LEMMA ClearKeeps ==
  ASSUME LoggerAssumption, LogInv, NEW bad, Clear(bad)
  PROVE  LogInv'
<1> DEFINE own == run.own
           nm == Removed(bad)
           s == IF bad.open THEN NotOpened(nm, data) ELSE Opened(nm, data, FALSE)
<1>1. /\ n \in Nat /\ running /\ UNCHANGED <<running, pending, n>> /\ Becomes(s, err)
      /\ name \in Naming /\ data \in Store(n) /\ OrderedIn(name, data, own)
      /\ err \in Files \cup {0} /\ err # 0 /\ n \in 0..MaxLines /\ pending \in BOOLEAN
  <2>1. running /\ UNCHANGED <<running, pending, n>> /\ Becomes(s, err)
    BY DEF Clear
  <2> HIDE DEF s
  <2> QED BY <2>1 DEF LogInv, LoggerAssumption
<1>2. faults' \in 0..MaxFaults
  BY FaultFacts DEF Clear, LogInv
<1>3. run' \in Runs(n) /\ run'.own = own
  <2>1. run \in Runs(n) /\ run' = [run EXCEPT !.cleared = TRUE, !.failed = run.failed \/ bad # NoFailure]
    BY DEF Clear, LogInv
  <2>2. run'.own = own /\ (run.failed \/ bad # NoFailure) \in BOOLEAN
    BY <2>1 DEF Runs
  <2> QED BY <1>1, <2>1, <2>2, RunGrows
<1> HIDE DEF own
<1>4. nm \in Naming /\ OrderedIn(nm, data, own)
  <2>1. /\ nm \in [Names -> Files \cup {0}]
        /\ \A i \in Names : nm[i] = name[i] \/ nm[i] = 0
    BY <1>1 DEF Removed, Naming
  <2> HIDE DEF nm
  <2>2. nm \in Naming
    BY <1>1, <2>1 DEF Naming, Distinct
  <2>3. \A i \in Names : Held(nm, data, i) = Held(name, data, i) \/ Held(nm, data, i) = <<>>
    BY <2>1 DEF Held
  <2>4. OrderedIn(nm, data, own)
    BY <1>1, <2>3, LessOrdered
  <2> QED BY <2>2, <2>4
<1>5. Fits(s, n) /\ OrderedIn(s.name, s.data, own)
  <2> HIDE DEF nm
  <2>1. CASE bad.open
    BY <1>1, <1>4, <2>1, NotOpenedFits
  <2>2. CASE ~bad.open
    BY <1>1, <1>4, <2>2, OpenedFits
  <2> QED BY <2>1, <2>2
<1> HIDE DEF s
<1>6. /\ name' \in Naming /\ data' \in Store(n) /\ err' = err
      /\ fh' \in Handles /\ (fh' # Closed => fh'.file = name'[0] /\ name'[0] \in Files)
      /\ OrderedIn(name', data', own) /\ Placed(fh', data', own)
  BY <1>1, <1>5, FitsBecomes
<1> QED BY <1>1, <1>2, <1>3, <1>6 DEF LogInv

LEMMA ExitKeeps ==
  ASSUME LoggerAssumption, LogInv, NEW reports \in BOOLEAN, Exit(reports)
  PROVE  LogInv'
<1> DEFINE s == NotOpened(name, data)
<1>1. /\ n \in Nat /\ UNCHANGED <<n, run, faults>> /\ Becomes(s, 0)
      /\ running' = FALSE /\ pending' \in BOOLEAN
      /\ name \in Naming /\ data \in Store(n) /\ OrderedIn(name, data, run.own)
      /\ n \in 0..MaxLines /\ run \in Runs(n) /\ faults \in 0..MaxFaults
  BY DEF Exit, LogInv, LoggerAssumption
<1>2. Fits(s, n) /\ OrderedIn(s.name, s.data, run.own) /\ s.fh = Closed
  BY <1>1, NotOpenedFits DEF NotOpened
<1> HIDE DEF s
<1>3. /\ name' \in Naming /\ data' \in Store(n) /\ err' = 0 /\ fh' = Closed /\ fh' \in Handles
      /\ OrderedIn(name', data', run.own) /\ Placed(fh', data', run.own)
  BY <1>1, <1>2, FitsBecomes
<1>4. running' \in BOOLEAN /\ ~running'
  BY <1>1
<1> QED BY <1>1, <1>3, <1>4 DEF LogInv

LEMMA CapKeeps ==
  ASSUME LoggerAssumption, LogInv, Cap
  PROVE  LogInv'
<1> DEFINE f == Free(name)
           d == data[name[0]]
           nm == [name EXCEPT ![0] = f]
           e == [data EXCEPT ![f] = SubSeq(d, Len(d) - MaxBytes + 2, Len(d))]
<1>1. /\ n \in Nat /\ UNCHANGED <<running, pending, n, run, faults>> /\ Becomes(NotOpened(nm, e), 0)
      /\ ~running /\ name[0] # 0 /\ Len(d) > MaxBytes
      /\ name \in Naming /\ data \in Store(n) /\ OrderedIn(name, data, run.own)
      /\ n \in 0..MaxLines /\ run \in Runs(n) /\ faults \in 0..MaxFaults
      /\ running \in BOOLEAN /\ pending \in BOOLEAN
  BY DEF Cap, LogInv, LoggerAssumption
<1>2. nm \in Naming /\ e \in Store(n) /\ OrderedIn(nm, e, run.own)
  BY <1>1, TailOrdered
<1> DEFINE s == NotOpened(nm, e)
<1> HIDE DEF nm, e
<1>3. Fits(s, n) /\ OrderedIn(s.name, s.data, run.own) /\ s.fh = Closed /\ Becomes(s, 0)
  BY <1>1, <1>2, NotOpenedFits DEF NotOpened
<1> HIDE DEF s
<1>4. /\ name' \in Naming /\ data' \in Store(n) /\ err' = 0 /\ fh' = Closed /\ fh' \in Handles
      /\ OrderedIn(name', data', run.own) /\ Placed(fh', data', run.own)
  BY <1>1, <1>3, FitsBecomes
<1> QED BY <1>1, <1>4 DEF LogInv

\* The log and the names as launch.sh leaves them, and its standard error's file.
LEMMA StartFacts ==
  ASSUME LoggerAssumption, LogInv, NEW new \in BOOLEAN, NEW bad, Start(new, bad)
  PROVE  /\ name' \in Naming /\ data' \in Store(n') /\ fh' \in Handles
         /\ err' \in Files /\ name'[0] = err'
         /\ (fh' = Closed \/ (fh'.file = name'[0] /\ fh'.append))
         /\ (~bad.open => fh' # Closed)
         /\ n' \in 0..MaxLines
<1> DEFINE emptied == IF new /\ ~pending THEN Opened(name, data, FALSE) ELSE Opened(name, data, TRUE)
           f == emptied.fh.file
           d == IF new THEN Put(emptied.data, f, Len(emptied.data[f]), n + 1) ELSE emptied.data
           k == IF new THEN n + 1 ELSE n
           s == Started([name |-> emptied.name, data |-> d], bad)
<1>1. name \in Naming /\ data \in Store(n) /\ n \in Nat /\ n \in 0..MaxLines
  BY DEF LogInv, LoggerAssumption
<1>2. n' = k /\ Becomes(s, f) /\ (new => n < MaxLines)
  BY DEF Start
<1>3. k \in Nat /\ k \in 0..MaxLines
  BY <1>1, <1>2 DEF LoggerAssumption
<1>4. /\ emptied.name \in Naming /\ emptied.name[0] \in Files /\ emptied.data \in Store(n)
      /\ f = emptied.name[0]
  <2>1. PICK append \in BOOLEAN : emptied = Opened(name, data, append)
    OBVIOUS
  <2> DEFINE o == Opened(name, data, append)
  <2>2. /\ o.name \in Naming /\ o.name[0] \in Files /\ o.data \in Store(n)
        /\ o.fh = [file |-> o.name[0], append |-> append, pos |-> Len(o.data[o.name[0]])]
    BY <1>1, OpenedFacts
  <2> HIDE DEF o, emptied
  <2> QED BY <2>1, <2>2 DEF o
<1> HIDE DEF emptied, f
<1>5. d \in Store(k)
  <2>1. CASE new
    <3>1. emptied.data \in Store(n + 1) /\ n + 1 \in 1..n + 1 /\ n + 1 \in Nat
      BY <1>1, <1>4, StoreGrows
    <3>2. Len(emptied.data[f]) \in Nat
      BY <1>4 DEF Store
    <3>3. Put(emptied.data, f, Len(emptied.data[f]), n + 1) \in Store(n + 1)
      BY <1>4, <3>1, <3>2, PutFacts
    <3> QED BY <2>1, <3>3
  <2>2. CASE ~new
    BY <1>4, <2>2
  <2> QED BY <2>1, <2>2
<1> HIDE DEF d, k
<1>6. /\ s.name \in Naming /\ s.data \in Store(k) /\ s.name[0] = f
      /\ s.fh = Closed \/ (s.fh \in Handles /\ s.fh.file = f /\ s.fh.append)
      /\ ~bad.open => s.fh # Closed
  <2>1. CASE bad.open
    BY <1>4, <1>5, <2>1 DEF Started, NotOpened
  <2>2. CASE ~bad.open
    <3>0. PICK append \in BOOLEAN : append = TRUE
      OBVIOUS
    <3> DEFINE nm == emptied.name
               o == Opened(nm, d, append)
    <3>1. s = o
      BY <2>2, <3>0 DEF Started
    <3>2. nm \in Naming /\ nm[0] = f /\ nm[0] # 0
      BY <1>4 DEF Files
    <3> HIDE DEF nm, s
    <3>3. /\ o.name \in Naming /\ o.data \in Store(k) /\ (nm[0] # 0 => o.name[0] = nm[0])
          /\ o.fh = [file |-> o.name[0], append |-> append, pos |-> Len(o.data[o.name[0]])]
      BY <1>3, <1>5, <3>2, OpenedFacts
    <3> HIDE DEF o
    <3>4. o.name[0] = f /\ f \in Files
      BY <1>4, <3>2, <3>3
    <3>5. Len(o.data[f]) \in Nat
      BY <3>3, <3>4 DEF Store
    <3>6. o.fh \in Handles /\ o.fh.file = f /\ o.fh.append = append
      BY <3>3, <3>4, <3>5 DEF Handles
    <3>7. o.fh.append
      BY <3>0, <3>6, Zenon
    <3>8. o.fh # Closed
      BY <3>4, <3>6 DEF Closed, Files
    <3> QED BY <3>1, <3>3, <3>4, <3>6, <3>7, <3>8
  <2> QED BY <2>1, <2>2
<1> HIDE DEF s
<1>7. name' = s.name /\ fh' = s.fh /\ err' = f /\ data' \in Store(k)
  BY <1>2, <1>3, <1>6, BecomesFacts
<1>8. Closed \in Handles
  BY DEF Closed, Handles
<1> QED BY <1>2, <1>3, <1>4, <1>6, <1>7, <1>8

LEMMA StartKeeps ==
  ASSUME LoggerAssumption, LogInv, NEW new \in BOOLEAN, NEW bad, Start(new, bad)
  PROVE  LogInv'
<1>1. /\ name' \in Naming /\ data' \in Store(n') /\ fh' \in Handles
      /\ err' \in Files /\ name'[0] = err'
      /\ (fh' = Closed \/ (fh'.file = name'[0] /\ fh'.append))
      /\ n' \in 0..MaxLines
  BY StartFacts
<1>2. running' = TRUE /\ pending' = pending /\ run' = NewRun(bad # NoFailure)
  BY DEF Start
<1>3. faults' \in 0..MaxFaults
  BY FaultFacts DEF Start, LogInv
<1>4. run' \in Runs(n') /\ run'.own = {}
  BY <1>2 DEF NewRun, Runs
<1>5. OrderedIn(name', data', run'.own) /\ Placed(fh', data', run'.own)
  BY <1>1, <1>4 DEF OrderedIn, Placed
<1>6. running' \in BOOLEAN /\ running' /\ pending' \in BOOLEAN /\ err' # 0
  BY <1>1, <1>2 DEF LogInv, Files
<1> QED BY <1>1, <1>3, <1>4, <1>5, <1>6 DEF LogInv

LEMMA LogNext ==
  ASSUME LoggerAssumption, LogInv, [Next]_vars
  PROVE  LogInv'
<1>1. ASSUME NEW bad \in Failures, Write(bad) PROVE LogInv'
  BY <1>1, WriteKeeps
<1>2. ASSUME NEW bad \in Failures, Clear(bad) PROVE LogInv'
  BY <1>2, ClearKeeps
<1>3. ASSUME NEW new \in BOOLEAN, NEW bad \in Failures, Start(new, bad) PROVE LogInv'
  BY <1>3, StartKeeps
<1>4. ASSUME NEW reports \in BOOLEAN, Exit(reports) PROVE LogInv'
  BY <1>4, ExitKeeps
<1>5. CASE Sent
  <2>1. UNCHANGED <<name, data, fh, err, running, n, run, faults>> /\ pending' = FALSE
    BY <1>5 DEF Sent, disk
  <2> QED BY <2>1 DEF LogInv
<1>6. CASE UNCHANGED vars
  <2>1. UNCHANGED <<name, data, fh, err, running, pending, n, run, faults>>
    BY <1>6 DEF vars, disk
  <2> QED BY <2>1 DEF LogInv
<1> QED BY <1>1, <1>2, <1>3, <1>4, <1>5, <1>6, WriteFailsKeeps, WriteStderrKeeps, CapKeeps DEF Next

-----------------------------------------------------------------------------
(* What rotation loses.                                                    *)

In(nm, d, i) == ToSet(Held(nm, d, i))

\* Only lines of the run go to the file of the name, which is not that of
\* standard error.
Fresh(nm, d, own, e, j) == nm[j] # 0 /\ nm[j] # e /\ In(nm, d, j) \subseteq own

\* The names before i are those of such files, full but for the log.
Behind(nm, d, own, e, i) ==
    \A j \in 0..Backups : j < i =>
       Fresh(nm, d, own, e, j) /\ (j > 0 => Len(Held(nm, d, j)) > MaxBytes)

\* A line of own is behind such files, or has fallen off the end of them all.
KeptIn(nm, d, own, e) ==
    \A m \in own :
       \/ \E i \in 0..Backups : m \in In(nm, d, i) /\ Behind(nm, d, own, e, i)
       \/ /\ Behind(nm, d, own, e, Backups + 1)
          /\ \A i \in 0..Backups : \A l \in In(nm, d, i) : l > m

KeptInv ==
    running /\ ~run.failed /\ ~run.cleared =>
       /\ fh # Closed
       /\ ~fh.append => /\ fh.pos = Len(Held(name, data, 0))
                        /\ Fresh(name, data, run.own, err, 0)
       /\ KeptIn(name, data, run.own, err)

\* The names and what they hold are all there is to it.
LEMMA SameKept ==
  ASSUME LoggerAssumption, NEW nm, NEW d, NEW c, NEW own, NEW e,
         \A i \in Names : Held(nm, c, i) = Held(nm, d, i)
  PROVE  /\ KeptIn(nm, d, own, e) => KeptIn(nm, c, own, e)
         /\ Fresh(nm, d, own, e, 0) => Fresh(nm, c, own, e, 0)
<1>1. 0..Backups \subseteq Names /\ 0 \in 0..Backups
  BY DEF LoggerAssumption, Names
<1>2. \A i \in 0..Backups : Held(nm, c, i) = Held(nm, d, i) /\ In(nm, c, i) = In(nm, d, i)
  BY <1>1 DEF In
<1>3. \A i \in 0..Backups : Fresh(nm, d, own, e, i) => Fresh(nm, c, own, e, i)
  BY <1>2 DEF Fresh
<1>4. \A i : Behind(nm, d, own, e, i) => Behind(nm, c, own, e, i)
  BY <1>2, <1>3 DEF Behind
<1> QED BY <1>1, <1>2, <1>3, <1>4 DEF KeptIn

\* A new line of the run at the end of the log.
LEMMA OwnLineKept ==
  ASSUME LoggerAssumption, NEW k \in Nat, NEW nm \in Naming, NEW d \in Store(k), NEW c,
         NEW own \in SUBSET (1..k), NEW e, NEW line, line = k + 1,
         KeptIn(nm, d, own, e), In(nm, c, 0) = In(nm, d, 0) \cup {line},
         \A i \in Names : i # 0 => Held(nm, c, i) = Held(nm, d, i)
  PROVE  /\ KeptIn(nm, c, own \cup {line}, e)
         /\ Fresh(nm, d, own, e, 0) => Fresh(nm, c, own \cup {line}, e, 0)
<1> DEFINE all == own \cup {line}
<1>1. 0..Backups \subseteq Names /\ 0 \in 0..Backups
  BY DEF LoggerAssumption, Names
<1>2. \A i \in 0..Backups : i # 0 => Held(nm, c, i) = Held(nm, d, i) /\ In(nm, c, i) = In(nm, d, i)
  BY <1>1 DEF In
<1>3. \A i \in 0..Backups : In(nm, d, i) \subseteq In(nm, c, i) /\ In(nm, c, i) \subseteq In(nm, d, i) \cup {line}
  BY <1>2
<1>4. \A i \in 0..Backups : Fresh(nm, d, own, e, i) => Fresh(nm, c, all, e, i)
  BY <1>3 DEF Fresh
<1>5. \A i : Behind(nm, d, own, e, i) => Behind(nm, c, all, e, i)
  BY <1>2, <1>4 DEF Behind
<1>6. ASSUME NEW m \in all
      PROVE  \/ \E i \in 0..Backups : m \in In(nm, c, i) /\ Behind(nm, c, all, e, i)
             \/ /\ Behind(nm, c, all, e, Backups + 1)
                /\ \A i \in 0..Backups : \A l \in In(nm, c, i) : l > m
  <2>1. CASE m = line
    <3>1. m \in In(nm, c, 0) /\ Behind(nm, c, all, e, 0)
      BY <2>1 DEF Behind
    <3> QED BY <1>1, <3>1
  <2>2. CASE m \in own /\ \E i \in 0..Backups : m \in In(nm, d, i) /\ Behind(nm, d, own, e, i)
    BY <1>3, <1>5, <2>2
  <2>3. CASE /\ m \in own /\ Behind(nm, d, own, e, Backups + 1)
             /\ \A i \in 0..Backups : \A l \in In(nm, d, i) : l > m
    <3>1. line > m
      BY <2>3
    <3> QED BY <1>3, <1>5, <2>3, <3>1
  <2> QED BY <2>1, <2>2, <2>3 DEF KeptIn
<1>7. KeptIn(nm, c, all, e)
  BY <1>6 DEF KeptIn
<1> QED BY <1>1, <1>4, <1>7

\* Another line, in the file of standard error.
LEMMA OtherLineKept ==
  ASSUME LoggerAssumption, NEW nm \in Naming, NEW d, NEW c, NEW own, NEW e \in Files,
         KeptIn(nm, d, own, e), \A g \in Files : g # e => c[g] = d[g],
         ToSet(d[e]) \subseteq ToSet(c[e])
  PROVE  /\ KeptIn(nm, c, own, e)
         /\ Fresh(nm, d, own, e, 0) => Fresh(nm, c, own, e, 0) /\ Held(nm, c, 0) = Held(nm, d, 0)
<1>1. 0..Backups \subseteq Names /\ 0 \in 0..Backups
  BY DEF LoggerAssumption, Names
<1>2. \A i \in 0..Backups : nm[i] = 0 \/ nm[i] \in Files
  BY <1>1 DEF Naming
<1>3. \A i \in 0..Backups : nm[i] # e => Held(nm, c, i) = Held(nm, d, i) /\ In(nm, c, i) = In(nm, d, i)
  BY <1>2 DEF Held, In
<1>4. \A i \in 0..Backups : In(nm, d, i) \subseteq In(nm, c, i)
  BY <1>2, <1>3 DEF In, Held
<1>5. \A i \in 0..Backups : Fresh(nm, d, own, e, i) => Fresh(nm, c, own, e, i) /\ Held(nm, c, i) = Held(nm, d, i)
  BY <1>3 DEF Fresh
<1>6. \A i : Behind(nm, d, own, e, i) => Behind(nm, c, own, e, i)
  BY <1>5 DEF Behind
<1>7. ASSUME NEW m \in own
      PROVE  \/ \E i \in 0..Backups : m \in In(nm, c, i) /\ Behind(nm, c, own, e, i)
             \/ /\ Behind(nm, c, own, e, Backups + 1)
                /\ \A i \in 0..Backups : \A l \in In(nm, c, i) : l > m
  <2>1. CASE \E i \in 0..Backups : m \in In(nm, d, i) /\ Behind(nm, d, own, e, i)
    BY <1>4, <1>6, <2>1
  <2>2. CASE /\ Behind(nm, d, own, e, Backups + 1)
             /\ \A i \in 0..Backups : \A l \in In(nm, d, i) : l > m
    <3>1. \A i \in 0..Backups : nm[i] # e
      BY <2>2 DEF Behind, Fresh, LoggerAssumption
    <3> QED BY <1>3, <1>6, <2>2, <3>1
  <2> QED BY <2>1, <2>2 DEF KeptIn
<1> QED BY <1>1, <1>5, <1>7 DEF KeptIn

\* A rotation without a failure: every line moves one name on.
LEMMA RotateKept ==
  ASSUME LoggerAssumption, NEW k \in Nat, NEW nm \in Naming, NEW d \in Store(k), NEW own,
         KeptIn(nm, d, own, err), OrderedIn(nm, d, own), Len(Held(nm, d, 0)) > MaxBytes
  PROVE  LET r == Rotate(nm, d, NoFailure) IN
         /\ KeptIn(r.name, r.data, own, err)
         /\ Fresh(r.name, r.data, own, err, 0) /\ Held(r.name, r.data, 0) = <<>>
         /\ r.fh = [file |-> r.name[0], append |-> FALSE, pos |-> 0] /\ r.name[0] \in Files
<1> DEFINE to == Shifted(nm, NoFailure)
           o == Opened(to, d, FALSE)
           x == o.name
           c == o.data
<1>0. Backups \in Nat \ {0} /\ 0 \in Names /\ 0..Backups \subseteq Names
  BY DEF LoggerAssumption, Names
<1>1. Rotate(nm, d, NoFailure) = o
  BY DEF Rotate, NoFailure
<1>2. /\ to \in Naming /\ to[0] = 0 /\ \A j \in 1..Backups : to[j] = nm[j - 1]
  BY ShiftedFacts, ShiftedClean
<1> HIDE DEF to
<1>3. /\ x[0] \in Files /\ (to[0] = 0 => x[0] # err)
      /\ \A i \in Names : i # 0 => x[i] = to[i] /\ Held(x, c, i) = Held(to, d, i)
      /\ c[x[0]] = <<>>
      /\ o.fh = [file |-> x[0], append |-> FALSE, pos |-> Len(c[x[0]])]
  <2>1. PICK append \in BOOLEAN : append = FALSE
    OBVIOUS
  <2> DEFINE a == Opened(to, d, append)
  <2>2. /\ a.name[0] \in Files /\ (to[0] = 0 => a.name[0] # err)
        /\ \A i \in Names : i # 0 => a.name[i] = to[i] /\ Held(a.name, a.data, i) = Held(to, d, i)
        /\ a.data[a.name[0]] = IF append THEN Held(to, d, 0) ELSE <<>>
        /\ a.fh = [file |-> a.name[0], append |-> append, pos |-> Len(a.data[a.name[0]])]
    BY <1>2, OpenedFacts
  <2>3. a = o
    BY <2>1
  <2> HIDE DEF a, o
  <2> QED BY <2>1, <2>2, <2>3
<1> HIDE DEF o, x, c
<1>4. x[0] \in Files /\ x[0] # err /\ Held(x, c, 0) = <<>> /\ In(x, c, 0) = {}
  <2>1. x[0] \in Files /\ x[0] # err /\ x[0] # 0
    BY <1>2, <1>3 DEF Files
  <2>2. Held(x, c, 0) = <<>>
    BY <1>3, <2>1 DEF Held
  <2> QED BY <2>1, <2>2 DEF In, ToSet
<1>5. \A j \in 1..Backups : /\ j - 1 \in 0..Backups /\ x[j] = nm[j - 1]
                            /\ Held(x, c, j) = Held(nm, d, j - 1) /\ In(x, c, j) = In(nm, d, j - 1)
  <2> SUFFICES ASSUME NEW j \in 1..Backups
               PROVE  j - 1 \in 0..Backups /\ x[j] = nm[j - 1] /\ Held(x, c, j) = Held(nm, d, j - 1)
    BY DEF In
  <2>1. j \in Names /\ j # 0 /\ j - 1 \in 0..Backups
    BY <1>0
  <2>2. x[j] = to[j] /\ Held(x, c, j) = Held(to, d, j) /\ to[j] = nm[j - 1]
    BY <1>2, <1>3, <2>1
  <2> QED BY <2>1, <2>2 DEF Held
<1>6. Fresh(x, c, own, err, 0)
  <2>1. x[0] # 0
    BY <1>4 DEF Files
  <2> QED BY <1>4, <2>1 DEF Fresh
<1>7. ASSUME NEW i \in 0..Backups + 1, Behind(nm, d, own, err, i)
      PROVE  Behind(x, c, own, err, i + 1)
  <2> SUFFICES ASSUME NEW j \in 0..Backups, j < i + 1
               PROVE  Fresh(x, c, own, err, j) /\ (j > 0 => Len(Held(x, c, j)) > MaxBytes)
    BY DEF Behind
  <2>1. CASE j = 0
    BY <1>6, <2>1
  <2>2. CASE j # 0
    <3>1. j \in 1..Backups /\ j - 1 \in 0..Backups /\ j - 1 < i
      BY <1>0, <2>2
    <3>2. Fresh(nm, d, own, err, j - 1)
      BY <1>7, <3>1 DEF Behind
    <3>3. Len(Held(nm, d, j - 1)) > MaxBytes
      <4>1. CASE j - 1 = 0
        BY <4>1
      <4>2. CASE j - 1 > 0
        BY <1>7, <3>1, <4>2 DEF Behind
      <4> QED BY <3>1, <4>1, <4>2
    <3>4. Fresh(x, c, own, err, j)
      BY <1>5, <3>1, <3>2 DEF Fresh
    <3> QED BY <1>5, <3>1, <3>3, <3>4
  <2> QED BY <2>1, <2>2
<1>8. ASSUME NEW m \in own
      PROVE  \/ \E i \in 0..Backups : m \in In(x, c, i) /\ Behind(x, c, own, err, i)
             \/ /\ Behind(x, c, own, err, Backups + 1)
                /\ \A i \in 0..Backups : \A l \in In(x, c, i) : l > m
  <2>1. ASSUME NEW i \in 0..Backups, m \in In(nm, d, i), Behind(nm, d, own, err, i), i < Backups
        PROVE  \E j \in 0..Backups : m \in In(x, c, j) /\ Behind(x, c, own, err, j)
    <3>1. i + 1 \in 1..Backups /\ (i + 1) - 1 = i /\ i \in 0..Backups + 1
      BY <1>0, <2>1
    <3>2. m \in In(x, c, i + 1)
      BY <1>5, <2>1, <3>1
    <3>3. Behind(x, c, own, err, i + 1)
      BY <1>7, <2>1, <3>1
    <3>4. i + 1 \in 0..Backups
      BY <3>1
    <3> QED BY <3>2, <3>3, <3>4
  <2>2. ASSUME Behind(nm, d, own, err, Backups),
               \A i \in 0..Backups : i < Backups => \A l \in In(nm, d, i) : l > m
        PROVE  /\ Behind(x, c, own, err, Backups + 1)
               /\ \A i \in 0..Backups : \A l \in In(x, c, i) : l > m
    <3>1. Backups \in 0..Backups + 1
      BY <1>0
    <3>2. Behind(x, c, own, err, Backups + 1)
      BY <1>7, <2>2, <3>1
    <3>3. ASSUME NEW i \in 0..Backups, NEW l \in In(x, c, i) PROVE l > m
      <4>1. i # 0
        BY <1>4, <3>3
      <4>2. i \in 1..Backups /\ i - 1 \in 0..Backups /\ i - 1 < Backups
        BY <1>0, <4>1
      <4>3. l \in In(nm, d, i - 1)
        BY <1>5, <3>3, <4>2
      <4> QED BY <2>2, <4>2, <4>3
    <3> QED BY <3>2, <3>3
  <2>3. CASE \E i \in 0..Backups : m \in In(nm, d, i) /\ Behind(nm, d, own, err, i)
    <3>1. PICK i \in 0..Backups : m \in In(nm, d, i) /\ Behind(nm, d, own, err, i)
      BY <2>3
    <3>2. CASE i < Backups
      BY <2>1, <3>1, <3>2
    <3>3. CASE i = Backups
      <4>1. ASSUME NEW j \in 0..Backups, j < Backups, NEW l \in In(nm, d, j) PROVE l > m
        <5>1. l \in own
          BY <3>1, <3>3, <4>1 DEF Behind, Fresh
        <5>2. PICK p \in DOMAIN Held(nm, d, i) : Held(nm, d, i)[p] = m
          BY <3>1 DEF In, ToSet
        <5>3. PICK q \in DOMAIN Held(nm, d, j) : Held(nm, d, j)[q] = l
          BY <4>1 DEF In, ToSet
        <5>4. i \in Names /\ j \in Names /\ i > j
          BY <1>0, <3>3, <4>1
        <5>5. m < l
          BY <5>1, <5>2, <5>3, <5>4 DEF OrderedIn
        <5>6. nm[i] \in Files /\ nm[j] \in Files
          BY <5>2, <5>3, <5>4 DEF Held, Naming
        <5>7. Held(nm, d, i) \in Seq(1..k) /\ Held(nm, d, j) \in Seq(1..k)
          <6>1. Held(nm, d, i) = d[nm[i]] /\ Held(nm, d, j) = d[nm[j]]
            BY <5>6 DEF Held, Files
          <6>2. \A g \in Files : d[g] \in Seq(1..k)
            BY DEF Store
          <6> QED BY <5>6, <6>1, <6>2
        <5>8. m \in Nat /\ l \in Nat
          BY <5>2, <5>3, <5>7
        <5> QED BY <5>5, <5>8
      <4> QED BY <2>2, <3>1, <3>3, <4>1
    <3> QED BY <1>0, <3>2, <3>3
  <2>4. CASE /\ Behind(nm, d, own, err, Backups + 1)
             /\ \A i \in 0..Backups : \A l \in In(nm, d, i) : l > m
    <3>1. Behind(nm, d, own, err, Backups)
      BY <1>0, <2>4 DEF Behind
    <3> QED BY <2>2, <2>4, <3>1
  <2> QED BY <2>3, <2>4 DEF KeptIn
<1>9. KeptIn(x, c, own, err)
  BY <1>8 DEF KeptIn
<1>10. o.fh = [file |-> x[0], append |-> FALSE, pos |-> 0]
  <2>1. Len(c[x[0]]) = 0
    BY <1>3
  <2> QED BY <1>3, <2>1
<1> QED BY <1>1, <1>4, <1>6, <1>9, <1>10 DEF x, c

LEMMA WriteLogs ==
  ASSUME LoggerAssumption, LogInv, KeptInv, NEW bad, Write(bad)
  PROVE  KeptInv'
<1> SUFFICES ASSUME running', ~run'.failed, ~run'.cleared
             PROVE  /\ fh' # Closed
                    /\ ~fh'.append => fh'.pos = Len(Held(name', data', 0)) /\ Fresh(name', data', run'.own, err', 0)
                    /\ KeptIn(name', data', run'.own, err')
  BY DEF KeptInv
<1> DEFINE own == run.own
           line == n + 1
           all == own \cup {line}
           p == At(fh, data)
           d == Put(data, fh.file, p, line)
<1>1. /\ n \in Nat /\ own \in SUBSET (1..n) /\ running /\ name \in Naming /\ data \in Store(n)
      /\ fh \in Handles /\ run \in Runs(n) /\ OrderedIn(name, data, own) /\ line = n + 1
  BY DEF Write, LogInv, Runs
<1>2. bad = NoFailure /\ ~run.failed /\ ~run.cleared /\ run'.own = all
  BY <1>1 DEF Write, Runs
<1>3. /\ fh # Closed /\ KeptIn(name, data, own, err)
      /\ ~fh.append => fh.pos = Len(Held(name, data, 0)) /\ Fresh(name, data, own, err, 0)
  BY <1>1, <1>2 DEF KeptInv
<1>4. name[0] \in Files /\ name[0] # 0 /\ fh.file = name[0] /\ Held(name, data, 0) = data[name[0]]
  BY <1>3 DEF LogInv, Files, Held
<1>5. /\ p \in Nat /\ p = Len(data[name[0]])
      /\ d \in Store(line) /\ OrderedIn(name, d, all)
      /\ \A i \in Names : i # 0 => Held(name, d, i) = Held(name, data, i)
  BY <1>3, <1>4, LineFacts
<1>6. /\ Held(name, d, 0) = d[name[0]] /\ Len(d[name[0]]) = p + 1
      /\ In(name, d, 0) = In(name, data, 0) \cup {line}
  <2> DEFINE f == name[0]
             e == Put(data, f, p, line)
  <2>1. data \in Store(line) /\ line \in 1..line /\ line \in Nat /\ f \in Files
    BY <1>1, <1>4, StoreGrows
  <2> HIDE DEF line, p, f
  <2>2. ~(p < Len(data[f])) => /\ Len(e[f]) = Len(data[f]) + 1 /\ e[f][Len(data[f]) + 1] = line
                               /\ \A q \in DOMAIN data[f] : e[f][q] = data[f][q]
    BY <1>5, <2>1, PutFacts
  <2>3. p = Len(data[f]) /\ d = e /\ Held(name, data, 0) = data[f] /\ Held(name, d, 0) = d[f]
    BY <1>4, <1>5 DEF f, Held
  <2> HIDE DEF d, e
  <2>4. Len(d[f]) = p + 1 /\ d[f][p + 1] = line /\ \A q \in DOMAIN data[f] : d[f][q] = data[f][q]
    BY <1>5, <2>2, <2>3
  <2>5. DOMAIN data[f] = 1..p /\ DOMAIN d[f] = 1..p + 1
    <3>1. data[f] \in Seq(1..n) /\ d[f] \in Seq(1..line)
      BY <1>1, <1>5, <2>1 DEF Store
    <3> QED BY <2>3, <2>4, <3>1
  <2>6. 1..p + 1 = (1..p) \cup {p + 1}
    BY <1>5
  <2>7. ToSet(d[f]) = ToSet(data[f]) \cup {line}
    BY <2>4, <2>5, <2>6 DEF ToSet
  <2> QED BY <2>3, <2>4, <2>7 DEF In, f
<1> HIDE DEF d
<1>7. /\ KeptIn(name, d, all, err)
      /\ Fresh(name, data, own, err, 0) => Fresh(name, d, all, err, 0)
  <2> HIDE DEF own, line
  <2> QED BY <1>1, <1>3, <1>5, <1>6, OwnLineKept
<1>8. \/ p + 1 > MaxBytes /\ Becomes(Rotate(name, d, NoFailure), err)
      \/ data' = d /\ fh' = [fh EXCEPT !.pos = p + 1] /\ UNCHANGED <<name, err>>
  BY <1>2, <1>3 DEF Write, d
<1> HIDE DEF p, all, own, line
<1>9. CASE p + 1 > MaxBytes /\ Becomes(Rotate(name, d, NoFailure), err)
  <2> DEFINE r == Rotate(name, d, NoFailure)
  <2>1. line \in Nat
    BY <1>1
  <2>2. /\ KeptIn(r.name, r.data, all, err)
        /\ Fresh(r.name, r.data, all, err, 0) /\ Held(r.name, r.data, 0) = <<>>
        /\ r.fh = [file |-> r.name[0], append |-> FALSE, pos |-> 0] /\ r.name[0] \in Files
    <3>1. Len(Held(name, d, 0)) > MaxBytes
      BY <1>6, <1>9
    <3> QED BY <1>1, <1>5, <1>7, <2>1, <3>1, RotateKept
  <2>3. Fits(r, line) /\ OrderedIn(r.name, r.data, all)
    BY <1>1, <1>5, <2>1, RotateFits
  <2> HIDE DEF r
  <2>4. /\ name' = r.name /\ err' = err /\ fh' = r.fh
        /\ \A i \in Names : Held(name', data', i) = Held(r.name, r.data, i)
    BY <1>9, <2>1, <2>3, FitsBecomes DEF r
  <2>5. KeptIn(name', data', all, err) /\ Fresh(name', data', all, err, 0)
    <3>1. \A i \in Names : Held(r.name, data', i) = Held(r.name, r.data, i)
      BY <2>4
    <3>2. KeptIn(r.name, data', all, err) /\ Fresh(r.name, data', all, err, 0)
      BY <2>2, <3>1, SameKept
    <3> QED BY <2>4, <3>2
  <2>6. Held(name', data', 0) = <<>> /\ fh'.pos = 0 /\ fh'.file = r.name[0]
    BY <2>2, <2>4 DEF LoggerAssumption, Names
  <2>7. fh' # Closed /\ fh'.pos = Len(Held(name', data', 0))
    BY <2>2, <2>6 DEF Closed, Files
  <2> QED BY <1>2, <2>4, <2>5, <2>7
<1>10. CASE data' = d /\ fh' = [fh EXCEPT !.pos = p + 1] /\ UNCHANGED <<name, err>>
  <2>1. fh'.file = fh.file /\ fh'.append = fh.append /\ fh'.pos = p + 1
    BY <1>1, <1>10 DEF Handles
  <2>2. fh' # Closed
    BY <1>4, <2>1 DEF Closed
  <2> QED BY <1>2, <1>3, <1>6, <1>7, <1>10, <2>1, <2>2
<1> QED BY <1>8, <1>9, <1>10

LEMMA KeptNext ==
  ASSUME LoggerAssumption, LogInv, KeptInv, [Next]_vars
  PROVE  KeptInv'
<1>1. ASSUME NEW bad \in Failures, Write(bad) PROVE KeptInv'
  BY <1>1, WriteLogs
<1>2. ASSUME NEW bad \in Failures, Clear(bad) PROVE KeptInv'
  <2>1. run \in Runs(n) /\ run'.cleared
    BY <1>2 DEF Clear, LogInv, Runs
  <2> QED BY <2>1 DEF KeptInv
<1>3. ASSUME NEW new \in BOOLEAN, NEW bad \in Failures, Start(new, bad) PROVE KeptInv'
  <2>1. run' = NewRun(bad # NoFailure)
    BY <1>3 DEF Start
  <2>2. run'.own = {} /\ (~run'.failed => bad = NoFailure)
    BY <2>1 DEF NewRun
  <2>3. (fh' = Closed \/ fh'.append) /\ (~bad.open => fh' # Closed)
    BY <1>3, StartFacts
  <2>4. KeptIn(name', data', run'.own, err')
    BY <2>2 DEF KeptIn
  <2>5. bad = NoFailure => ~bad.open
    BY DEF NoFailure
  <2> QED BY <2>2, <2>3, <2>4, <2>5 DEF KeptInv
<1>4. ASSUME NEW reports \in BOOLEAN, Exit(reports) PROVE KeptInv'
  BY <1>4 DEF Exit, KeptInv
<1>5. CASE Cap
  BY <1>5 DEF Cap, KeptInv
<1>6. CASE WriteFails
  <2>1. run'.failed
    BY <1>6 DEF WriteFails, LogInv, Runs
  <2> QED BY <2>1 DEF KeptInv
<1>7. CASE WriteStderr
  <2> SUFFICES ASSUME running', ~run'.failed, ~run'.cleared
               PROVE  /\ fh' # Closed
                      /\ ~fh'.append => /\ fh'.pos = Len(Held(name', data', 0))
                                        /\ Fresh(name', data', run'.own, err', 0)
                      /\ KeptIn(name', data', run'.own, err')
    BY DEF KeptInv
  <2> DEFINE d == Put(data, err, Len(data[err]), n + 1)
             own == run.own
  <2>1. /\ n \in Nat /\ run \in Runs(n) /\ running /\ err \in Files /\ name \in Naming
        /\ data \in Store(n) /\ own \in SUBSET (1..n) /\ OrderedIn(name, data, own)
        /\ UNCHANGED <<name, fh, err, running>> /\ data' = d
    BY <1>7 DEF WriteStderr, LogInv, Runs
  <2>2. run'.own = own /\ ~run.failed /\ ~run.cleared
    BY <1>7, <2>1 DEF WriteStderr, Runs
  <2>3. /\ fh # Closed /\ KeptIn(name, data, own, err)
        /\ ~fh.append => fh.pos = Len(Held(name, data, 0)) /\ Fresh(name, data, own, err, 0)
    BY <2>1, <2>2 DEF KeptInv
  <2> HIDE DEF own
  <2>4. /\ \A g \in Files : g # err => d[g] = data[g]
        /\ \A q \in DOMAIN data[err] : d[err][q] = data[err][q]
        /\ Len(d[err]) = Len(data[err]) + 1 /\ d \in Store(n + 1)
    <3> DEFINE line == n + 1
    <3>1. line = n + 1 /\ d = Put(data, err, Len(data[err]), line)
      OBVIOUS
    <3> HIDE DEF line, d
    <3>2. GoesLast(name, data, err, own, line)
      BY <2>1, <3>1, OtherLineOrdered
    <3> QED BY <3>1, <3>2 DEF GoesLast
  <2> HIDE DEF d
  <2>5. ToSet(data[err]) \subseteq ToSet(d[err])
    <3>1. DOMAIN data[err] \subseteq DOMAIN d[err]
      BY <2>1, <2>4 DEF Store
    <3> QED BY <2>4, <3>1 DEF ToSet
  <2>6. /\ KeptIn(name, d, own, err)
        /\ Fresh(name, data, own, err, 0) => Fresh(name, d, own, err, 0) /\ Held(name, d, 0) = Held(name, data, 0)
    BY <2>1, <2>3, <2>4, <2>5, OtherLineKept
  <2> QED BY <2>1, <2>2, <2>3, <2>6
<1>8. CASE Sent \/ UNCHANGED vars
  <2>1. UNCHANGED <<name, data, fh, err, running, n, run, faults>>
    BY <1>8 DEF Sent, vars, disk
  <2> QED BY <2>1 DEF KeptInv
<1> QED BY <1>1, <1>2, <1>3, <1>4, <1>5, <1>6, <1>7, <1>8 DEF Next

-----------------------------------------------------------------------------
(* Standard error.                                                         *)

\* Until the log is rotated or cleared it is the file of standard error, and
\* the handler only adds to it.
ErrInv ==
    running /\ ~run.rotated /\ ~run.cleared =>
       /\ name[0] = err /\ (fh = Closed \/ fh.append)
       /\ run.others \subseteq In(name, data, 0)

LEMMA ErrNext ==
  ASSUME LoggerAssumption, LogInv, ErrInv, [Next]_vars
  PROVE  ErrInv'
<1>1. ASSUME NEW bad \in Failures, Write(bad) PROVE ErrInv'
  <2> SUFFICES ASSUME ~run'.rotated, ~run'.cleared
               PROVE  /\ name'[0] = err' /\ (fh' = Closed \/ fh'.append)
                      /\ run'.others \subseteq In(name', data', 0)
    BY DEF ErrInv
  <2>1. /\ run \in Runs(n) /\ running /\ n \in Nat /\ data \in Store(n) /\ fh \in Handles
        /\ (fh # Closed => fh.file = name[0] /\ name[0] \in Files)
    BY <1>1 DEF Write, LogInv
  <2>2. /\ run'.others = run.others /\ ~run.rotated /\ ~run.cleared
        /\ ~(fh # Closed /\ At(fh, data) + 1 > MaxBytes)
    BY <1>1, <2>1 DEF Write, Runs
  <2>3. /\ name[0] = err /\ (fh = Closed \/ fh.append) /\ run.others \subseteq In(name, data, 0)
    BY <2>1, <2>2 DEF ErrInv
  <2>4. CASE fh = Closed
    <3>1. UNCHANGED <<name, data, fh, err>>
      BY <1>1, <2>4 DEF Write, disk
    <3> QED BY <2>2, <2>3, <3>1 DEF In, Held
  <2>5. CASE fh # Closed
    <3> DEFINE f == name[0]
               p == At(fh, data)
               line == n + 1
               e == Put(data, f, p, line)
    <3>1. /\ data' = e /\ fh' = [fh EXCEPT !.pos = p + 1] /\ UNCHANGED <<name, err>>
      BY <1>1, <2>1, <2>2, <2>5 DEF Write
    <3>2. data \in Store(line) /\ line \in 1..line /\ line \in Nat /\ f \in Files
      BY <2>1, <2>5, StoreGrows
    <3>3. p \in Nat /\ p = Len(data[f])
      BY <2>1, <2>3, <2>5 DEF At, Store
    <3>4. fh'.append
      BY <2>1, <2>3, <2>5, <3>1 DEF Handles
    <3>5. Held(name, data, 0) = data[f] /\ Held(name', data', 0) = data'[f]
      BY <3>1, <3>2 DEF Held, Files
    <3> HIDE DEF line, p, f
    <3>6. ~(p < Len(data[f])) => /\ Len(e[f]) = Len(data[f]) + 1 /\ e \in Store(line)
                                 /\ \A q \in DOMAIN data[f] : e[f][q] = data[f][q]
      BY <3>2, <3>3, PutFacts
    <3> HIDE DEF e
    <3>7. DOMAIN data[f] \subseteq DOMAIN e[f] /\ \A q \in DOMAIN data[f] : e[f][q] = data[f][q]
      BY <3>2, <3>3, <3>6 DEF Store
    <3>8. In(name, data, 0) \subseteq In(name', data', 0)
      BY <3>1, <3>5, <3>7 DEF In, ToSet
    <3> QED BY <2>2, <2>3, <3>1, <3>4, <3>8 DEF f
  <2> QED BY <2>4, <2>5
<1>2. ASSUME NEW bad \in Failures, Clear(bad) PROVE ErrInv'
  <2>1. run \in Runs(n) /\ run'.cleared
    BY <1>2 DEF Clear, LogInv, Runs
  <2> QED BY <2>1 DEF ErrInv
<1>3. ASSUME NEW new \in BOOLEAN, NEW bad \in Failures, Start(new, bad) PROVE ErrInv'
  <2>1. run'.others = {}
    BY <1>3 DEF Start, NewRun
  <2>2. name'[0] = err' /\ (fh' = Closed \/ fh'.append)
    BY <1>3, StartFacts
  <2> QED BY <2>1, <2>2 DEF ErrInv
<1>4. ASSUME NEW reports \in BOOLEAN, Exit(reports) PROVE ErrInv'
  BY <1>4 DEF Exit, ErrInv
<1>5. CASE Cap
  BY <1>5 DEF Cap, ErrInv
<1>6. CASE WriteFails
  <2>1. UNCHANGED <<name, data, fh, err, running>>
    BY <1>6 DEF WriteFails, disk
  <2>2. run'.others = run.others /\ run'.rotated = run.rotated /\ run'.cleared = run.cleared
    BY <1>6 DEF WriteFails, LogInv, Runs
  <2> QED BY <2>1, <2>2 DEF ErrInv, In, Held
<1>7. CASE WriteStderr
  <2> DEFINE d == Put(data, err, Len(data[err]), n + 1)
             own == run.own
  <2>1. /\ n \in Nat /\ run \in Runs(n) /\ running /\ err \in Files /\ name \in Naming
        /\ data \in Store(n) /\ own \in SUBSET (1..n) /\ OrderedIn(name, data, own)
        /\ UNCHANGED <<name, fh, err, running>> /\ data' = d
    BY <1>7 DEF WriteStderr, LogInv, Runs
  <2>2. /\ run'.others = run.others \cup {n + 1} /\ run'.rotated = run.rotated
        /\ run'.cleared = run.cleared
    BY <1>7, <2>1 DEF WriteStderr, Runs
  <2> HIDE DEF own
  <2>3. /\ d \in Store(n + 1) /\ OrderedIn(name, d, own)
        /\ \A g \in Files : g # err => d[g] = data[g]
        /\ Len(d[err]) = Len(data[err]) + 1 /\ d[err][Len(data[err]) + 1] = n + 1
        /\ \A q \in DOMAIN data[err] : d[err][q] = data[err][q]
    <3> DEFINE line == n + 1
    <3>1. line = n + 1 /\ d = Put(data, err, Len(data[err]), line)
      OBVIOUS
    <3> HIDE DEF line, d
    <3>2. GoesLast(name, data, err, own, line)
      BY <2>1, <3>1, OtherLineOrdered
    <3> QED BY <3>1, <3>2 DEF GoesLast
  <2> HIDE DEF d
  <2>4. DOMAIN data[err] \subseteq DOMAIN d[err] /\ Len(data[err]) + 1 \in DOMAIN d[err]
    BY <2>1, <2>3 DEF Store
  <2>5. ToSet(data[err]) \cup {n + 1} \subseteq ToSet(d[err])
    BY <2>3, <2>4 DEF ToSet
  <2>6. name[0] = err => In(name, data, 0) = ToSet(data[err]) /\ In(name', data', 0) = ToSet(d[err])
    BY <2>1 DEF In, Held, Files
  <2> QED BY <2>1, <2>2, <2>5, <2>6 DEF ErrInv
<1>8. CASE Sent \/ UNCHANGED vars
  <2>1. UNCHANGED <<name, data, fh, err, running, n, run, faults>>
    BY <1>8 DEF Sent, vars, disk
  <2> QED BY <2>1 DEF ErrInv, In, Held
<1> QED BY <1>1, <1>2, <1>3, <1>4, <1>5, <1>6, <1>7, <1>8 DEF Next

-----------------------------------------------------------------------------
(* The theorems.                                                           *)

LEMMA ContentsHeld ==
  \A i : Contents(i) = Held(name, data, i) /\ Lines(i) = In(name, data, i)
BY DEF Contents, Held, Lines, In

LEMMA LogInvHolds == Spec => []LogInv
<1>1. Init => LogInv
  BY LoggerAssumption, LogInit
<1>2. LogInv /\ [Next]_vars => LogInv'
  BY LoggerAssumption, LogNext
<1> QED BY <1>1, <1>2, PTL DEF Spec

\* Every variable has its type: the lines are counted and nothing outside the
\* names and the two descriptors is needed to hold them.
THEOREM LogTypes == Spec => []TypeOK
<1>1. LogInv => TypeOK
  <2> SUFFICES ASSUME LogInv PROVE TypeOK
    OBVIOUS
  <2>1. name \in [Names -> Files \cup {0}] /\ fh \in [file : Files \cup {0}, append : BOOLEAN, pos : Nat]
    BY DEF LogInv, Naming, Handles
  <2>2. data \in [Files -> Seq(1..MaxLines)]
    <3>1. n \in Nat /\ n <= MaxLines /\ MaxLines \in Nat /\ data \in Store(n)
      BY LoggerAssumption DEF LogInv, LoggerAssumption
    <3> QED BY <3>1, StoreGrows DEF Store
  <2>3. run \in [own : SUBSET (1..n), others : SUBSET (1..n),
                 rotated : BOOLEAN, cleared : BOOLEAN, failed : BOOLEAN]
    BY DEF LogInv, Runs
  <2> QED BY <2>1, <2>2, <2>3 DEF LogInv, TypeOK
<1> QED BY <1>1, LogInvHolds, PTL

\* Rotation (logger.py:119-144) keeps the lines of a run in order, whatever call
\* fails, and without a failure loses one only behind Backups full files of
\* newer lines; whatever the number and the size of the backups.
THEOREM NewestAreKept == Spec => []NewestLinesKept
<1>1. LogInv /\ KeptInv => NewestLinesKept
  <2> SUFFICES ASSUME LogInv, KeptInv PROVE NewestLinesKept
    OBVIOUS
  <2>1. \A i, j \in Names : \A p \in DOMAIN Contents(i), q \in DOMAIN Contents(j) :
           /\ i > j \/ (i = j /\ p < q)
           /\ Contents(i)[p] \in run.own /\ Contents(j)[q] \in run.own
           => Contents(i)[p] < Contents(j)[q]
    BY ContentsHeld DEF LogInv, OrderedIn
  <2>2. ASSUME running, ~run.failed, ~run.cleared,
               NEW line \in run.own \ UNION {Lines(i) : i \in Names}, NEW i \in 1..Backups
        PROVE  Len(Contents(i)) > MaxBytes /\ Lines(i) \subseteq {l \in run.own : l > line}
    <3>1. i \in 0..Backups /\ i > 0 /\ i < Backups + 1 /\ 0..Backups \subseteq Names
      BY LoggerAssumption DEF LoggerAssumption, Names
    <3>2. \A j \in 0..Backups : line \notin In(name, data, j)
      BY <2>2, <3>1, ContentsHeld
    <3>3. KeptIn(name, data, run.own, err) /\ line \in run.own
      BY <2>2 DEF KeptInv
    <3>4. /\ Behind(name, data, run.own, err, Backups + 1)
          /\ \A j \in 0..Backups : \A l \in In(name, data, j) : l > line
      BY <3>2, <3>3 DEF KeptIn
    <3>5. Len(Held(name, data, i)) > MaxBytes /\ In(name, data, i) \subseteq run.own
      BY <3>1, <3>4 DEF Behind, Fresh
    <3> QED BY <3>1, <3>4, <3>5, ContentsHeld
  <2> QED BY <2>1, <2>2 DEF NewestLinesKept
<1>2. Init => KeptInv
  BY DEF Init, KeptInv
<1>3. LogInv /\ KeptInv /\ [Next]_vars => KeptInv'
  BY LoggerAssumption, KeptNext
<1> QED BY <1>1, <1>2, <1>3, LogInvHolds, PTL DEF Spec

\* What is written to standard error is in the log, the file a report is made
\* from, until the log is rotated or cleared, whatever call fails.
THEOREM ErrorsAreKept == Spec => []ErrorOutputKept
<1>1. ErrInv => ErrorOutputKept
  BY ContentsHeld DEF ErrInv, ErrorOutputKept
<1>2. Init => ErrInv
  BY DEF Init, ErrInv
<1>3. LogInv /\ ErrInv /\ [Next]_vars => ErrInv'
  BY LoggerAssumption, ErrNext
<1> QED BY <1>1, <1>2, <1>3, LogInvHolds, PTL DEF Spec
=============================================================================

----------------------------- MODULE FilterTheorems -----------------------------
(***************************************************************************)
(* What Filter returns, for every list of messages: the messages of these  *)
(* roles and no others, in their order, of each part what it returns of    *)
(* that part.                                                              *)
(*                                                                         *)
(* The proofs are inductions on the length of the list.  The induction is  *)
(* stated with a set in the place of a predicate; it is the least-element  *)
(* principle, which the well-founded order of the naturals gives.          *)
(***************************************************************************)
EXTENDS Filter, SequenceTheorems, WellFoundedInduction, TLAPS

\* A set of naturals has a least element.
LEMMA Least ==
  ASSUME NEW T, T \subseteq Nat, T # {}
  PROVE  \E x \in T : \A y \in T : x <= y
<1> DEFINE R == OpToRel(<, Nat)
<1>1. IsWellFoundedOn(R, Nat)
  BY NatLessThanWellFounded
<1>2. \A x, y \in Nat : <<x, y>> \in R <=> x < y
  BY DEF OpToRel
<1> HIDE DEF R
<1>3. PICK x \in T : \A y \in T : ~ (<<y, x>> \in R)
  BY <1>1, WFMin
<1>4. ASSUME NEW y \in T PROVE x <= y
  <2>1. ~ (<<y, x>> \in R) /\ x \in Nat /\ y \in Nat
    BY <1>3
  <2>2. ~ (y < x)
    BY <1>2, <2>1
  <2> QED BY <2>1, <2>2
<1> QED BY <1>4

\* A set that has 0 and the successor of each of its naturals has them all.
LEMMA Induction ==
  ASSUME NEW T, 0 \in T, \A n \in Nat : n \in T => n + 1 \in T
  PROVE  \A n \in Nat : n \in T
<1> SUFFICES ASSUME NEW m \in Nat, m \notin T PROVE FALSE
  OBVIOUS
<1> DEFINE U == {n \in Nat : n \notin T}
<1>1. PICK x \in U : \A y \in U : x <= y
  BY Least
<1>2. x # 0 /\ x - 1 \in Nat
  BY <1>1
<1>3. x - 1 \in T
  BY <1>1, <1>2
<1> QED BY <1>1, <1>2, <1>3

\* A set of lists that has the empty one and every list made longer by one
\* element has them all.
LEMMA ListInduction ==
  ASSUME NEW S, NEW T, <<>> \in T,
         \A s \in Seq(S), m \in S : s \in T => Append(s, m) \in T
  PROVE  Seq(S) \subseteq T
<1> DEFINE N == {n \in Nat : \A s \in Seq(S) : Len(s) = n => s \in T}
<1>1. 0 \in N
  <2>1. \A s \in Seq(S) : Len(s) = 0 => s = <<>>
    BY EmptySeq
  <2> QED BY <2>1
<1>2. ASSUME NEW n \in Nat, n \in N PROVE n + 1 \in N
  <2> SUFFICES ASSUME NEW s \in Seq(S), Len(s) = n + 1 PROVE s \in T
    OBVIOUS
  <2>1. s # <<>>
    BY EmptySeq
  <2>2. PICK front \in Seq(S), last \in S : s = Append(front, last)
    BY <2>1, SequenceEmptyOrAppend
  <2>3. Len(front) = n
    BY <2>2, AppendProperties, LenProperties
  <2> QED BY <1>2, <2>2, <2>3
<1>3. \A n \in Nat : n \in N
  <2> HIDE DEF N
  <2> QED BY <1>1, <1>2, Induction
<1> QED BY <1>3, LenProperties

-----------------------------------------------------------------------------

\* The function that Kept is defined by recursion exists and satisfies its
\* definition.
LEMMA KeptIs ==
  ASSUME NEW messages, NEW roles, Len(messages) \in Nat
  PROVE  Kept(messages, roles) =
           [i \in 0..Len(messages) |->
              IF i = 0 THEN <<>>
              ELSE IF messages[i].role \in roles
              THEN Append(Kept(messages, roles)[i - 1], messages[i])
              ELSE Kept(messages, roles)[i - 1]]
<1> DEFINE Next(prior, i) ==
             IF messages[i].role \in roles THEN Append(prior, messages[i])
             ELSE prior
           Is(f, n) ==
             f = [i \in 0..n |-> IF i = 0 THEN <<>> ELSE Next(f[i - 1], i)]
           T == {n \in Nat : \E f : Is(f, n)}
<1> HIDE DEF Next
<1>1. 0 \in T
  <2>1. Is([i \in 0..0 |-> <<>>], 0)
    OBVIOUS
  <2> QED BY <2>1
<1>2. ASSUME NEW n \in Nat, n \in T PROVE n + 1 \in T
  <2>1. PICK f : Is(f, n)
    BY <1>2
  <2> DEFINE g == [i \in 0..(n + 1) |->
                     IF i <= n THEN f[i] ELSE Next(f[n], n + 1)]
  <2>2. Is(g, n + 1)
    <3> SUFFICES ASSUME NEW i \in 0..(n + 1)
                 PROVE  g[i] = IF i = 0 THEN <<>> ELSE Next(g[i - 1], i)
      OBVIOUS
    <3>1. CASE i = 0
      BY <2>1, <3>1
    <3>2. CASE i \in 1..n
      <4>1. i - 1 \in 0..n /\ g[i - 1] = f[i - 1] /\ g[i] = f[i]
        BY <3>2
      <4> QED BY <2>1, <3>2, <4>1
    <3>3. CASE i = n + 1
      BY <3>3
    <3> QED BY <3>1, <3>2, <3>3
  <2> HIDE DEF g, Is
  <2>3. \E h : Is(h, n + 1)
    BY <2>2
  <2> QED BY <2>3
<1>3. Len(messages) \in T
  BY <1>1, <1>2, Induction
<1>4. \E f : Is(f, Len(messages))
  BY <1>3
<1>5. Kept(messages, roles) = CHOOSE f : Is(f, Len(messages))
  BY DEF Kept, Next
<1> QED BY <1>4, <1>5 DEF Next

\* The same, at one place.
LEMMA KeptAt ==
  ASSUME NEW messages, NEW roles, Len(messages) \in Nat
  PROVE  /\ Kept(messages, roles)[0] = <<>>
         /\ \A i \in Nat : i + 1 <= Len(messages) =>
              Kept(messages, roles)[i + 1] =
                IF messages[i + 1].role \in roles
                THEN Append(Kept(messages, roles)[i], messages[i + 1])
                ELSE Kept(messages, roles)[i]
<1> DEFINE kept == Kept(messages, roles)
           Next(f, i) == IF i = 0 THEN <<>>
                         ELSE IF messages[i].role \in roles
                         THEN Append(f[i - 1], messages[i])
                         ELSE f[i - 1]
<1>1. kept = [i \in 0..Len(messages) |-> Next(kept, i)]
  BY KeptIs
<1> HIDE DEF kept, Next
<1>2. \A i \in 0..Len(messages) : kept[i] = Next(kept, i)
  BY <1>1
<1>3. kept[0] = <<>>
  BY <1>2 DEF Next
<1>4. ASSUME NEW i \in Nat, i + 1 <= Len(messages)
      PROVE  kept[i + 1] = IF messages[i + 1].role \in roles
                           THEN Append(kept[i], messages[i + 1])
                           ELSE kept[i]
  <2>1. i + 1 \in 0..Len(messages) /\ i + 1 # 0 /\ (i + 1) - 1 = i
    BY <1>4
  <2> QED BY <1>2, <2>1 DEF Next
<1> QED BY <1>3, <1>4 DEF kept

\* A message at the end changes nothing of what is kept before it.
LEMMA KeptOfAppend ==
  ASSUME NEW S, NEW s \in Seq(S), NEW m \in S, NEW roles
  PROVE  \A i \in 0..Len(s) : Kept(Append(s, m), roles)[i] = Kept(s, roles)[i]
<1> DEFINE longer == Append(s, m)
           T == {n \in Nat : n <= Len(s) =>
                               Kept(longer, roles)[n] = Kept(s, roles)[n]}
<1>1. /\ Len(s) \in Nat /\ Len(longer) = Len(s) + 1
      /\ \A i \in 1..Len(s) : longer[i] = s[i]
  BY AppendProperties, LenProperties
<1> HIDE DEF longer
<1>2. 0 \in T
  BY <1>1, KeptAt
<1>3. ASSUME NEW n \in Nat, n \in T PROVE n + 1 \in T
  <2> SUFFICES ASSUME n + 1 <= Len(s)
               PROVE  Kept(longer, roles)[n + 1] = Kept(s, roles)[n + 1]
    OBVIOUS
  <2>1. n + 1 \in 1..Len(s) /\ n + 1 <= Len(longer)
    BY <1>1
  <2>2. longer[n + 1] = s[n + 1]
    BY <1>1, <2>1
  <2>3. Kept(longer, roles)[n] = Kept(s, roles)[n]
    BY <1>3, <1>1
  <2>4. Kept(s, roles)[n + 1] =
          IF s[n + 1].role \in roles THEN Append(Kept(s, roles)[n], s[n + 1])
          ELSE Kept(s, roles)[n]
    BY <1>1, <2>1, KeptAt
  <2>5. Kept(longer, roles)[n + 1] =
          IF longer[n + 1].role \in roles
          THEN Append(Kept(longer, roles)[n], longer[n + 1])
          ELSE Kept(longer, roles)[n]
    BY <1>1, <2>1, KeptAt
  <2> QED BY <2>2, <2>3, <2>4, <2>5
<1>4. \A n \in Nat : n \in T
  <2> HIDE DEF T
  <2> QED BY <1>2, <1>3, Induction
<1> QED BY <1>1, <1>4 DEF longer

\* Nothing is kept of nothing.
LEMMA WithRolesOfNone ==
  ASSUME NEW roles
  PROVE  WithRoles(<<>>, roles) = <<>>
<1>1. Len(<<>>) = 0
  OBVIOUS
<1> QED BY <1>1, KeptAt DEF WithRoles

\* A message of these roles comes last; another leaves no trace.
LEMMA WithRolesOfAppend ==
  ASSUME NEW S, NEW s \in Seq(S), NEW m \in S, NEW roles
  PROVE  WithRoles(Append(s, m), roles) =
           IF m.role \in roles THEN Append(WithRoles(s, roles), m)
           ELSE WithRoles(s, roles)
<1> DEFINE longer == Append(s, m)
<1>1. /\ Len(s) \in Nat /\ Len(longer) = Len(s) + 1
      /\ longer[Len(s) + 1] = m
  BY AppendProperties, LenProperties
<1>2. Kept(longer, roles)[Len(s)] = Kept(s, roles)[Len(s)]
  BY <1>1, KeptOfAppend
<1> HIDE DEF longer
<1>3. Kept(longer, roles)[Len(s) + 1] =
        IF m.role \in roles THEN Append(Kept(longer, roles)[Len(s)], m)
        ELSE Kept(longer, roles)[Len(s)]
  BY <1>1, KeptAt
<1> QED BY <1>1, <1>2, <1>3 DEF WithRoles, longer

-----------------------------------------------------------------------------

\* What is kept is a list of messages, no longer than what it is kept of.
THEOREM WithRolesType ==
  ASSUME NEW S, NEW roles
  PROVE  \A s \in Seq(S) : /\ WithRoles(s, roles) \in Seq(S)
                           /\ Len(WithRoles(s, roles)) <= Len(s)
<1> DEFINE T == {s \in Seq(S) : /\ WithRoles(s, roles) \in Seq(S)
                                /\ Len(WithRoles(s, roles)) <= Len(s)}
<1>1. <<>> \in T
  <2>1. <<>> \in Seq(S) /\ WithRoles(<<>>, roles) = <<>>
    BY WithRolesOfNone, EmptySeq
  <2>2. Len(<<>>) <= Len(<<>>)
    BY EmptySeq
  <2> QED BY <2>1, <2>2
<1>2. ASSUME NEW s \in Seq(S), NEW m \in S, s \in T
      PROVE  Append(s, m) \in T
  <2>1. /\ Append(s, m) \in Seq(S) /\ Len(Append(s, m)) = Len(s) + 1
        /\ Len(s) \in Nat /\ Len(WithRoles(s, roles)) \in Nat
    BY <1>2, AppendProperties, LenProperties
  <2>2. CASE m.role \in roles
    <3>1. WithRoles(Append(s, m), roles) = Append(WithRoles(s, roles), m)
      BY <2>2, WithRolesOfAppend
    <3>2. /\ Append(WithRoles(s, roles), m) \in Seq(S)
          /\ Len(Append(WithRoles(s, roles), m)) =
               Len(WithRoles(s, roles)) + 1
      BY <1>2, AppendProperties
    <3> QED BY <1>2, <2>1, <3>1, <3>2
  <2>3. CASE m.role \notin roles
    <3>1. WithRoles(Append(s, m), roles) = WithRoles(s, roles)
      BY <2>3, WithRolesOfAppend
    <3> QED BY <1>2, <2>1, <3>1
  <2> QED BY <2>2, <2>3
<1>3. Seq(S) \subseteq T
  <2> HIDE DEF T
  <2> QED BY <1>1, <1>2, ListInduction
<1> QED BY <1>3

\* What is kept are the messages of these roles: all of them, and no others.
THEOREM WithRolesKeeps ==
  ASSUME NEW S, NEW roles
  PROVE  \A s \in Seq(S) : Range(WithRoles(s, roles)) =
                             {m \in Range(s) : m.role \in roles}
<1> DEFINE T == {s \in Seq(S) : Range(WithRoles(s, roles)) =
                                  {m \in Range(s) : m.role \in roles}}
<1>0. Range(<<>>) = {}
  <2>1. <<>> \in Seq(S) /\ Len(<<>>) = 0
    BY EmptySeq
  <2>2. Range(<<>>) = {<<>>[i] : i \in 1..Len(<<>>)}
    BY <2>1, RangeEquality
  <2>3. 1..Len(<<>>) = {}
    BY <2>1
  <2> QED BY <2>2, <2>3
<1>1. <<>> \in T
  BY <1>0, WithRolesOfNone, EmptySeq
<1>2. \A s \in Seq(S), m \in S : Range(Append(s, m)) = Range(s) \cup {m}
  <2> SUFFICES ASSUME NEW s \in Seq(S), NEW m \in S
               PROVE  Range(Append(s, m)) = Range(s) \cup {m}
    OBVIOUS
  <2>1. /\ Append(s, m) \in Seq(S) /\ Len(Append(s, m)) = Len(s) + 1
        /\ Len(s) \in Nat /\ Append(s, m)[Len(s) + 1] = m
        /\ \A i \in 1..Len(s) : Append(s, m)[i] = s[i]
    BY AppendProperties, LenProperties
  <2>2. /\ Range(s) = {s[i] : i \in 1..Len(s)}
        /\ Range(Append(s, m)) =
             {Append(s, m)[i] : i \in 1..(Len(s) + 1)}
    BY <2>1, RangeEquality
  <2>3. 1..(Len(s) + 1) = 1..Len(s) \cup {Len(s) + 1}
    BY <2>1
  <2> QED BY <2>1, <2>2, <2>3
<1>3. ASSUME NEW s \in Seq(S), NEW m \in S, s \in T
      PROVE  Append(s, m) \in T
  <2>1. WithRoles(s, roles) \in Seq(S) /\ Append(s, m) \in Seq(S)
    BY WithRolesType, AppendProperties
  <2>2. Range(Append(s, m)) = Range(s) \cup {m}
    BY <1>2
  <2>3. CASE m.role \in roles
    <3>1. WithRoles(Append(s, m), roles) = Append(WithRoles(s, roles), m)
      BY <2>3, WithRolesOfAppend
    <3>2. Range(Append(WithRoles(s, roles), m)) =
            Range(WithRoles(s, roles)) \cup {m}
      BY <1>2, <2>1
    <3> QED BY <1>3, <2>1, <2>2, <2>3, <3>1, <3>2
  <2>4. CASE m.role \notin roles
    <3>1. WithRoles(Append(s, m), roles) = WithRoles(s, roles)
      BY <2>4, WithRolesOfAppend
    <3> QED BY <1>3, <2>1, <2>2, <2>4, <3>1
  <2> QED BY <2>3, <2>4
<1>4. Seq(S) \subseteq T
  <2> HIDE DEF T
  <2> QED BY <1>1, <1>3, ListInduction
<1> QED BY <1>4

\* A list whose messages all have these roles is kept as it is.
THEOREM WithRolesOfWhole ==
  ASSUME NEW S, NEW roles
  PROVE  \A s \in Seq(S) : (\A i \in 1..Len(s) : s[i].role \in roles)
                           => WithRoles(s, roles) = s
<1> DEFINE T == {s \in Seq(S) : (\A i \in 1..Len(s) : s[i].role \in roles)
                                => WithRoles(s, roles) = s}
<1>1. <<>> \in T
  BY WithRolesOfNone, EmptySeq
<1>2. ASSUME NEW s \in Seq(S), NEW m \in S, s \in T
      PROVE  Append(s, m) \in T
  <2>1. /\ Append(s, m) \in Seq(S) /\ Len(Append(s, m)) = Len(s) + 1
        /\ Len(s) \in Nat /\ Append(s, m)[Len(s) + 1] = m
        /\ \A i \in 1..Len(s) : Append(s, m)[i] = s[i]
    BY AppendProperties, LenProperties
  <2> SUFFICES ASSUME \A i \in 1..Len(Append(s, m)) :
                        Append(s, m)[i].role \in roles
               PROVE  WithRoles(Append(s, m), roles) = Append(s, m)
    BY <2>1
  <2>2. \A i \in 1..Len(s) : s[i].role \in roles
    <3> SUFFICES ASSUME NEW i \in 1..Len(s) PROVE s[i].role \in roles
      OBVIOUS
    <3>1. i \in 1..Len(Append(s, m)) /\ Append(s, m)[i] = s[i]
      BY <2>1
    <3> QED BY <3>1
  <2>3. m.role \in roles
    BY <2>1
  <2> QED BY <1>2, <2>2, <2>3, WithRolesOfAppend
<1>3. Seq(S) \subseteq T
  <2> HIDE DEF T
  <2> QED BY <1>1, <1>2, ListInduction
<1> QED BY <1>3

\* What is kept of two lists, one after the other, is what is kept of each.
THEOREM WithRolesOfConcat ==
  ASSUME NEW S, NEW roles, NEW s \in Seq(S)
  PROVE  \A t \in Seq(S) : WithRoles(s \o t, roles) =
                             WithRoles(s, roles) \o WithRoles(t, roles)
<1> DEFINE T == {t \in Seq(S) : WithRoles(s \o t, roles) =
                                  WithRoles(s, roles) \o WithRoles(t, roles)}
<1>0. WithRoles(s, roles) \in Seq(S)
  BY WithRolesType
<1>1. <<>> \in T
  BY <1>0, WithRolesOfNone, EmptySeq, ConcatEmptySeq
<1>2. ASSUME NEW t \in Seq(S), NEW m \in S, t \in T
      PROVE  Append(t, m) \in T
  <2>0. <<m>> \in Seq(S) /\ Append(t, m) \in Seq(S) /\ s \o t \in Seq(S)
        /\ WithRoles(t, roles) \in Seq(S)
    BY AppendProperties, ConcatProperties, WithRolesType
  <2>1. s \o Append(t, m) = Append(s \o t, m)
    <3>1. s \o Append(t, m) = s \o (t \o <<m>>)
      BY AppendIsConcat
    <3>2. s \o (t \o <<m>>) = (s \o t) \o <<m>>
      BY <2>0, ConcatAssociative
    <3>3. (s \o t) \o <<m>> = Append(s \o t, m)
      BY <2>0, AppendIsConcat
    <3> QED BY <3>1, <3>2, <3>3
  <2>2. CASE m.role \in roles
    <3>1. /\ WithRoles(Append(s \o t, m), roles) =
               Append(WithRoles(s \o t, roles), m)
          /\ WithRoles(Append(t, m), roles) = Append(WithRoles(t, roles), m)
      BY <2>0, <2>2, WithRolesOfAppend
    <3>2. Append(WithRoles(s, roles) \o WithRoles(t, roles), m) =
            (WithRoles(s, roles) \o WithRoles(t, roles)) \o <<m>>
      <4>1. WithRoles(s, roles) \o WithRoles(t, roles) \in Seq(S)
        BY <1>0, <2>0, ConcatProperties
      <4> QED BY <4>1, AppendIsConcat
    <3>3. WithRoles(s, roles) \o Append(WithRoles(t, roles), m) =
            (WithRoles(s, roles) \o WithRoles(t, roles)) \o <<m>>
      <4>1. Append(WithRoles(t, roles), m) = WithRoles(t, roles) \o <<m>>
        BY <2>0, AppendIsConcat
      <4> QED BY <1>0, <2>0, <4>1, ConcatAssociative
    <3> QED BY <1>2, <2>0, <2>1, <3>1, <3>2, <3>3
  <2>3. CASE m.role \notin roles
    <3>1. /\ WithRoles(Append(s \o t, m), roles) = WithRoles(s \o t, roles)
          /\ WithRoles(Append(t, m), roles) = WithRoles(t, roles)
      BY <2>0, <2>3, WithRolesOfAppend
    <3> QED BY <1>2, <2>0, <2>1, <3>1
  <2> QED BY <2>2, <2>3
<1>3. Seq(S) \subseteq T
  <2> HIDE DEF T
  <2> QED BY <1>1, <1>2, ListInduction
<1> QED BY <1>3
=============================================================================

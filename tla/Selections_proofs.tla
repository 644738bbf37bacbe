--------------------------- MODULE Selections_proofs ---------------------------
(***************************************************************************)
(* What TLAPS proves of the loops over sequences the models are built      *)
(* from: Select and Count of module Selections, and FlattenSeq and         *)
(* RemoveFirst of SequencesExt.  Each is shown by induction on the length  *)
(* of a sequence, which the provers can apply when the induction           *)
(* hypothesis is given to them as a set.                                   *)
(***************************************************************************)
EXTENDS Selections, SequencesExt, SequenceTheorems, FiniteSetTheorems,
        WellFoundedInduction, TLAPS

-----------------------------------------------------------------------------
(* Induction. *)

LEMMA LeastNumber ==
    ASSUME NEW T, T \subseteq Nat, T # {}
    PROVE  \E x \in T : \A y \in T : x <= y
<1> DEFINE R == OpToRel(<, Nat)
<1>1. IsWellFoundedOn(R, Nat)
  BY NatLessThanWellFounded
<1>2. PICK x \in T : \A y \in T : <<y, x>> \notin R
  <2> HIDE DEF R
  <2> QED
    BY <1>1, WFMin
<1>3. \A y \in T : ~(y < x)
  BY <1>2 DEF OpToRel
<1> QED
  BY <1>3

(* A set with 0 that has the successor of each of its numbers has them all. *)
LEMMA InductionOnNumbers ==
    ASSUME NEW P, 0 \in P, \A n \in Nat : n \in P => n + 1 \in P
    PROVE  Nat \subseteq P
<1> DEFINE T == Nat \ P
<1> SUFFICES ASSUME T # {} PROVE FALSE
  OBVIOUS
<1>1. T \subseteq Nat
  OBVIOUS
<1>2. PICK x \in T : \A y \in T : x <= y
  <2> HIDE DEF T
  <2> QED
    BY <1>1, LeastNumber
<1>3. x \in Nat /\ x # 0 /\ x - 1 \in Nat /\ x - 1 \in P
  BY <1>2
<1> QED
  BY <1>3

(* A set with <<>> that has with each of its sequences all those that are  *)
(* longer by a last element has them all.                                  *)
LEMMA InductionOnSequences ==
    ASSUME NEW S, NEW P, <<>> \in P,
           \A s \in Seq(S), e \in S : s \in P => Append(s, e) \in P
    PROVE  Seq(S) \subseteq P
<1> DEFINE N == {n \in Nat : \A s \in Seq(S) : Len(s) = n => s \in P}
<1>1. 0 \in N
  BY EmptySeq
<1>2. ASSUME NEW n \in Nat, n \in N PROVE n + 1 \in N
  <2> SUFFICES ASSUME NEW s \in Seq(S), Len(s) = n + 1 PROVE s \in P
    OBVIOUS
  <2>1. PICK front \in Seq(S), e \in S : s = Append(front, e)
    BY SequenceEmptyOrAppend
  <2>2. Len(front) = n
    BY <2>1, AppendProperties
  <2>3. front \in P
    BY <1>2, <2>2
  <2> QED
    BY <2>1, <2>3
<1> HIDE DEF N
<1>3. Nat \subseteq N
  BY <1>1, <1>2, InductionOnNumbers
<1> QED
  BY <1>3, LenProperties DEF N

(* f is a at 0, and at n what step n makes of its value before. *)
Iterates(f, a, step, N) ==
    f[0] = a /\ \A n \in 1..N : f[n] = step[n][f[n - 1]]

LEMMA RecursionOnNumbers ==
    ASSUME NEW D, NEW a \in D, NEW N \in Nat, NEW step \in [1..N -> [D -> D]]
    PROVE  \E f \in [0..N -> D] : Iterates(f, a, step, N)
<1> USE DEF Iterates
<1> DEFINE Made(m) == \E f \in [0..m -> D] : Iterates(f, a, step, m)
           P == {m \in Nat : m <= N => Made(m)}
<1>1. 0 \in P
  <2> DEFINE f == [n \in 0..0 |-> a]
  <2>1. f \in [0..0 -> D] /\ f[0] = a /\ \A n \in 1..0 : f[n] = step[n][f[n - 1]]
    OBVIOUS
  <2> HIDE DEF f
  <2>2. Made(0)
    BY <2>1
  <2> QED
    BY <2>2
<1>2. ASSUME NEW m \in Nat, m \in P PROVE m + 1 \in P
  <2> SUFFICES ASSUME m + 1 <= N PROVE Made(m + 1)
    OBVIOUS
  <2>1. PICK f \in [0..m -> D] : f[0] = a /\ \A n \in 1..m : f[n] = step[n][f[n - 1]]
    BY <1>2
  <2> DEFINE g == [n \in 0..(m + 1) |-> IF n <= m THEN f[n] ELSE step[m + 1][f[m]]]
  <2>2. g \in [0..(m + 1) -> D]
    <3>1. f[m] \in D /\ step[m + 1] \in [D -> D]
      BY <2>1
    <3>2. step[m + 1][f[m]] \in D
      BY <3>1
    <3> QED
      BY <2>1, <3>2
  <2>3. g[0] = a
    BY <2>1
  <2>4. ASSUME NEW n \in 1..(m + 1) PROVE g[n] = step[n][g[n - 1]]
    <3>1. CASE n <= m
      <4>1. g[n] = f[n] /\ g[n - 1] = f[n - 1]
        BY <3>1
      <4> QED
        BY <2>1, <3>1, <4>1
    <3>2. CASE n = m + 1
      <4>1. g[n] = step[m + 1][f[m]] /\ g[n - 1] = f[m]
        BY <3>2
      <4> QED
        BY <3>2, <4>1
    <3> QED
      BY <3>1, <3>2
  <2> HIDE DEF g
  <2> QED
    BY <2>2, <2>3, <2>4
<1> HIDE DEF P
<1>3. N \in P
  BY <1>1, <1>2, InductionOnNumbers
<1> QED
  BY <1>3 DEF P

(* Functions that agree at 0, and at n if they do one before, agree. *)
AgreeOn(f, g, S) == \A n \in S : f[n] = g[n]

StepAlike(f, g, N) == \A n \in 1..N : f[n - 1] = g[n - 1] => f[n] = g[n]

LEMMA AgreeThroughout ==
    ASSUME NEW N \in Nat, NEW f, NEW g, f[0] = g[0], StepAlike(f, g, N)
    PROVE  AgreeOn(f, g, 0..N)
<1> USE DEF AgreeOn, StepAlike
<1> DEFINE P == {n \in Nat : n <= N => f[n] = g[n]}
<1>1. 0 \in P
  OBVIOUS
<1>2. ASSUME NEW n \in Nat, n \in P PROVE n + 1 \in P
  <2> SUFFICES ASSUME n + 1 <= N PROVE f[n + 1] = g[n + 1]
    OBVIOUS
  <2>1. n + 1 \in 1..N /\ f[(n + 1) - 1] = g[(n + 1) - 1]
    BY <1>2
  <2> QED
    BY <2>1
<1> HIDE DEF P
<1>3. Nat \subseteq P
  BY <1>1, <1>2, InductionOnNumbers
<1> QED
  BY <1>3 DEF P

-----------------------------------------------------------------------------
(* The members of sequences. *)

LEMMA ToSetOfEmpty == ToSet(<<>>) = {}
BY DEF ToSet

LEMMA ToSetOfAppend ==
    ASSUME NEW T, NEW s \in Seq(T), NEW e \in T
    PROVE  /\ Append(s, e) \in Seq(T)
           /\ Len(Append(s, e)) = Len(s) + 1
           /\ ToSet(Append(s, e)) = ToSet(s) \cup {e}
<1> DEFINE a == Append(s, e)
<1>1. /\ a \in Seq(T)
      /\ Len(a) = Len(s) + 1
      /\ \A n \in 1..Len(s) : a[n] = s[n]
      /\ a[Len(s) + 1] = e
      /\ Len(s) \in Nat
  BY AppendProperties
<1>2. DOMAIN a = 1..Len(s) \cup {Len(s) + 1} /\ DOMAIN s = 1..Len(s)
  BY <1>1
<1> HIDE DEF a
<1>3. ToSet(a) = ToSet(s) \cup {e}
  BY <1>1, <1>2 DEF ToSet
<1> QED
  BY <1>1, <1>3 DEF a

LEMMA SequenceOfItsOwn ==
    ASSUME NEW T, NEW s \in Seq(T)
    PROVE  s \in Seq(ToSet(s)) /\ ToSet(s) \subseteq T
<1>1. \A n \in 1..Len(s) : s[n] \in ToSet(s)
  BY DEF ToSet
<1>2. ToSet(s) \subseteq T
  BY DEF ToSet
<1> QED
  BY <1>1, <1>2

LEMMA ToSetOfConcat ==
    ASSUME NEW T, NEW s \in Seq(T), NEW t \in Seq(T)
    PROVE  s \o t \in Seq(T) /\ ToSet(s \o t) = ToSet(s) \cup ToSet(t)
<1> DEFINE c == s \o t
<1>1. /\ c \in Seq(T)
      /\ DOMAIN c = 1..(Len(s) + Len(t)) /\ DOMAIN s = 1..Len(s)
      /\ DOMAIN t = 1..Len(t) /\ Len(s) \in Nat /\ Len(t) \in Nat
      /\ \A n \in 1..(Len(s) + Len(t)) :
            c[n] = IF n <= Len(s) THEN s[n] ELSE t[n - Len(s)]
  OBVIOUS
<1> HIDE DEF c
<1>2. ToSet(c) \subseteq ToSet(s) \cup ToSet(t)
  <2> SUFFICES ASSUME NEW n \in DOMAIN c PROVE c[n] \in ToSet(s) \cup ToSet(t)
    BY DEF ToSet
  <2>1. CASE n <= Len(s)
    BY <1>1, <2>1 DEF ToSet
  <2>2. CASE n > Len(s)
    <3>1. n - Len(s) \in DOMAIN t /\ c[n] = t[n - Len(s)]
      BY <1>1, <2>2
    <3> QED
      BY <3>1 DEF ToSet
  <2> QED
    BY <1>1, <2>1, <2>2
<1>3. ToSet(s) \subseteq ToSet(c)
  <2>1. \A n \in DOMAIN s : n \in DOMAIN c /\ c[n] = s[n]
    BY <1>1
  <2> QED
    BY <2>1 DEF ToSet
<1>4. ToSet(t) \subseteq ToSet(c)
  <2>1. \A n \in DOMAIN t : n + Len(s) \in DOMAIN c /\ c[n + Len(s)] = t[n]
    BY <1>1
  <2> QED
    BY <2>1 DEF ToSet
<1> QED
  BY <1>1, <1>2, <1>3, <1>4 DEF c

LEMMA ToSetOfTail ==
    ASSUME NEW T, NEW s \in Seq(T), s # <<>>
    PROVE  /\ Head(s) \in T
           /\ Tail(s) \in Seq(T)
           /\ Len(Tail(s)) = Len(s) - 1
           /\ ToSet(s) = {Head(s)} \cup ToSet(Tail(s))
<1> DEFINE t == Tail(s)
<1>1. Len(s) \in Nat \ {0} /\ DOMAIN s = 1..Len(s) /\ Head(s) = s[1]
  BY EmptySeq
<1>2. /\ Head(s) \in T /\ t \in Seq(T) /\ Len(t) = Len(s) - 1
      /\ \A n \in 1..Len(t) : t[n] = s[n + 1]
      /\ DOMAIN t = 1..Len(t)
  BY HeadTailProperties
<1> HIDE DEF t
<1>3. ToSet(s) \subseteq {Head(s)} \cup ToSet(t)
  <2> SUFFICES ASSUME NEW n \in 1..Len(s), n # 1 PROVE s[n] \in ToSet(t)
    BY <1>1 DEF ToSet
  <2>1. n - 1 \in DOMAIN t /\ t[n - 1] = s[n]
    BY <1>1, <1>2
  <2> QED
    BY <2>1 DEF ToSet
<1>4. {Head(s)} \cup ToSet(t) \subseteq ToSet(s)
  <2>1. \A n \in DOMAIN t : n + 1 \in DOMAIN s /\ s[n + 1] = t[n]
    BY <1>1, <1>2
  <2>2. 1 \in DOMAIN s
    BY <1>1
  <2> QED
    BY <1>1, <2>1, <2>2 DEF ToSet
<1> QED
  BY <1>2, <1>3, <1>4 DEF t

-----------------------------------------------------------------------------
(* Select. *)

SelectFcn(s, S) ==
    CHOOSE select : select = [n \in 0..Len(s) |->
        IF n = 0 THEN <<>>
        ELSE IF s[n] \in S THEN Append(select[n - 1], s[n]) ELSE select[n - 1]]

LEMMA SelectFcnValues ==
    ASSUME NEW T, NEW s \in Seq(T), NEW S
    PROVE  /\ SelectFcn(s, S)[0] = <<>>
           /\ \A n \in 1..Len(s) :
                SelectFcn(s, S)[n] =
                    IF s[n] \in S THEN Append(SelectFcn(s, S)[n - 1], s[n])
                    ELSE SelectFcn(s, S)[n - 1]
<1> DEFINE D == Seq(T)
           N == Len(s)
           step == [n \in 1..N |->
                        [d \in D |-> IF s[n] \in S THEN Append(d, s[n]) ELSE d]]
           Body(f, n) == IF n = 0 THEN <<>>
                         ELSE IF s[n] \in S THEN Append(f[n - 1], s[n]) ELSE f[n - 1]
<1>1. step \in [1..N -> [D -> D]] /\ <<>> \in D /\ N \in Nat
  OBVIOUS
<1>2. PICK f \in [0..N -> D] : Iterates(f, <<>>, step, N)
  <2> HIDE DEF D, N, step
  <2> QED
    BY <1>1, RecursionOnNumbers
<1>3. \A n \in 0..N : f[n] = Body(f, n)
  <2>1. ASSUME NEW n \in 1..N PROVE f[n] = Body(f, n)
    <3>1. f[n - 1] \in D /\ n # 0
      BY <1>1, <1>2
    <3> QED
      BY <1>2, <3>1 DEF Iterates
  <2> HIDE DEF N, D, step
  <2>2. \A n \in 0..N \ {0} : n \in 1..N
    BY <1>1
  <2> QED
    BY <1>2, <2>1, <2>2 DEF Iterates
<1>4. f = [n \in 0..N |-> Body(f, n)]
  <2> HIDE DEF N, D, step, Body
  <2> QED
    BY <1>2, <1>3
<1>5. SelectFcn(s, S) = [n \in 0..N |-> Body(SelectFcn(s, S), n)]
  BY <1>4 DEF SelectFcn
<1> HIDE DEF Body, N
<1>6. \A n \in 0..N : SelectFcn(s, S)[n] = Body(SelectFcn(s, S), n)
  BY <1>5, Zenon
<1>7. 0 \in 0..N /\ \A n \in 1..N : n \in 0..N /\ n # 0
  BY <1>1
<1>8. /\ SelectFcn(s, S)[0] = Body(SelectFcn(s, S), 0)
      /\ \A n \in 1..N : SelectFcn(s, S)[n] = Body(SelectFcn(s, S), n) /\ n # 0
  BY <1>6, <1>7, Zenon
<1> QED
  BY <1>8 DEF Body, N

LEMMA SelectOfEmpty ==
    ASSUME NEW S
    PROVE  Select(<<>>, S) = <<>>
<1> SUFFICES ASSUME NEW s, s = <<>> PROVE Select(s, S) = <<>>
  OBVIOUS
<1>1. s \in Seq({})
  OBVIOUS
<1>2. SelectFcn(s, S)[0] = <<>>
  BY <1>1, SelectFcnValues, Zenon
<1>3. Select(s, S) = SelectFcn(s, S)[Len(s)]
  BY DEF Select, SelectFcn
<1>4. Len(s) = 0
  OBVIOUS
<1> QED
  BY <1>2, <1>3, <1>4

LEMMA SelectOfAppend ==
    ASSUME NEW T, NEW s \in Seq(T), NEW e \in T, NEW S
    PROVE  Select(Append(s, e), S) =
                IF e \in S THEN Append(Select(s, S), e) ELSE Select(s, S)
<1> DEFINE t == Append(s, e)
           N == Len(s)
           f == SelectFcn(s, S)
           g == SelectFcn(t, S)
<1>1. t \in Seq(T) /\ Len(t) = N + 1 /\ N \in Nat /\ t[N + 1] = e
      /\ \A n \in 1..N : t[n] = s[n]
  BY AppendProperties
<1>2. /\ f[0] = <<>>
      /\ \A n \in 1..N :
            f[n] = IF s[n] \in S THEN Append(f[n - 1], s[n]) ELSE f[n - 1]
  BY SelectFcnValues
<1>3. /\ g[0] = <<>>
      /\ \A n \in 1..Len(t) :
            g[n] = IF t[n] \in S THEN Append(g[n - 1], t[n]) ELSE g[n - 1]
  <2> HIDE DEF t
  <2> QED
    BY <1>1, SelectFcnValues
<1>4. Select(s, S) = f[N] /\ Select(t, S) = g[N + 1]
  <2>1. Select(t, S) = g[Len(t)]
    BY DEF Select, SelectFcn
  <2> QED
    BY <1>1, <2>1 DEF Select, SelectFcn
<1> HIDE DEF t, N, f, g
<1>5. g[N + 1] = IF t[N + 1] \in S THEN Append(g[N], t[N + 1]) ELSE g[N]
  <2>1. N + 1 \in 1..Len(t) /\ (N + 1) - 1 = N
    BY <1>1
  <2> QED
    BY <1>3, <2>1
<1>6. StepAlike(f, g, N)
  <2>1. \A n \in 1..N : n \in 1..Len(t) /\ s[n] = t[n]
    BY <1>1
  <2> QED
    BY <1>2, <1>3, <2>1 DEF StepAlike
<1>7. f[0] = g[0]
  BY <1>2, <1>3
<1>8. AgreeOn(f, g, 0..N)
  BY <1>1, <1>6, <1>7, AgreeThroughout
<1>9. f[N] = g[N]
  BY <1>1, <1>8 DEF AgreeOn
<1>10. Select(t, S) = IF e \in S THEN Append(Select(s, S), e) ELSE Select(s, S)
  BY <1>1, <1>4, <1>5, <1>9
<1> QED
  BY <1>10 DEF t

(* What Select keeps is what is in the set, in a sequence no longer.       *)
LEMMA SelectProperties ==
    ASSUME NEW T, NEW s \in Seq(T), NEW S
    PROVE  /\ Select(s, S) \in Seq(T \cap S)
           /\ ToSet(Select(s, S)) = ToSet(s) \cap S
           /\ Len(Select(s, S)) <= Len(s)
<1> DEFINE P == {r \in Seq(T) : /\ Select(r, S) \in Seq(T \cap S)
                               /\ ToSet(Select(r, S)) = ToSet(r) \cap S
                               /\ Len(Select(r, S)) <= Len(r)}
<1>1. <<>> \in P
  <2>1. <<>> \in Seq(T)
    OBVIOUS
  <2>2. Select(<<>>, S) \in Seq(T \cap S)
    <3>1. <<>> \in Seq(T \cap S)
      OBVIOUS
    <3> QED
      BY <3>1, SelectOfEmpty, Zenon
  <2>3. ToSet(Select(<<>>, S)) = ToSet(<<>>) \cap S
    BY SelectOfEmpty, ToSetOfEmpty
  <2>4. Len(Select(<<>>, S)) <= Len(<<>>)
    BY SelectOfEmpty
  <2> QED
    BY <2>1, <2>2, <2>3, <2>4, Zenon
<1>2. ASSUME NEW r \in Seq(T), NEW e \in T, r \in P PROVE Append(r, e) \in P
  <2> DEFINE q == Select(r, S)
             a == Select(Append(r, e), S)
  <2>1. a = IF e \in S THEN Append(q, e) ELSE q
    BY SelectOfAppend
  <2>2. /\ q \in Seq(T \cap S)
        /\ ToSet(q) = ToSet(r) \cap S
        /\ Len(q) <= Len(r)
    BY <1>2
  <2>3. /\ Append(r, e) \in Seq(T)
        /\ Len(Append(r, e)) = Len(r) + 1
        /\ ToSet(Append(r, e)) = ToSet(r) \cup {e}
    BY ToSetOfAppend
  <2>4. e \in S => /\ Append(q, e) \in Seq(T \cap S)
                   /\ Len(Append(q, e)) = Len(q) + 1
                   /\ ToSet(Append(q, e)) = ToSet(q) \cup {e}
    BY <2>2, ToSetOfAppend
  <2>5. Len(q) \in Nat /\ Len(r) \in Nat
    BY <2>2
  <2> HIDE DEF q, a
  <2>6. a \in Seq(T \cap S) /\ ToSet(a) = ToSet(Append(r, e)) \cap S
        /\ Len(a) <= Len(Append(r, e))
    <3>1. CASE e \in S
      BY <2>1, <2>2, <2>3, <2>4, <2>5, <3>1
    <3>2. CASE e \notin S
      BY <2>1, <2>2, <2>3, <2>5, <3>2
    <3> QED
      BY <3>1, <3>2
  <2> QED
    BY <2>3, <2>6 DEF a
<1> HIDE DEF P
<1>3. Seq(T) \subseteq P
  BY <1>1, <1>2, InductionOnSequences
<1> QED
  BY <1>3 DEF P

(* Select of a sequence with another first member. *)
LEMMA SelectOfCons ==
    ASSUME NEW T, NEW s \in Seq(T), NEW e \in T, NEW S
    PROVE  Select(<<e>> \o s, S) =
                IF e \in S THEN <<e>> \o Select(s, S) ELSE Select(s, S)
<1> DEFINE h == <<e>>
           P == {r \in Seq(T) : Select(h \o r, S) =
                                    IF e \in S THEN h \o Select(r, S) ELSE Select(r, S)}
<1>1. h \in Seq(T) /\ h = Append(<<>>, e) /\ <<>> \in Seq(T) /\ h \in Seq({e})
  OBVIOUS
<1>2. Select(h, S) = IF e \in S THEN h ELSE <<>>
  <2>1. <<>> \in Seq(T)
    OBVIOUS
  <2>2. Select(Append(<<>>, e), S) =
            IF e \in S THEN Append(Select(<<>>, S), e) ELSE Select(<<>>, S)
    BY <2>1, SelectOfAppend, Zenon
  <2>3. Select(<<>>, S) = <<>>
    BY SelectOfEmpty
  <2> HIDE DEF h
  <2> QED
    BY <1>1, <2>2, <2>3, Zenon
<1> HIDE DEF h
<1>3. <<>> \in P
  <2>1. h \o <<>> = h
    BY <1>1
  <2>2. Select(<<>>, S) = <<>>
    BY SelectOfEmpty
  <2>3. <<>> \in Seq(T)
    OBVIOUS
  <2>4. Select(h \o <<>>, S) = IF e \in S THEN h \o Select(<<>>, S) ELSE Select(<<>>, S)
    BY <1>2, <2>1, <2>2, Zenon
  <2> QED
    BY <2>3, <2>4, Zenon
<1>4. ASSUME NEW r \in Seq(T), NEW x \in T, r \in P PROVE Append(r, x) \in P
  <2> DEFINE q == h \o r
             chosen == Select(r, S)
  <2>1. q \in Seq(T) /\ Append(r, x) \in Seq(T) /\ h \o Append(r, x) = Append(q, x)
    BY <1>1
  <2>2. Select(q, S) = IF e \in S THEN h \o chosen ELSE chosen
    BY <1>4
  <2>3. chosen \in Seq(T)
    <3>1. chosen \in Seq(T \cap S)
      BY SelectProperties
    <3> QED
      BY <3>1
  <2> HIDE DEF q
  <2>4. Select(Append(q, x), S) = IF x \in S THEN Append(Select(q, S), x) ELSE Select(q, S)
    BY <2>1, SelectOfAppend
  <2>5. Select(Append(r, x), S) = IF x \in S THEN Append(chosen, x) ELSE chosen
    BY SelectOfAppend
  <2> HIDE DEF chosen
  <2>6. h \o Append(chosen, x) = Append(h \o chosen, x)
    BY <1>1, <2>3
  <2> QED
    BY <2>1, <2>2, <2>4, <2>5, <2>6
<1> HIDE DEF P
<1>5. Seq(T) \subseteq P
  BY <1>3, <1>4, InductionOnSequences
<1> QED
  BY <1>5 DEF P, h

-----------------------------------------------------------------------------
(* Count. *)

(* Where e is in s. *)
Places(s, e) == {n \in DOMAIN s : s[n] = e}

LEMMA CountType ==
    ASSUME NEW T, NEW s \in Seq(T), NEW e
    PROVE  /\ Count(s, e) \in Nat
           /\ IsFiniteSet(Places(s, e))
           /\ Count(s, e) = 0 <=> e \notin ToSet(s)
<1>1. Len(s) \in Nat /\ DOMAIN s = 1..Len(s)
  OBVIOUS
<1>2. IsFiniteSet(1..Len(s))
  BY <1>1, FS_Interval
<1>3. Places(s, e) \in SUBSET (1..Len(s))
  BY <1>1 DEF Places
<1>4. IsFiniteSet(Places(s, e))
  BY <1>2, <1>3, FS_Subset
<1>5. Cardinality(Places(s, e)) \in Nat
      /\ (Cardinality(Places(s, e)) = 0 <=> Places(s, e) = {})
  BY <1>4, FS_CardinalityType, FS_EmptySet
<1>6. Places(s, e) = {} <=> e \notin ToSet(s)
  BY DEF Places, ToSet
<1> QED
  BY <1>4, <1>5, <1>6 DEF Count, Places

LEMMA CountOfEmpty ==
    ASSUME NEW e
    PROVE  Count(<<>>, e) = 0
<1>1. {n \in DOMAIN <<>> : <<>>[n] = e} = {}
  OBVIOUS
<1> QED
  BY <1>1, FS_EmptySet DEF Count

LEMMA CountOfAppend ==
    ASSUME NEW T, NEW s \in Seq(T), NEW e \in T, NEW f
    PROVE  Count(Append(s, e), f) = IF f = e THEN Count(s, f) + 1 ELSE Count(s, f)
<1> DEFINE a == Append(s, e)
<1>1. /\ Len(s) \in Nat
      /\ DOMAIN s = 1..Len(s)
      /\ DOMAIN a = 1..(Len(s) + 1)
      /\ \A n \in 1..Len(s) : a[n] = s[n]
      /\ a[Len(s) + 1] = e
  BY AppendProperties
<1> HIDE DEF a
<1>2. Places(a, f) = IF f = e THEN Places(s, f) \cup {Len(s) + 1} ELSE Places(s, f)
  BY <1>1 DEF Places
<1>3. Len(s) + 1 \notin Places(s, f)
  BY <1>1 DEF Places
<1>4. IsFiniteSet(Places(s, f))
  BY CountType
<1>5. Cardinality(Places(s, f) \cup {Len(s) + 1}) = Cardinality(Places(s, f)) + 1
  BY <1>3, <1>4, FS_AddElement
<1>6. Count(a, f) = IF f = e THEN Count(s, f) + 1 ELSE Count(s, f)
  <2>1. Count(a, f) = Cardinality(Places(a, f)) /\ Count(s, f) = Cardinality(Places(s, f))
    BY DEF Count, Places
  <2> QED
    BY <1>2, <1>5, <2>1
<1> QED
  BY <1>6 DEF a

LEMMA CountOfConcat ==
    ASSUME NEW T, NEW s \in Seq(T), NEW t \in Seq(T), NEW f
    PROVE  Count(s \o t, f) = Count(s, f) + Count(t, f)
<1> DEFINE P == {r \in Seq(T) : Count(s \o r, f) = Count(s, f) + Count(r, f)}
<1>1. <<>> \in P
  <2>1. s \o <<>> = s /\ Count(<<>>, f) = 0 /\ Count(s, f) \in Nat
    BY ConcatEmptySeq, CountOfEmpty, CountType
  <2>2. Count(s \o <<>>, f) = Count(s, f) + Count(<<>>, f)
    BY <2>1
  <2>3. <<>> \in Seq(T)
    OBVIOUS
  <2> QED
    BY <2>2, <2>3, Zenon
<1>2. ASSUME NEW r \in Seq(T), NEW e \in T, r \in P PROVE Append(r, e) \in P
  <2>1. s \o Append(r, e) = Append(s \o r, e)
    <3>1. <<e>> \in Seq(T)
      OBVIOUS
    <3>2. s \o (r \o <<e>>) = (s \o r) \o <<e>>
      BY <3>1, ConcatAssociative
    <3>3. s \o r \in Seq(T)
      OBVIOUS
    <3> QED
      BY <3>2, <3>3, AppendIsConcat
  <2>2. s \o r \in Seq(T) /\ Append(r, e) \in Seq(T)
    OBVIOUS
  <2>3. Count(Append(s \o r, e), f)
            = IF f = e THEN Count(s \o r, f) + 1 ELSE Count(s \o r, f)
    <3> DEFINE q == s \o r
    <3>1. q \in Seq(T)
      OBVIOUS
    <3> HIDE DEF q
    <3>2. Count(Append(q, e), f) = IF f = e THEN Count(q, f) + 1 ELSE Count(q, f)
      BY <3>1, CountOfAppend
    <3> QED
      BY <3>2 DEF q
  <2>4. Count(Append(r, e), f) = IF f = e THEN Count(r, f) + 1 ELSE Count(r, f)
    BY CountOfAppend
  <2>5. Count(s, f) \in Nat /\ Count(r, f) \in Nat
    BY CountType
  <2>6. Count(s \o r, f) = Count(s, f) + Count(r, f)
    BY <1>2
  <2>7. Count(s \o Append(r, e), f) = Count(s, f) + Count(Append(r, e), f)
    BY <2>1, <2>3, <2>4, <2>5, <2>6
  <2> QED
    BY <2>2, <2>7
<1> HIDE DEF P
<1>3. Seq(T) \subseteq P
  BY <1>1, <1>2, InductionOnSequences
<1> QED
  BY <1>3 DEF P

LEMMA CountOfSelect ==
    ASSUME NEW T, NEW s \in Seq(T), NEW S, NEW f
    PROVE  Count(Select(s, S), f) = IF f \in S THEN Count(s, f) ELSE 0
<1> DEFINE P == {r \in Seq(T) :
                    Count(Select(r, S), f) = IF f \in S THEN Count(r, f) ELSE 0}
<1>1. <<>> \in P
  <2>1. Select(<<>>, S) = <<>> /\ Count(<<>>, f) = 0
    BY SelectOfEmpty, CountOfEmpty
  <2>2. Count(Select(<<>>, S), f) = IF f \in S THEN Count(<<>>, f) ELSE 0
    BY <2>1
  <2>3. <<>> \in Seq(T)
    OBVIOUS
  <2> QED
    BY <2>2, <2>3, Zenon
<1>2. ASSUME NEW r \in Seq(T), NEW e \in T, r \in P PROVE Append(r, e) \in P
  <2>1. Select(Append(r, e), S) = IF e \in S THEN Append(Select(r, S), e) ELSE Select(r, S)
    BY SelectOfAppend
  <2>2. Count(Append(r, e), f) = IF f = e THEN Count(r, f) + 1 ELSE Count(r, f)
    BY CountOfAppend
  <2>3. Select(r, S) \in Seq(T \cap S)
    BY SelectProperties
  <2>4. e \in S => Count(Append(Select(r, S), e), f)
                    = IF f = e THEN Count(Select(r, S), f) + 1 ELSE Count(Select(r, S), f)
    BY <2>3, CountOfAppend
  <2>5. Append(r, e) \in Seq(T) /\ Count(r, f) \in Nat
    BY CountType
  <2>6. Count(Select(r, S), f) = IF f \in S THEN Count(r, f) ELSE 0
    BY <1>2
  <2>7. Count(Select(Append(r, e), S), f) = IF f \in S THEN Count(Append(r, e), f) ELSE 0
    BY <2>1, <2>2, <2>4, <2>5, <2>6
  <2> QED
    BY <2>5, <2>7
<1> HIDE DEF P
<1>3. Seq(T) \subseteq P
  BY <1>1, <1>2, InductionOnSequences
<1> QED
  BY <1>3 DEF P

(* The first of a sequence is counted no more often than all of it.        *)
LEMMA FirstOfSequence ==
    ASSUME NEW T, NEW s \in Seq(T), s # <<>>
    PROVE  /\ SubSeq(s, 1, 1) \in Seq(T)
           /\ SubSeq(s, 1, 1) # <<>>
           /\ ToSet(SubSeq(s, 1, 1)) \subseteq ToSet(s)
           /\ \A f : Count(SubSeq(s, 1, 1), f) <= Count(s, f)
<1> DEFINE r == SubSeq(s, 1, 1)
<1>1. Len(s) \in Nat \ {0} /\ DOMAIN s = 1..Len(s)
  BY EmptySeq
<1>2. r \in Seq(T) /\ Len(r) = 1 /\ r[1] = s[1] /\ DOMAIN r = {1}
  BY <1>1, SubSeqProperties
<1> HIDE DEF r
<1>3. ToSet(r) \subseteq ToSet(s)
  BY <1>1, <1>2 DEF ToSet
<1>4. ASSUME NEW f PROVE Count(r, f) <= Count(s, f)
  <2>1. Places(r, f) \in SUBSET Places(s, f)
    BY <1>1, <1>2 DEF Places
  <2>2. IsFiniteSet(Places(s, f))
    BY CountType
  <2> QED
    BY <2>1, <2>2, FS_Subset DEF Count, Places
<1>5. r # <<>>
  <2>1. Len(r) # 0
    BY <1>2
  <2> QED
    BY <2>1, EmptySeq
<1> QED
  BY <1>2, <1>3, <1>4, <1>5 DEF r

-----------------------------------------------------------------------------
(* RemoveFirst takes one occurrence of a member away, and nothing else.    *)
LEMMA RemoveFirstProperties ==
    ASSUME NEW T, NEW s \in Seq(T), NEW e \in ToSet(s)
    PROVE  /\ RemoveFirst(s, e) \in Seq(T)
           /\ \A f : Count(RemoveFirst(s, e), f)
                        = IF f = e THEN Count(s, f) - 1 ELSE Count(s, f)
<1> DEFINE I == {n \in 1..Len(s) : s[n] = e}
<1>1. Len(s) \in Nat /\ DOMAIN s = 1..Len(s)
  OBVIOUS
<1>2. I # {} /\ I \subseteq Nat
  BY <1>1 DEF ToSet
<1>3. \E n \in I : \A m \in I : n <= m
  <2> HIDE DEF I
  <2> QED
    BY <1>2, LeastNumber
<1>4. SelectInSeq(s, LAMBDA v : v = e) \in I
  BY <1>2, <1>3 DEF SelectInSeq, Min
<1>5. PICK k \in 1..Len(s) : s[k] = e /\ RemoveFirst(s, e) = RemoveAt(s, k)
  BY <1>2, <1>4 DEF RemoveFirst
<1> DEFINE before == SubSeq(s, 1, k - 1)
           after == SubSeq(s, k + 1, Len(s))
<1>6. before \in Seq(T) /\ after \in Seq(T)
  <2>1. \A n \in 1..(k - 1) : s[n] \in T
    BY <1>1
  <2>2. \A n \in (k + 1)..Len(s) : s[n] \in T
    BY <1>1
  <2> QED
    BY <1>1, <2>1, <2>2, SubSeqProperties
<1>7. RemoveFirst(s, e) = before \o after
  BY <1>5 DEF RemoveAt
<1>8. e \in T /\ s = Append(before, e) \o after
  <2>1. e \in T
    BY <1>1, <1>5
  <2>2. SubSeq(s, 1, k) = before \o <<e>>
    BY <1>1, <1>5, SubSeqRecursiveSecond
  <2>3. SubSeq(s, 1, k) \o after = SubSeq(s, 1, Len(s))
    <3>1. 1 \in 1..(Len(s) + 1) /\ k \in (1 - 1)..Len(s) /\ Len(s) \in k..Len(s)
      BY <1>1
    <3>2. SubSeq(s, 1, k) \o SubSeq(s, k + 1, Len(s)) = SubSeq(s, 1, Len(s))
      BY <3>1, ConcatAdjacentSubSeq
    <3> QED
      BY <3>2
  <2>4. SubSeq(s, 1, Len(s)) = s
    BY SubSeqFull
  <2>5. Append(before, e) = before \o <<e>>
    <3> HIDE DEF before
    <3> QED
      BY <1>6, <2>1, AppendIsConcat
  <2> QED
    BY <2>1, <2>2, <2>3, <2>4, <2>5
<1> HIDE DEF before, after
<1>9. ASSUME NEW f
      PROVE  Count(RemoveFirst(s, e), f) = IF f = e THEN Count(s, f) - 1 ELSE Count(s, f)
  <2>1. Append(before, e) \in Seq(T)
    BY <1>6, <1>8
  <2>2. Count(s, f) = Count(Append(before, e), f) + Count(after, f)
    BY <1>6, <1>8, <2>1, CountOfConcat
  <2>3. Count(Append(before, e), f)
            = IF f = e THEN Count(before, f) + 1 ELSE Count(before, f)
    BY <1>6, <1>8, CountOfAppend
  <2>4. Count(RemoveFirst(s, e), f) = Count(before, f) + Count(after, f)
    BY <1>6, <1>7, CountOfConcat
  <2>5. Count(before, f) \in Nat /\ Count(after, f) \in Nat
    BY <1>6, CountType
  <2> QED
    BY <2>2, <2>3, <2>4, <2>5
<1> QED
  BY <1>6, <1>7, <1>9

-----------------------------------------------------------------------------
(* FlattenSeq. *)

FlattenFcn(seqs) ==
    CHOOSE flatten : flatten = [i \in 1..Len(seqs) |->
        IF i = 1 THEN seqs[i] ELSE flatten[i - 1] \o seqs[i]]

LEMMA FlattenFcnValues ==
    ASSUME NEW T, NEW seqs \in Seq(Seq(T))
    PROVE  /\ FlattenFcn(seqs) \in [1..Len(seqs) -> Seq(T)]
           /\ Len(seqs) > 0 => FlattenFcn(seqs)[1] = seqs[1]
           /\ \A n \in 2..Len(seqs) :
                FlattenFcn(seqs)[n] = FlattenFcn(seqs)[n - 1] \o seqs[n]
<1> DEFINE D == Seq(T)
           N == Len(seqs)
           step == [n \in 1..N |-> [d \in D |-> d \o seqs[n]]]
           Body(f, n) == IF n = 1 THEN seqs[n] ELSE f[n - 1] \o seqs[n]
<1>1. /\ N \in Nat
      /\ <<>> \in D
      /\ \A n \in 1..N : seqs[n] \in D
      /\ \A d \in D, e \in D : d \o e \in D
  OBVIOUS
<1>2. step \in [1..N -> [D -> D]]
  <2> HIDE DEF D
  <2> QED
    BY <1>1
<1>3. PICK f \in [0..N -> D] : Iterates(f, <<>>, step, N)
  <2> HIDE DEF D, N, step
  <2> QED
    BY <1>1, <1>2, RecursionOnNumbers
<1> DEFINE g == [n \in 1..N |-> f[n]]
<1>4. \A n \in 1..N : f[n] = f[n - 1] \o seqs[n] /\ f[n - 1] \in D
  <2>1. ASSUME NEW n \in 1..N PROVE f[n] = f[n - 1] \o seqs[n] /\ f[n - 1] \in D
    <3> HIDE DEF D
    <3>1. n - 1 \in 0..N
      BY <1>1
    <3>2. f[n - 1] \in D /\ f[n] = step[n][f[n - 1]]
      BY <1>3, <3>1 DEF Iterates
    <3> QED
      BY <3>2
  <2> QED
    BY <2>1
<1>5. \A n \in 1..N : g[n] = Body(g, n)
  <2> SUFFICES ASSUME NEW n \in 1..N PROVE g[n] = Body(g, n)
    OBVIOUS
  <2>1. CASE n = 1
    <3>1. f[0] = <<>> /\ f[1] = f[0] \o seqs[1]
      <4>1. f[n] = f[n - 1] \o seqs[n]
        BY <1>4, Zenon
      <4>2. n - 1 = 0
        BY <2>1
      <4> QED
        BY <1>3, <2>1, <4>1, <4>2 DEF Iterates
    <3>2. <<>> \o seqs[1] = seqs[1]
      BY <1>1, <2>1, ConcatEmptySeq
    <3> QED
      BY <2>1, <3>1, <3>2
  <2>2. CASE n # 1
    <3>1. n - 1 \in 1..N
      BY <1>1, <2>2
    <3> QED
      BY <1>4, <2>2, <3>1
  <2> QED
    BY <2>1, <2>2
<1>7. g = [n \in 1..N |-> Body(g, n)]
  <2>1. g = [n \in 1..N |-> g[n]]
    OBVIOUS
  <2> HIDE DEF N, D, step, Body, g
  <2> QED
    BY <1>5, <2>1
<1>8. FlattenFcn(seqs) = [n \in 1..N |-> Body(FlattenFcn(seqs), n)]
  <2> HIDE DEF g
  <2> QED
    BY <1>7 DEF FlattenFcn
<1> DEFINE h == FlattenFcn(seqs)
<1> HIDE DEF Body, N, g, h
<1>9. \A n \in 1..N : h[n] = Body(h, n)
  BY <1>8, Zenon DEF h
<1>10. DOMAIN h = 1..N /\ h = [n \in 1..N |-> h[n]]
  BY <1>8, Zenon DEF h
<1>11. N > 0 => h[1] = seqs[1]
  BY <1>1, <1>9 DEF Body
<1>12. \A n \in 2..N : n \in 1..N /\ n - 1 \in 1..N /\ h[n] = h[n - 1] \o seqs[n]
  <2>1. \A n \in 2..N : n \in 1..N /\ n - 1 \in 1..N /\ n # 1
    BY <1>1
  <2> QED
    BY <1>9, <2>1, Zenon DEF Body
<1>13. \A n \in 1..N : h[n] \in D
  <2> DEFINE P == {n \in Nat : n \in 1..N => h[n] \in D}
  <2>1. 0 \in P
    OBVIOUS
  <2>2. ASSUME NEW n \in Nat, n \in P PROVE n + 1 \in P
    <3> SUFFICES ASSUME n + 1 \in 1..N PROVE h[n + 1] \in D
      OBVIOUS
    <3> HIDE DEF D
    <3>1. CASE n = 0
      BY <1>1, <1>11, <3>1
    <3>2. CASE n # 0
      <4>1. n \in 1..N /\ n + 1 \in 2..N /\ (n + 1) - 1 = n
        BY <1>1, <3>2
      <4>2. h[n] \in D
        BY <2>2, <4>1
      <4>3. h[n + 1] = h[n] \o seqs[n + 1]
        BY <1>12, <4>1
      <4> QED
        BY <1>1, <4>2, <4>3
    <3> QED
      BY <3>1, <3>2
  <2> HIDE DEF P
  <2>3. Nat \subseteq P
    BY <2>1, <2>2, InductionOnNumbers
  <2> QED
    BY <2>3 DEF P
<1>14. h \in [1..N -> D]
  <2> HIDE DEF D
  <2> QED
    BY <1>10, <1>13
<1> QED
  BY <1>11, <1>12, <1>14 DEF h, N

(* FlattenSeq makes a sequence of the members of all the sequences. *)
LEMMA FlattenSeqProperties ==
    ASSUME NEW T, NEW seqs \in Seq(Seq(T))
    PROVE  /\ FlattenSeq(seqs) \in Seq(T)
           /\ \A e \in ToSet(FlattenSeq(seqs)) :
                \E n \in DOMAIN seqs : e \in ToSet(seqs[n])
<1> DEFINE N == Len(seqs)
           h == FlattenFcn(seqs)
           From(m, e) == \E n \in 1..m : e \in ToSet(seqs[n])
<1>1. N \in Nat /\ DOMAIN seqs = 1..N /\ \A n \in 1..N : seqs[n] \in Seq(T)
  OBVIOUS
<1>2. CASE N = 0
  <2>1. seqs = <<>> /\ FlattenSeq(seqs) = seqs
    BY <1>2, EmptySeq DEF FlattenSeq
  <2>2. ToSet(FlattenSeq(seqs)) = {}
    BY <2>1, ToSetOfEmpty
  <2>3. <<>> \in Seq(T)
    OBVIOUS
  <2>4. FlattenSeq(seqs) \in Seq(T)
    BY <2>1, <2>3, Zenon
  <2> QED
    BY <2>2, <2>4
<1>3. CASE N # 0
  <2>1. FlattenSeq(seqs) = h[N]
    BY <1>3 DEF FlattenSeq, FlattenFcn
  <2>2. /\ h \in [1..N -> Seq(T)]
        /\ h[1] = seqs[1]
        /\ \A n \in 2..N : h[n] = h[n - 1] \o seqs[n]
    <3>1. N > 0
      BY <1>1, <1>3
    <3> QED
      BY <3>1, FlattenFcnValues, Zenon
  <2> HIDE DEF h
  <2> DEFINE P == {m \in Nat : m \in 1..N => \A e \in ToSet(h[m]) : From(m, e)}
  <2>3. 0 \in P
    OBVIOUS
  <2>4. ASSUME NEW m \in Nat, m \in P PROVE m + 1 \in P
    <3> SUFFICES ASSUME m + 1 \in 1..N, NEW e \in ToSet(h[m + 1]) PROVE From(m + 1, e)
      OBVIOUS
    <3>1. CASE m = 0
      BY <2>2, <3>1
    <3>2. CASE m # 0
      <4>1. m \in 1..N /\ m + 1 \in 2..N /\ (m + 1) - 1 = m
        BY <1>1, <3>2
      <4>2. h[m + 1] = h[m] \o seqs[m + 1] /\ h[m] \in Seq(T) /\ seqs[m + 1] \in Seq(T)
        BY <1>1, <2>2, <4>1
      <4>3. e \in ToSet(h[m]) \/ e \in ToSet(seqs[m + 1])
        <5>1. ToSet(h[m] \o seqs[m + 1]) = ToSet(h[m]) \cup ToSet(seqs[m + 1])
          BY <4>2, ToSetOfConcat
        <5> QED
          BY <4>2, <5>1
      <4>4. e \in ToSet(h[m]) => From(m, e)
        BY <2>4, <4>1
      <4> QED
        BY <4>3, <4>4
    <3> QED
      BY <3>1, <3>2
  <2> HIDE DEF P
  <2>5. Nat \subseteq P
    BY <2>3, <2>4, InductionOnNumbers
  <2>6. N \in 1..N
    BY <1>1, <1>3
  <2> QED
    BY <1>1, <2>1, <2>2, <2>5, <2>6 DEF P
<1> QED
  BY <1>2, <1>3
=============================================================================

------------------------- MODULE IpsetBackendProofs -------------------------
(***************************************************************************)
(* What IpsetBackend promises for any number of engines, families, chains  *)
(* and entries, and with it the two parts of MCIpsetBackend.               *)
(*                                                                         *)
(* CallsHoldWord speaks of a call with nothing left to run, and a call in  *)
(* the middle is in none of the states it speaks of. BackendInv says what  *)
(* a call in the middle knows: each round of its loops is one of a few     *)
(* (RoundsOK); what the call is to do for a family or a place is done, or  *)
(* its round is still in the list (SetsOK, ChainsOK); and the round under  *)
(* way has found the set or the chain as its next command needs it (SetMid,*)
(* ChainMid). The sets are as the call left them when it is alone, the     *)
(* chains when it is undisturbed.                                          *)
(*                                                                         *)
(* No lemma is about one length of the loops. ForEach runs through a finite*)
(* set in some order, and what is left is the head and the tail of the     *)
(* list; where RemoveFirst takes a sequence apart, the least index stands  *)
(* in for induction.                                                       *)
(***************************************************************************)
EXTENDS MCIpsetBackend, FiniteSetTheorems, SequenceTheorems, WellFoundedInduction, TLAPS

(* ------------------------------ sequences ------------------------------- *)

\* SetToSeq(S) lists each element of S once.
LEMMA Listed ==
  ASSUME NEW S, IsFiniteSet(S)
  PROVE  /\ Cardinality(S) \in Nat
         /\ SetToSeq(S) \in [1..Cardinality(S) -> S]
         /\ \A i, j \in 1..Cardinality(S) : SetToSeq(S)[i] = SetToSeq(S)[j] => i = j
         /\ \A x \in S : \E i \in 1..Cardinality(S) : SetToSeq(S)[i] = x
<1> DEFINE n == Cardinality(S)
           f == SetToSeq(S)
<1>1. n \in Nat /\ ExistsBijection(1..n, S)
  BY FS_CardinalityType
<1>2. \E g \in [1..n -> S] : IsInjective(g)
  BY <1>1 DEF ExistsBijection, Bijection, Injection
<1>3. f \in [1..n -> S] /\ IsInjective(f)
  BY <1>2 DEF SetToSeq
<1>4. f \in Injection(1..n, S)
  BY <1>3 DEF Injection
<1>5. IsFiniteSet(1..n) /\ Cardinality(1..n) = n
  BY <1>1, FS_Interval
<1> HIDE DEF n, f
<1>6. f \in Surjection(1..n, S)
  BY <1>4, <1>5, FS_Injection DEF n
<1> QED
  BY <1>1, <1>3, <1>6 DEF IsInjective, Surjection, n, f

\* A sequence with one more in front.
LEMMA Prepended ==
  ASSUME NEW S, NEW t \in Seq(S), NEW x \in S
  PROVE  /\ <<x>> \o t \in Seq(S) /\ <<x>> \o t # <<>>
         /\ Len(<<x>> \o t) = Len(t) + 1
         /\ Head(<<x>> \o t) = x
         /\ (<<x>> \o t)[1] = x
         /\ \A i \in 2..Len(t) + 1 : (<<x>> \o t)[i] = t[i - 1]
<1>1. <<x>> \in Seq(S) /\ Len(<<x>>) = 1 /\ <<x>>[1] = x
  OBVIOUS
<1>2. /\ <<x>> \o t \in Seq(S)
      /\ Len(<<x>> \o t) = 1 + Len(t)
      /\ \A i \in 1..1 + Len(t) : (<<x>> \o t)[i] = IF i <= 1 THEN <<x>>[i] ELSE t[i - 1]
  BY <1>1, ConcatProperties
<1> DEFINE s == <<x>> \o t
<1>3. s \in Seq(S) /\ Len(s) = Len(t) + 1 /\ Len(t) \in Nat /\ s[1] = x
  BY <1>1, <1>2
<1>4. \A i \in 2..Len(t) + 1 : s[i] = t[i - 1]
  BY <1>2, <1>3
<1> HIDE DEF s
<1>5. s # <<>> /\ Head(s) = x
  BY <1>3
<1> QED BY <1>3, <1>4, <1>5 DEF s

\* How a sequence with a new head is recognised.
LEMMA JoinedIs ==
  ASSUME NEW S, NEW x \in S, NEW t \in Seq(S), NEW u \in Seq(S),
         Len(u) = Len(t) + 1, u[1] = x, \A i \in 2..Len(u) : u[i] = t[i - 1]
  PROVE  <<x>> \o t = u
<1> DEFINE s == <<x>> \o t
<1>1. /\ s \in Seq(S) /\ Len(s) = Len(t) + 1 /\ s[1] = x
      /\ \A i \in 2..Len(t) + 1 : s[i] = t[i - 1]
  BY Prepended
<1> HIDE DEF s
<1>2. \A i \in 1..Len(s) : s[i] = u[i]
  BY <1>1
<1>3. s = u
  BY <1>1, <1>2, SeqEqual
<1> QED BY <1>3 DEF s

\* The sequences of constants that a round is cut into.
LEMMA Joined1 ==
  ASSUME NEW x, NEW a
  PROVE  <<x>> \o <<a>> = <<x, a>>
<1> DEFINE S == {x, a}
           t == <<a>>
           u == <<x, a>>
<1>1. x \in S /\ t \in Seq(S) /\ u \in Seq(S) /\ Len(t) = 1 /\ Len(u) = 2
  OBVIOUS
<1>2. u[1] = x /\ \A i \in 2..2 : u[i] = t[i - 1]
  OBVIOUS
<1>3. Len(u) = Len(t) + 1 /\ \A i \in 2..Len(u) : u[i] = t[i - 1]
  BY <1>1, <1>2
<1> HIDE DEF S, t, u
<1>4. <<x>> \o t = u
  BY <1>1, <1>2, <1>3, JoinedIs
<1> QED BY <1>4 DEF t, u

\* A new head of a pair.
LEMMA Joined2 ==
  ASSUME NEW x, NEW a, NEW b
  PROVE  <<x>> \o <<a, b>> = <<x, a, b>>
<1> DEFINE S == {x, a, b}
           t == <<a, b>>
           u == <<x, a, b>>
<1>1. x \in S /\ t \in Seq(S) /\ u \in Seq(S) /\ Len(t) = 2 /\ Len(u) = 3
  OBVIOUS
<1>2. u[1] = x /\ \A i \in 2..3 : u[i] = t[i - 1]
  OBVIOUS
<1>3. Len(u) = Len(t) + 1 /\ \A i \in 2..Len(u) : u[i] = t[i - 1]
  BY <1>1, <1>2
<1> HIDE DEF S, t, u
<1>4. <<x>> \o t = u
  BY <1>1, <1>2, <1>3, JoinedIs
<1> QED BY <1>4 DEF t, u

\* A new head of a triple.
LEMMA Joined3 ==
  ASSUME NEW x, NEW a, NEW b, NEW c
  PROVE  <<x>> \o <<a, b, c>> = <<x, a, b, c>>
<1> DEFINE S == {x, a, b, c}
           t == <<a, b, c>>
           u == <<x, a, b, c>>
<1>1. x \in S /\ t \in Seq(S) /\ u \in Seq(S) /\ Len(t) = 3 /\ Len(u) = 4
  OBVIOUS
<1>2. u[1] = x /\ \A i \in 2..4 : u[i] = t[i - 1]
  OBVIOUS
<1>3. Len(u) = Len(t) + 1 /\ \A i \in 2..Len(u) : u[i] = t[i - 1]
  BY <1>1, <1>2
<1> HIDE DEF S, t, u
<1>4. <<x>> \o t = u
  BY <1>1, <1>2, <1>3, JoinedIs
<1> QED BY <1>4 DEF t, u

\* Nothing, or one round, in front of the rounds that remain.
LEMMA OnwardIs ==
  ASSUME NEW S, NEW t \in Seq(S), t # <<>>, NEW rest
  PROVE  /\ Tail(t) \in Seq(S)
         /\ rest = <<>> => Onward(rest, t) = Tail(t)
         /\ rest # <<>> /\ rest \in S =>
              /\ Onward(rest, t) \in Seq(S) /\ Onward(rest, t) # <<>>
              /\ Head(Onward(rest, t)) = rest /\ Tail(Onward(rest, t)) = Tail(t)
<1>1. Tail(t) \in Seq(S)
  OBVIOUS
<1>2. ASSUME rest = <<>> PROVE Onward(rest, t) = Tail(t)
  <2>1. Onward(rest, t) = <<>> \o Tail(t)
    BY <1>2 DEF Onward
  <2> QED BY <1>1, <2>1, ConcatEmptySeq
<1>3. ASSUME rest # <<>>, rest \in S
      PROVE  /\ Onward(rest, t) \in Seq(S) /\ Onward(rest, t) # <<>>
             /\ Head(Onward(rest, t)) = rest /\ Tail(Onward(rest, t)) = Tail(t)
  <2> DEFINE u == Tail(t)
             s == <<rest>> \o u
  <2>1. Onward(rest, t) = s
    BY <1>3 DEF Onward
  <2>2. u \in Seq(S)
    BY <1>1
  <2> HIDE DEF u
  <2>3. /\ s \in Seq(S) /\ s # <<>> /\ Len(s) = Len(u) + 1 /\ Head(s) = rest
        /\ \A i \in 2..Len(u) + 1 : s[i] = u[i - 1]
    BY <1>3, <2>2, Prepended
  <2> HIDE DEF s
  <2>4. Tail(s) \in Seq(S) /\ Len(Tail(s)) = Len(u) /\ \A i \in 1..Len(u) : Tail(s)[i] = s[i + 1]
    BY <2>2, <2>3
  <2>5. ASSUME NEW i \in 1..Len(Tail(s)) PROVE Tail(s)[i] = u[i]
    <3>1. Len(u) \in Nat /\ i \in 1..Len(u)
      BY <2>2, <2>4
    <3>2. i + 1 \in 2..Len(u) + 1 /\ (i + 1) - 1 = i
      BY <3>1
    <3>3. Tail(s)[i] = s[i + 1] /\ s[i + 1] = u[(i + 1) - 1]
      BY <2>3, <2>4, <3>1, <3>2
    <3> QED BY <3>2, <3>3
  <2>6. Tail(s) = u
    BY <2>2, <2>4, <2>5, SeqEqual
  <2> QED BY <2>1, <2>3, <2>6 DEF u
<1> QED BY <1>1, <1>2, <1>3

\* What a concatenation lists.
Joins(u, s, t) ==
  /\ \A i \in DOMAIN u : (\E j \in DOMAIN s : u[i] = s[j]) \/ (\E j \in DOMAIN t : u[i] = t[j])
  /\ \A j \in DOMAIN s : \E i \in DOMAIN u : u[i] = s[j]
  /\ \A j \in DOMAIN t : \E i \in DOMAIN u : u[i] = t[j]

\* What Joins says holds of a concatenation.
LEMMA Concatenated ==
  ASSUME NEW S, NEW s \in Seq(S), NEW t \in Seq(S)
  PROVE  s \o t \in Seq(S) /\ Joins(s \o t, s, t)
<1> DEFINE u == s \o t
<1>1. /\ u \in Seq(S) /\ Len(u) = Len(s) + Len(t)
      /\ \A i \in 1..Len(s) + Len(t) : u[i] = IF i <= Len(s) THEN s[i] ELSE t[i - Len(s)]
  BY ConcatProperties
<1> HIDE DEF u
<1>2. /\ Len(s) \in Nat /\ Len(t) \in Nat
      /\ DOMAIN u = 1..Len(s) + Len(t) /\ DOMAIN s = 1..Len(s) /\ DOMAIN t = 1..Len(t)
  BY <1>1
<1>3. \A i \in DOMAIN u : (\E j \in DOMAIN s : u[i] = s[j]) \/ (\E j \in DOMAIN t : u[i] = t[j])
  <2> TAKE i \in DOMAIN u
  <2>1. CASE i <= Len(s)
    BY <1>1, <1>2, <2>1
  <2>2. CASE ~(i <= Len(s))
    <3>1. i - Len(s) \in DOMAIN t /\ u[i] = t[i - Len(s)]
      BY <1>1, <1>2, <2>2
    <3> QED BY <3>1
  <2> QED BY <2>1, <2>2
<1>4. \A j \in DOMAIN s : j \in DOMAIN u /\ u[j] = s[j]
  BY <1>1, <1>2
<1>5. \A j \in DOMAIN t : j + Len(s) \in DOMAIN u /\ u[j + Len(s)] = t[j]
  <2> TAKE j \in DOMAIN t
  <2>1. /\ j + Len(s) \in 1..Len(s) + Len(t) /\ ~(j + Len(s) <= Len(s))
        /\ (j + Len(s)) - Len(s) = j
    BY <1>2
  <2> QED BY <1>1, <1>2, <2>1
<1> QED BY <1>1, <1>3, <1>4, <1>5 DEF u, Joins

\* In every collection of subsets of a finite set one is minimal. This
\* takes the place of induction: the smallest counterexample is refuted.
LEMMA Minimal ==
  ASSUME NEW S, IsFiniteSet(S), NEW Bad \in SUBSET (SUBSET S), Bad # {}
  PROVE  \E T \in Bad : \A U \in Bad : ~(U \subseteq T /\ U # T)
<1> DEFINE R == StrictSubsetOrdering(S)
<1>1. IsWellFoundedOn(R, SUBSET S)
  BY FS_StrictSubsetOrderingWellFounded, FS_FiniteSubsetsOfFinite
<1>2. R = {ss \in (SUBSET S) \X (SUBSET S) : ss[1] \subseteq ss[2] /\ ss[1] # ss[2]}
  BY DEF StrictSubsetOrdering
<1> HIDE DEF R
<1>3. PICK T \in Bad : \A U \in Bad : ~(<<U, T>> \in R)
  BY <1>1, WFMin
<1>4. \A U \in Bad : <<U, T>> \in (SUBSET S) \X (SUBSET S)
  OBVIOUS
<1>5. \A U \in Bad : ~(U \subseteq T /\ U # T)
  BY <1>2, <1>3, <1>4
<1> QED BY <1>5

\* A set of natural numbers has a least member: among the intervals 1..n
\* of its members n there is a minimal one.
LEMMA Least ==
  ASSUME NEW S \in SUBSET Nat, S # {}
  PROVE  \E n \in S : \A m \in S : n <= m
<1>1. PICK k \in S : TRUE
  OBVIOUS
<1> DEFINE B == 1..k
           Bad == {T \in SUBSET B : \E n \in S : n <= k /\ T = 1..n}
<1>2. IsFiniteSet(B)
  BY FS_Interval
<1>3. B \in Bad
  OBVIOUS
<1>4. PICK T \in Bad : \A U \in Bad : ~(U \subseteq T /\ U # T)
  <2>1. Bad \in SUBSET (SUBSET B) /\ Bad # {}
    BY <1>3
  <2> HIDE DEF B, Bad
  <2> QED BY <1>2, <2>1, Minimal
<1>5. PICK n \in S : n <= k /\ T = 1..n
  OBVIOUS
<1>6. ASSUME NEW m \in S, ~(n <= m) PROVE FALSE
  <2>1. m <= k /\ m < n /\ m \in Nat /\ n \in Nat /\ k \in Nat
    BY <1>5, <1>6
  <2>2. (1..m) \in Bad
    BY <2>1
  <2>3. (1..m) \subseteq T /\ n \in T /\ n \notin 1..m
    BY <2>1, <1>5
  <2> QED BY <2>2, <2>3, <1>4
<1> QED BY <1>6

\* RemoveFirst takes one place out, and so the only one there is.
LEMMA RemovesFirst ==
  ASSUME NEW S, NEW s \in Seq(S), NEW x, Contains(s, x)
  PROVE  /\ RemoveFirst(s, x) \in Seq(S)
         /\ \A i \in 1..Len(RemoveFirst(s, x)) : \E j \in 1..Len(s) :
              RemoveFirst(s, x)[i] = s[j]
         /\ (\A i, j \in 1..Len(s) : s[i] = x /\ s[j] = x => i = j) =>
              ~Contains(RemoveFirst(s, x), x)
<1> DEFINE K == {i \in 1..Len(s) : s[i] = x}
           m == Min(K)
           front == SubSeq(s, 1, m - 1)
           back == SubSeq(s, m + 1, Len(s))
           u == front \o back
<1>1. Len(s) \in Nat
  OBVIOUS
<1>2. K \subseteq Nat /\ K # {}
  BY <1>1 DEF Contains
<1>3. m \in K
  <2> HIDE DEF K
  <2>1. \E n \in K : \A i \in K : n <= i
    BY <1>2, Least
  <2> QED BY <2>1 DEF Min
<1>4. RemoveFirst(s, x) = u
  <2>1. \E i \in 1..Len(s) : s[i] = x
    BY DEF Contains
  <2>2. RemoveFirst(s, x) = RemoveAt(s, SelectInSeq(s, LAMBDA v : v = x))
    BY <2>1 DEF RemoveFirst
  <2>3. SelectInSeq(s, LAMBDA v : v = x) = m
    BY <1>2 DEF SelectInSeq
  <2> QED BY <2>2, <2>3 DEF RemoveAt
<1>5. m \in 1..Len(s) /\ s[m] = x
  BY <1>3
<1> HIDE DEF m
<1>6. /\ front \in Seq(S) /\ Len(front) = m - 1
      /\ \A i \in 1..m - 1 : front[i] = s[i]
  BY <1>1, <1>5
<1>7. /\ back \in Seq(S) /\ Len(back) = Len(s) - m
      /\ \A i \in 1..Len(s) - m : back[i] = s[m + i]
  BY <1>1, <1>5
<1> HIDE DEF front, back
<1>8. /\ u \in Seq(S) /\ Len(u) = (m - 1) + (Len(s) - m)
      /\ \A i \in 1..Len(u) : u[i] = IF i <= m - 1 THEN front[i] ELSE back[i - (m - 1)]
  <2>1. /\ u \in Seq(S) /\ Len(u) = Len(front) + Len(back)
        /\ \A i \in 1..Len(front) + Len(back) :
             u[i] = IF i <= Len(front) THEN front[i] ELSE back[i - Len(front)]
    BY <1>6, <1>7, ConcatProperties
  <2> HIDE DEF u
  <2> QED BY <1>6, <1>7, <2>1
<1> HIDE DEF u
<1>9. \A i \in 1..Len(u) : \E j \in 1..Len(s) : j # m /\ u[i] = s[j]
  <2> TAKE i \in 1..Len(u)
  <2>1. CASE i <= m - 1
    <3>1. i \in 1..Len(s) /\ i # m /\ u[i] = s[i]
      BY <1>1, <1>5, <1>6, <1>8, <2>1
    <3> QED BY <3>1
  <2>2. CASE ~(i <= m - 1)
    <3>1. i - (m - 1) \in 1..Len(s) - m /\ m + (i - (m - 1)) = i + 1
      BY <1>1, <1>5, <1>8, <2>2
    <3>2. i + 1 \in 1..Len(s) /\ i + 1 # m
      BY <1>1, <1>5, <1>8, <2>2
    <3>3. u[i] = back[i - (m - 1)] /\ back[i - (m - 1)] = s[i + 1]
      BY <1>7, <1>8, <2>2, <3>1
    <3> QED BY <3>2, <3>3
  <2> QED BY <2>1, <2>2
<1>10. ASSUME \A i, j \in 1..Len(s) : s[i] = x /\ s[j] = x => i = j
       PROVE  ~Contains(u, x)
  BY <1>5, <1>9, <1>10 DEF Contains
<1> QED BY <1>4, <1>8, <1>9, <1>10

\* A rule put in front.
LEMMA ConsIs ==
  ASSUME NEW S, NEW s \in Seq(S), NEW x \in S
  PROVE  /\ Cons(x, s) \in Seq(S) /\ Cons(x, s) # <<>> /\ Head(Cons(x, s)) = x
         /\ \A y \in S : Contains(Cons(x, s), y) <=> y = x \/ Contains(s, y)
         /\ ~Contains(s, x) =>
              \A i, j \in 1..Len(Cons(x, s)) : Cons(x, s)[i] = x /\ Cons(x, s)[j] = x => i = j
<1> DEFINE u == <<x>> \o s
<1>1. Cons(x, s) = u
  BY DEF Cons
<1>2. /\ u \in Seq(S) /\ u # <<>> /\ Len(u) = Len(s) + 1 /\ Head(u) = x /\ u[1] = x
      /\ \A i \in 2..Len(s) + 1 : u[i] = s[i - 1]
  BY Prepended
<1> HIDE DEF u
<1>3. Len(s) \in Nat
  OBVIOUS
<1>4. \A i \in 1..Len(s) : i + 1 \in 1..Len(u) /\ u[i + 1] = s[i]
  BY <1>2, <1>3
<1>5. \A i \in 1..Len(u) : i = 1 \/ (i - 1 \in 1..Len(s) /\ u[i] = s[i - 1])
  BY <1>2, <1>3
<1>6. \A y \in S : Contains(u, y) <=> y = x \/ Contains(s, y)
  <2> TAKE y \in S
  <2>1. ASSUME Contains(s, y) PROVE Contains(u, y)
    BY <1>4, <2>1 DEF Contains
  <2>2. ASSUME y = x PROVE Contains(u, y)
    BY <1>2, <1>3, <2>2 DEF Contains
  <2>3. ASSUME Contains(u, y), y # x PROVE Contains(s, y)
    BY <1>2, <1>5, <2>3 DEF Contains
  <2> QED BY <2>1, <2>2, <2>3
<1>7. ASSUME ~Contains(s, x), NEW i \in 1..Len(u), NEW j \in 1..Len(u), u[i] = x, u[j] = x
      PROVE  i = j
  <2>1. \A k \in 1..Len(s) : s[k] # x
    BY <1>7 DEF Contains
  <2> QED BY <1>5, <1>7, <2>1
<1> QED BY <1>1, <1>2, <1>6, <1>7

\* Tuples of commands.
LEMMA Tuple1 ==
  ASSUME NEW S, NEW a \in S
  PROVE  /\ <<a>> \in Seq(S) /\ <<a>> # <<>> /\ Len(<<a>>) = 1
         /\ Head(<<a>>) = a /\ Tail(<<a>>) = <<>>
OBVIOUS

\* A pair as a sequence.
LEMMA Tuple2 ==
  ASSUME NEW S, NEW a \in S, NEW b \in S
  PROVE  /\ <<a, b>> \in Seq(S) /\ <<a, b>> # <<>> /\ Len(<<a, b>>) = 2
         /\ Head(<<a, b>>) = a /\ Tail(<<a, b>>) = <<b>>
OBVIOUS

\* A triple as a sequence.
LEMMA Tuple3 ==
  ASSUME NEW S, NEW a \in S, NEW b \in S, NEW c \in S
  PROVE  /\ <<a, b, c>> \in Seq(S) /\ <<a, b, c>> # <<>> /\ Len(<<a, b, c>>) = 3
         /\ Head(<<a, b, c>>) = a /\ Tail(<<a, b, c>>) = <<b, c>>
OBVIOUS

\* A quadruple as a sequence.
LEMMA Tuple4 ==
  ASSUME NEW S, NEW a \in S, NEW b \in S, NEW c \in S, NEW d \in S
  PROVE  /\ <<a, b, c, d>> \in Seq(S) /\ <<a, b, c, d>> # <<>> /\ Len(<<a, b, c, d>>) = 4
         /\ Head(<<a, b, c, d>>) = a /\ Tail(<<a, b, c, d>>) = <<b, c, d>>
OBVIOUS

\* A quintuple as a sequence.
LEMMA Tuple5 ==
  ASSUME NEW S, NEW a \in S, NEW b \in S, NEW c \in S, NEW d \in S, NEW e \in S
  PROVE  /\ <<a, b, c, d, e>> \in Seq(S) /\ <<a, b, c, d, e>> # <<>> /\ Len(<<a, b, c, d, e>>) = 5
         /\ Head(<<a, b, c, d, e>>) = a /\ Tail(<<a, b, c, d, e>>) = <<b, c, d, e>>
OBVIOUS

(* --------------------------- rounds of a call --------------------------- *)

AskChain(at) == Ask("chain?", at, <<>>, <<Cmd("-N", at)>>)
AskRule(at) == Ask("rule?", at, <<>>, <<Cmd("-I rule", at)>>)
AskHook(at) == Ask("hook?", at, <<Cmd("-D hook", at)>>, <<>>)

\* What can be left of a round of each kind while it runs.
SetRests(f) == {<<SetCmd("create", f), SetCmd("list", f)>>, <<SetCmd("list", f)>>}

ChainRests(at) ==
  {<<AskChain(at), AskRule(at), AskHook(at), Cmd("-I hook", at)>>,
   <<Cmd("-N", at), AskRule(at), AskHook(at), Cmd("-I hook", at)>>,
   <<AskRule(at), AskHook(at), Cmd("-I hook", at)>>,
   <<Cmd("-I rule", at), AskHook(at), Cmd("-I hook", at)>>,
   <<AskHook(at), Cmd("-I hook", at)>>,
   <<Cmd("-D hook", at), Cmd("-I hook", at)>>,
   <<Cmd("-I hook", at)>>}

HookRests(at) == {<<AskHook(at)>>, <<Cmd("-D hook", at)>>}

PlaceRests(at) == IF at[2] \in protected THEN ChainRests(at) ELSE HookRests(at)

RestoreRests(f) ==
  {<<SetCmd("try destroy", f), SetCmd("make", f), SetCmd("restore", f),
     SetCmd("swap", f), SetCmd("destroy", f)>>,
   <<SetCmd("make", f), SetCmd("restore", f), SetCmd("swap", f), SetCmd("destroy", f)>>,
   <<SetCmd("restore", f), SetCmd("swap", f), SetCmd("destroy", f)>>,
   <<SetCmd("swap", f), SetCmd("destroy", f)>>,
   <<SetCmd("destroy", f)>>}

\* What a call has to do.
Ensuring(b, c) == c.name \in {"ensure", "reconcile"} /\ ~observing[b]
Restoring(b, c) == c.name = "reconcile" /\ ~observing[b]
Unhooking(b, c) == c.name = "disable" \/ (c.name = "reconcile" /\ observing[b])

Changes(op, name, b, c, round) ==
  /\ c.name = name /\ ~observing[b]
  /\ \E e \in Entries : c.wanted = {e} /\ round = <<SetCmd(op, FamilyOf[e])>>

IsWhole(b, c, round) ==
  \/ Ensuring(b, c) /\ \E f \in Families : round = EnsureSet(f)
  \/ Ensuring(b, c) /\ \E at \in Places : round = EnsurePlace(at)
  \/ Restoring(b, c) /\ \E f \in Families : round = RestoreFamily(f)
  \/ Unhooking(b, c) /\ \E at \in Places : round = RemoveHook(at)
  \/ Changes("add", "add", b, c, round) \/ Changes("del", "remove", b, c, round)

IsRest(b, c, round) ==
  \/ Ensuring(b, c) /\ \E f \in Families : round \in SetRests(f)
  \/ Ensuring(b, c) /\ \E at \in Places : round \in PlaceRests(at)
  \/ Restoring(b, c) /\ \E f \in Families : round \in RestoreRests(f)
  \/ Unhooking(b, c) /\ \E at \in Places : round \in HookRests(at)
  \/ Changes("add", "add", b, c, round) \/ Changes("del", "remove", b, c, round)

\* The rounds of a call: one under way, and whole ones after it.
RoundsOK(b, c) ==
  c.todo # <<>> =>
    /\ IsRest(b, c, Head(c.todo))
    /\ \A i \in DOMAIN Tail(c.todo) : IsWhole(b, c, Tail(c.todo)[i])

\* A round of these is still to be run, or to be ended.
Left(todo, whole, rests) ==
  todo # <<>> /\ (Head(todo) \in rests \/ \E i \in DOMAIN Tail(todo) : Tail(todo)[i] = whole)

(* ----------------------- a call that runs alone ------------------------- *)

Restored(f, wanted) == live[f] = Of(wanted, f) /\ stage[f] = None

\* The sets in the middle of a round.
SetMid(f, wanted, op) ==
  /\ op = "restore" => stage[f] = {}
  /\ op = "swap" => stage[f] = Of(wanted, f)
  /\ op = "destroy" => live[f] = Of(wanted, f)

SetsOK(b, c) ==
  c.alone /\ Restoring(b, c) => \A f \in Families :
    /\ Left(c.todo, RestoreFamily(f), RestoreRests(f)) \/ Restored(f, c.wanted)
    /\ c.todo # <<>> /\ Head(c.todo) \in RestoreRests(f) =>
         SetMid(f, c.wanted, Head(Head(c.todo)).op)

(* --------------------- a call that is undisturbed ----------------------- *)

OneHook(at) ==
  \A i, j \in 1..Len(rules[at]) : rules[at][i] = "hook" /\ rules[at][j] = "hook" => i = j

\* The chains in the middle of a round.
ChainMid(at, op) ==
  /\ op \in {"hook?", "-D hook", "-I hook"} => owned[at] = "drops"
  /\ op = "-I hook" => Unhooked(at)

ChainsOK(b, c) ==
  c.undisturbed => \A at \in Places :
    /\ OneHook(at)
    /\ c.todo # <<>> /\ Head(c.todo) \in ChainRests(at) => ChainMid(at, Head(Head(c.todo)).op)
    /\ Restoring(b, c) =>
         \/ Left(c.todo, EnsurePlace(at), PlaceRests(at))
         \/ IF at[2] \in protected THEN Hooked(at) ELSE Unhooked(at)
    /\ Unhooking(b, c) => Left(c.todo, RemoveHook(at), HookRests(at)) \/ Unhooked(at)

Solitary(b, c) ==
  /\ c.alone => \A o \in Backends : o # b => call[o] = None
  /\ c.undisturbed => c.alone

CallOK(b, c) == RoundsOK(b, c) /\ Solitary(b, c) /\ SetsOK(b, c) /\ ChainsOK(b, c)

BackendInv == TypeOK /\ \A b \in Backends : call[b] # None => CallOK(b, call[b])

\* The types of commands and of questions.
LEMMA CommandTypes ==
  /\ \A f \in Families, op \in {"create", "list", "try destroy", "make", "restore", "swap",
                                "destroy", "add", "del"} :
       SetCmd(op, f) \in Command /\ SetCmd(op, f).op = op /\ SetCmd(op, f).at = <<f, "set">>
  /\ \A at \in Places, op \in {"-N", "-I rule", "-D hook", "-I hook"} :
       Cmd(op, at) \in Command /\ Cmd(op, at).op = op /\ Cmd(op, at).at = at
BY DEF SetCmd, Cmd, Command

\* The questions a round asks of a chain, and what their answers lead to.
LEMMA QuestionTypes ==
  ASSUME NEW at \in Places
  PROVE  /\ AskChain(at) \in Question /\ AskChain(at).op = "chain?" /\ AskChain(at).at = at
         /\ AskChain(at).yes = <<>> /\ AskChain(at).no = <<Cmd("-N", at)>>
         /\ AskRule(at) \in Question /\ AskRule(at).op = "rule?" /\ AskRule(at).at = at
         /\ AskRule(at).yes = <<>> /\ AskRule(at).no = <<Cmd("-I rule", at)>>
         /\ AskHook(at) \in Question /\ AskHook(at).op = "hook?" /\ AskHook(at).at = at
         /\ AskHook(at).yes = <<Cmd("-D hook", at)>> /\ AskHook(at).no = <<>>
<1>1. /\ <<>> \in Seq(Command) /\ <<Cmd("-N", at)>> \in Seq(Command)
      /\ <<Cmd("-I rule", at)>> \in Seq(Command) /\ <<Cmd("-D hook", at)>> \in Seq(Command)
  <2>1. Cmd("-N", at) \in Command /\ Cmd("-I rule", at) \in Command /\ Cmd("-D hook", at) \in Command
    BY CommandTypes
  <2> DEFINE n == Cmd("-N", at)
             i == Cmd("-I rule", at)
             d == Cmd("-D hook", at)
             S == Command
  <2>2. n \in S /\ i \in S /\ d \in S
    BY <2>1
  <2> HIDE DEF n, i, d, S
  <2>3. <<n>> \in Seq(S) /\ <<i>> \in Seq(S) /\ <<d>> \in Seq(S)
    BY <2>2, Tuple1
  <2>4. <<>> \in Seq(S)
    OBVIOUS
  <2> QED BY <2>3, <2>4 DEF n, i, d, S
<1> QED BY <1>1 DEF AskChain, AskRule, AskHook, Ask, Question, Questions

\* A command is no question.
LEMMA Kinds ==
  /\ \A c \in Command : c.op \notin Questions
  /\ \A c \in Question : c.op \in Questions
BY DEF Command, Question, Questions

\* The next command of a round, and where it is run.
Begins(round, op, at) == round # <<>> /\ Head(round).op = op /\ Head(round).at = at

Runnable(round) ==
  /\ round \in Seq(Command \cup Question) /\ round # <<>>
  /\ Head(round) \in Command \cup Question

\* The rounds of the sets run to their end.
LEMMA SetRound ==
  ASSUME NEW f \in Families, NEW q \in SetRests(f)
  PROVE  /\ Runnable(q) /\ Head(q) \in Command /\ Head(q).at = <<f, "set">>
         /\ Head(q).op \in {"create", "list"}
         /\ Tail(q) = <<>> \/ Tail(q) \in SetRests(f)
<1> DEFINE c == SetCmd("create", f)
           l == SetCmd("list", f)
<1>1. c \in Command /\ l \in Command /\ c.op = "create" /\ l.op = "list"
      /\ c.at = <<f, "set">> /\ l.at = <<f, "set">>
  <2>1. c \in Command /\ c.op = "create" /\ c.at = <<f, "set">>
    BY CommandTypes
  <2>2. l \in Command /\ l.op = "list" /\ l.at = <<f, "set">>
    BY CommandTypes
  <2> QED BY <2>1, <2>2
<1>2. SetRests(f) = {<<c, l>>, <<l>>}
  BY DEF SetRests
<1> HIDE DEF c, l
<1> DEFINE S == Command \cup Question
<1>3. c \in S /\ l \in S
  BY <1>1
<1>4. Runnable(q) <=> q \in Seq(S) /\ q # <<>> /\ Head(q) \in S
  BY DEF Runnable
<1> HIDE DEF S
<1>5. CASE q = <<c, l>>
  <2>1. q \in Seq(S) /\ q # <<>> /\ Head(q) = c /\ Tail(q) = <<l>>
    BY <1>3, <1>5, Tuple2
  <2> QED BY <1>1, <1>2, <1>3, <1>4, <2>1
<1>6. CASE q = <<l>>
  <2>1. q \in Seq(S) /\ q # <<>> /\ Head(q) = l /\ Tail(q) = <<>>
    BY <1>3, <1>6, Tuple1
  <2> QED BY <1>1, <1>2, <1>3, <1>4, <2>1
<1> QED BY <1>2, <1>5, <1>6

\* The rounds of RestoreFamily, and what follows each of its commands.
LEMMA RestoreRound ==
  ASSUME NEW f \in Families, NEW q \in RestoreRests(f)
  PROVE  /\ Runnable(q) /\ Head(q) \in Command /\ Head(q).at = <<f, "set">>
         /\ Head(q).op \in {"try destroy", "make", "restore", "swap", "destroy"}
         /\ Head(q).op = "destroy" => Tail(q) = <<>>
         /\ Head(q).op # "destroy" => Tail(q) \in RestoreRests(f)
         /\ Head(q).op = "try destroy" => Begins(Tail(q), "make", <<f, "set">>)
         /\ Head(q).op = "make" => Begins(Tail(q), "restore", <<f, "set">>)
         /\ Head(q).op = "restore" => Begins(Tail(q), "swap", <<f, "set">>)
         /\ Head(q).op = "swap" => Begins(Tail(q), "destroy", <<f, "set">>)
<1> DEFINE t == SetCmd("try destroy", f)
           m == SetCmd("make", f)
           r == SetCmd("restore", f)
           s == SetCmd("swap", f)
           d == SetCmd("destroy", f)
<1>1. /\ t \in Command /\ m \in Command /\ r \in Command /\ s \in Command /\ d \in Command
      /\ t.op = "try destroy" /\ m.op = "make" /\ r.op = "restore" /\ s.op = "swap"
      /\ d.op = "destroy"
      /\ t.at = <<f, "set">> /\ m.at = <<f, "set">> /\ r.at = <<f, "set">>
      /\ s.at = <<f, "set">> /\ d.at = <<f, "set">>
  <2>1. t \in Command /\ t.op = "try destroy" /\ t.at = <<f, "set">>
    BY CommandTypes
  <2>2. m \in Command /\ m.op = "make" /\ m.at = <<f, "set">>
    BY CommandTypes
  <2>3. r \in Command /\ r.op = "restore" /\ r.at = <<f, "set">>
    BY CommandTypes
  <2>4. s \in Command /\ s.op = "swap" /\ s.at = <<f, "set">>
    BY CommandTypes
  <2>5. d \in Command /\ d.op = "destroy" /\ d.at = <<f, "set">>
    BY CommandTypes
  <2> QED BY <2>1, <2>2, <2>3, <2>4, <2>5
<1>2. RestoreRests(f) =
        {<<t, m, r, s, d>>, <<m, r, s, d>>, <<r, s, d>>, <<s, d>>, <<d>>}
  BY DEF RestoreRests
<1> HIDE DEF t, m, r, s, d
<1> DEFINE S == Command \cup Question
<1>3. t \in S /\ m \in S /\ r \in S /\ s \in S /\ d \in S
  BY <1>1
<1>4. \A p : Runnable(p) <=> p \in Seq(S) /\ p # <<>> /\ Head(p) \in S
  BY DEF Runnable
<1> HIDE DEF S
<1>5. CASE q = <<t, m, r, s, d>>
  <2>1. q \in Seq(S) /\ q # <<>> /\ Head(q) = t /\ Tail(q) = <<m, r, s, d>>
    BY <1>3, <1>5, Tuple5
  <2>2. Begins(Tail(q), "make", <<f, "set">>)
    <3>1. <<m, r, s, d>> # <<>> /\ Head(<<m, r, s, d>>) = m
      BY <1>3, Tuple4
    <3> QED BY <1>1, <2>1, <3>1 DEF Begins
  <2> QED BY <1>1, <1>2, <1>3, <1>4, <2>1, <2>2
<1>6. CASE q = <<m, r, s, d>>
  <2>1. q \in Seq(S) /\ q # <<>> /\ Head(q) = m /\ Tail(q) = <<r, s, d>>
    BY <1>3, <1>6, Tuple4
  <2>2. Begins(Tail(q), "restore", <<f, "set">>)
    <3>1. <<r, s, d>> # <<>> /\ Head(<<r, s, d>>) = r
      BY <1>3, Tuple3
    <3> QED BY <1>1, <2>1, <3>1 DEF Begins
  <2> QED BY <1>1, <1>2, <1>3, <1>4, <2>1, <2>2
<1>7. CASE q = <<r, s, d>>
  <2>1. q \in Seq(S) /\ q # <<>> /\ Head(q) = r /\ Tail(q) = <<s, d>>
    BY <1>3, <1>7, Tuple3
  <2>2. Begins(Tail(q), "swap", <<f, "set">>)
    <3>1. <<s, d>> # <<>> /\ Head(<<s, d>>) = s
      BY <1>3, Tuple2
    <3> QED BY <1>1, <2>1, <3>1 DEF Begins
  <2> QED BY <1>1, <1>2, <1>3, <1>4, <2>1, <2>2
<1>8. CASE q = <<s, d>>
  <2>1. q \in Seq(S) /\ q # <<>> /\ Head(q) = s /\ Tail(q) = <<d>>
    BY <1>3, <1>8, Tuple2
  <2>2. Begins(Tail(q), "destroy", <<f, "set">>)
    <3>1. <<d>> # <<>> /\ Head(<<d>>) = d
      BY <1>3, Tuple1
    <3> QED BY <1>1, <2>1, <3>1 DEF Begins
  <2> QED BY <1>1, <1>2, <1>3, <1>4, <2>1, <2>2
<1>9. CASE q = <<d>>
  <2>1. q \in Seq(S) /\ q # <<>> /\ Head(q) = d /\ Tail(q) = <<>>
    BY <1>3, <1>9, Tuple1
  <2> QED BY <1>1, <1>2, <1>3, <1>4, <2>1
<1> QED BY <1>2, <1>5, <1>6, <1>7, <1>8, <1>9

\* What is asked or run next for a chain: on yes and on no after a question, and when
\* the command has been run.
ChainNext(at, q) ==
  /\ Head(q).op = "chain?" =>
       /\ Head(q).yes \o Tail(q) \in ChainRests(at) /\ Begins(Head(q).yes \o Tail(q), "rule?", at)
       /\ Head(q).no \o Tail(q) \in ChainRests(at) /\ Begins(Head(q).no \o Tail(q), "-N", at)
  /\ Head(q).op = "rule?" =>
       /\ Head(q).yes \o Tail(q) \in ChainRests(at) /\ Begins(Head(q).yes \o Tail(q), "hook?", at)
       /\ Head(q).no \o Tail(q) \in ChainRests(at) /\ Begins(Head(q).no \o Tail(q), "-I rule", at)
  /\ Head(q).op = "hook?" =>
       /\ Head(q).yes \o Tail(q) \in ChainRests(at)
       /\ Begins(Head(q).yes \o Tail(q), "-D hook", at)
       /\ Head(q).no \o Tail(q) \in ChainRests(at) /\ Begins(Head(q).no \o Tail(q), "-I hook", at)
  /\ Head(q).op = "-N" => Tail(q) \in ChainRests(at) /\ Begins(Tail(q), "rule?", at)
  /\ Head(q).op = "-I rule" => Tail(q) \in ChainRests(at) /\ Begins(Tail(q), "hook?", at)
  /\ Head(q).op = "-D hook" => Tail(q) \in ChainRests(at) /\ Begins(Tail(q), "-I hook", at)
  /\ Head(q).op = "-I hook" => Tail(q) = <<>>

\* The round of a chain asks, and does what is missing.
LEMMA ChainRound ==
  ASSUME NEW at \in Places, NEW q \in ChainRests(at)
  PROVE  /\ Runnable(q) /\ Head(q).at = at
         /\ \/ Head(q) \in Question /\ Head(q).op \in {"chain?", "rule?", "hook?"}
            \/ Head(q) \in Command /\ Head(q).op \in {"-N", "-I rule", "-D hook", "-I hook"}
         /\ ChainNext(at, q)
<1> DEFINE c == AskChain(at)
           r == AskRule(at)
           h == AskHook(at)
           n == Cmd("-N", at)
           i == Cmd("-I rule", at)
           d == Cmd("-D hook", at)
           k == Cmd("-I hook", at)
<1>1. /\ c \in Question /\ r \in Question /\ h \in Question
      /\ c.op = "chain?" /\ r.op = "rule?" /\ h.op = "hook?"
      /\ c.at = at /\ r.at = at /\ h.at = at
      /\ c.yes = <<>> /\ c.no = <<n>> /\ r.yes = <<>> /\ r.no = <<i>>
      /\ h.yes = <<d>> /\ h.no = <<>>
  BY QuestionTypes
<1>2. /\ n \in Command /\ i \in Command /\ d \in Command /\ k \in Command
      /\ n.op = "-N" /\ i.op = "-I rule" /\ d.op = "-D hook" /\ k.op = "-I hook"
      /\ n.at = at /\ i.at = at /\ d.at = at /\ k.at = at
  BY CommandTypes
<1>3. ChainRests(at) =
        {<<c, r, h, k>>, <<n, r, h, k>>, <<r, h, k>>, <<i, h, k>>, <<h, k>>, <<d, k>>, <<k>>}
  BY DEF ChainRests
<1> HIDE DEF c, r, h, n, i, d, k
<1> DEFINE S == Command \cup Question
<1>4. /\ c \in S /\ r \in S /\ h \in S /\ n \in S /\ i \in S /\ d \in S /\ k \in S
  BY <1>1, <1>2
<1>5. \A p : Runnable(p) <=> p \in Seq(S) /\ p # <<>> /\ Head(p) \in S
  BY DEF Runnable
<1> HIDE DEF S
<1>6. CASE q = <<c, r, h, k>>
  <2>1. q \in Seq(S) /\ q # <<>> /\ Head(q) = c /\ Tail(q) = <<r, h, k>>
    BY <1>4, <1>6, Tuple4
  <2>2. <<>> \o <<r, h, k>> = <<r, h, k>> /\ <<n>> \o <<r, h, k>> = <<n, r, h, k>>
    BY <1>4, Tuple3, ConcatEmptySeq, Joined3
  <2>3. Begins(<<r, h, k>>, "rule?", at) /\ Begins(<<n, r, h, k>>, "-N", at)
    <3>1. <<r, h, k>> # <<>> /\ Head(<<r, h, k>>) = r
      BY <1>4, Tuple3
    <3>2. <<n, r, h, k>> # <<>> /\ Head(<<n, r, h, k>>) = n
      BY <1>4, Tuple4
    <3> QED BY <1>1, <1>2, <3>1, <3>2 DEF Begins
  <2> QED BY <1>1, <1>3, <1>4, <1>5, <2>1, <2>2, <2>3 DEF ChainNext
<1>7. CASE q = <<n, r, h, k>>
  <2>1. q \in Seq(S) /\ q # <<>> /\ Head(q) = n /\ Tail(q) = <<r, h, k>>
    BY <1>4, <1>7, Tuple4
  <2>2. Begins(<<r, h, k>>, "rule?", at)
    <3>1. <<r, h, k>> # <<>> /\ Head(<<r, h, k>>) = r
      BY <1>4, Tuple3
    <3> QED BY <1>1, <1>2, <3>1 DEF Begins
  <2> QED BY <1>2, <1>3, <1>4, <1>5, <2>1, <2>2 DEF ChainNext
<1>8. CASE q = <<r, h, k>>
  <2>1. q \in Seq(S) /\ q # <<>> /\ Head(q) = r /\ Tail(q) = <<h, k>>
    BY <1>4, <1>8, Tuple3
  <2>2. <<>> \o <<h, k>> = <<h, k>> /\ <<i>> \o <<h, k>> = <<i, h, k>>
    BY <1>4, Tuple2, ConcatEmptySeq, Joined2
  <2>3. Begins(<<h, k>>, "hook?", at) /\ Begins(<<i, h, k>>, "-I rule", at)
    <3>1. <<h, k>> # <<>> /\ Head(<<h, k>>) = h
      BY <1>4, Tuple2
    <3>2. <<i, h, k>> # <<>> /\ Head(<<i, h, k>>) = i
      BY <1>4, Tuple3
    <3> QED BY <1>1, <1>2, <3>1, <3>2 DEF Begins
  <2> QED BY <1>1, <1>3, <1>4, <1>5, <2>1, <2>2, <2>3 DEF ChainNext
<1>9. CASE q = <<i, h, k>>
  <2>1. q \in Seq(S) /\ q # <<>> /\ Head(q) = i /\ Tail(q) = <<h, k>>
    BY <1>4, <1>9, Tuple3
  <2>2. Begins(<<h, k>>, "hook?", at)
    <3>1. <<h, k>> # <<>> /\ Head(<<h, k>>) = h
      BY <1>4, Tuple2
    <3> QED BY <1>1, <1>2, <3>1 DEF Begins
  <2> QED BY <1>2, <1>3, <1>4, <1>5, <2>1, <2>2 DEF ChainNext
<1>10. CASE q = <<h, k>>
  <2>1. q \in Seq(S) /\ q # <<>> /\ Head(q) = h /\ Tail(q) = <<k>>
    BY <1>4, <1>10, Tuple2
  <2>2. <<d>> \o <<k>> = <<d, k>> /\ <<>> \o <<k>> = <<k>>
    BY <1>4, Tuple1, ConcatEmptySeq, Joined1
  <2>3. Begins(<<d, k>>, "-D hook", at) /\ Begins(<<k>>, "-I hook", at)
    <3>1. <<d, k>> # <<>> /\ Head(<<d, k>>) = d
      BY <1>4, Tuple2
    <3>2. <<k>> # <<>> /\ Head(<<k>>) = k
      BY <1>4, Tuple1
    <3> QED BY <1>1, <1>2, <3>1, <3>2 DEF Begins
  <2> QED BY <1>1, <1>3, <1>4, <1>5, <2>1, <2>2, <2>3 DEF ChainNext
<1>11. CASE q = <<d, k>>
  <2>1. q \in Seq(S) /\ q # <<>> /\ Head(q) = d /\ Tail(q) = <<k>>
    BY <1>4, <1>11, Tuple2
  <2>2. Begins(<<k>>, "-I hook", at)
    <3>1. <<k>> # <<>> /\ Head(<<k>>) = k
      BY <1>4, Tuple1
    <3> QED BY <1>1, <1>2, <3>1 DEF Begins
  <2> QED BY <1>2, <1>3, <1>4, <1>5, <2>1, <2>2 DEF ChainNext
<1>12. CASE q = <<k>>
  <2>1. q \in Seq(S) /\ q # <<>> /\ Head(q) = k /\ Tail(q) = <<>>
    BY <1>4, <1>12, Tuple1
  <2> QED BY <1>2, <1>4, <1>5, <2>1 DEF ChainNext
<1> QED BY <1>3, <1>6, <1>7, <1>8, <1>9, <1>10, <1>11, <1>12

\* The rounds of RemoveHook.
LEMMA HookRound ==
  ASSUME NEW at \in Places, NEW q \in HookRests(at)
  PROVE  /\ Runnable(q) /\ Head(q).at = at
         /\ \/ Head(q) \in Question /\ Head(q).op = "hook?"
            \/ Head(q) \in Command /\ Head(q).op = "-D hook"
         /\ Head(q).op = "hook?" =>
              /\ Head(q).yes \o Tail(q) \in HookRests(at)
              /\ Begins(Head(q).yes \o Tail(q), "-D hook", at)
              /\ Head(q).no \o Tail(q) = <<>>
         /\ Head(q).op = "-D hook" => Tail(q) = <<>>
<1> DEFINE h == AskHook(at)
           d == Cmd("-D hook", at)
<1>1. /\ h \in Question /\ h.op = "hook?" /\ h.at = at /\ h.yes = <<d>> /\ h.no = <<>>
      /\ d \in Command /\ d.op = "-D hook" /\ d.at = at
  <2>1. h \in Question /\ h.op = "hook?" /\ h.at = at /\ h.yes = <<d>> /\ h.no = <<>>
    BY QuestionTypes
  <2>2. d \in Command /\ d.op = "-D hook" /\ d.at = at
    BY CommandTypes
  <2> QED BY <2>1, <2>2
<1>2. HookRests(at) = {<<h>>, <<d>>}
  BY DEF HookRests
<1> HIDE DEF h, d
<1> DEFINE S == Command \cup Question
<1>3. h \in S /\ d \in S
  BY <1>1
<1>4. \A p : Runnable(p) <=> p \in Seq(S) /\ p # <<>> /\ Head(p) \in S
  BY DEF Runnable
<1> HIDE DEF S
<1>5. CASE q = <<h>>
  <2>1. q \in Seq(S) /\ q # <<>> /\ Head(q) = h /\ Tail(q) = <<>>
    BY <1>3, <1>5, Tuple1
  <2>2. <<>> \o <<>> = <<>> /\ <<d>> \o <<>> = <<d>>
    <3>1. <<d>> \in Seq(S) /\ <<>> \in Seq(S)
      BY <1>3, Tuple1
    <3> QED BY <3>1, ConcatEmptySeq
  <2>3. Begins(<<d>>, "-D hook", at)
    <3>1. <<d>> # <<>> /\ Head(<<d>>) = d
      BY <1>3, Tuple1
    <3> QED BY <1>1, <3>1 DEF Begins
  <2> QED BY <1>1, <1>2, <1>3, <1>4, <2>1, <2>2, <2>3
<1>6. CASE q = <<d>>
  <2>1. q \in Seq(S) /\ q # <<>> /\ Head(q) = d /\ Tail(q) = <<>>
    BY <1>3, <1>6, Tuple1
  <2> QED BY <1>1, <1>3, <1>4, <2>1
<1> QED BY <1>2, <1>5, <1>6

\* A round of one command.
LEMMA OneRound ==
  ASSUME NEW f \in Families, NEW op \in {"add", "del"}
  PROVE  LET q == <<SetCmd(op, f)>>
         IN  Runnable(q) /\ Head(q) = SetCmd(op, f) /\ Head(q) \in Command
               /\ Head(q).op = op /\ Head(q).at = <<f, "set">> /\ Tail(q) = <<>>
<1> DEFINE c == SetCmd(op, f)
           S == Command \cup Question
<1>1. c \in Command /\ c.op = op /\ c.at = <<f, "set">> /\ c \in S
  <2>1. op \in {"create", "list", "try destroy", "make", "restore", "swap", "destroy", "add", "del"}
    OBVIOUS
  <2> QED BY <2>1, CommandTypes
<1>2. \A p : Runnable(p) <=> p \in Seq(S) /\ p # <<>> /\ Head(p) \in S
  BY DEF Runnable
<1> HIDE DEF c, S
<1>3. <<c>> # <<>> /\ Head(<<c>>) = c /\ Tail(<<c>>) = <<>> /\ <<c>> \in Seq(S)
  BY <1>1, Tuple1
<1> QED BY <1>1, <1>2, <1>3 DEF c

\* The rounds as they begin.
LEMMA WholeRounds ==
  /\ \A f \in Families :
       /\ EnsureSet(f) \in SetRests(f) /\ Begins(EnsureSet(f), "create", <<f, "set">>)
       /\ RestoreFamily(f) \in RestoreRests(f)
       /\ Begins(RestoreFamily(f), "try destroy", <<f, "set">>)
  /\ \A at \in Places :
       /\ EnsureOwnedChain(at) \in ChainRests(at) /\ Begins(EnsureOwnedChain(at), "chain?", at)
       /\ RemoveHook(at) \in HookRests(at) /\ Begins(RemoveHook(at), "hook?", at)
       /\ Len(RemoveHook(at)) = 1
<1>1. ASSUME NEW f \in Families PROVE EnsureSet(f) \in SetRests(f) /\ RestoreFamily(f) \in RestoreRests(f)
  BY DEF EnsureSet, SetRests, RestoreFamily, RestoreRests
<1>2. ASSUME NEW at \in Places
      PROVE  EnsureOwnedChain(at) \in ChainRests(at) /\ RemoveHook(at) \in HookRests(at)
  BY DEF EnsureOwnedChain, ChainRests, RemoveHook, HookRests, AskChain, AskRule, AskHook
<1>3. ASSUME NEW f \in Families PROVE Begins(EnsureSet(f), "create", <<f, "set">>)
  <2> DEFINE c == SetCmd("create", f)
             l == SetCmd("list", f)
  <2>1. c.op = "create" /\ c.at = <<f, "set">>
    BY CommandTypes
  <2>2. EnsureSet(f) = <<c, l>>
    BY DEF EnsureSet
  <2> HIDE DEF c, l
  <2> QED BY <2>1, <2>2, Tuple2 DEF Begins
<1>4. ASSUME NEW f \in Families PROVE Begins(RestoreFamily(f), "try destroy", <<f, "set">>)
  <2> DEFINE t == SetCmd("try destroy", f)
             m == SetCmd("make", f)
             r == SetCmd("restore", f)
             s == SetCmd("swap", f)
             d == SetCmd("destroy", f)
             S == {t, m, r, s, d}
  <2>1. t.op = "try destroy" /\ t.at = <<f, "set">>
    BY CommandTypes
  <2>2. RestoreFamily(f) = <<t, m, r, s, d>>
    BY DEF RestoreFamily
  <2>3. t \in S /\ m \in S /\ r \in S /\ s \in S /\ d \in S
    OBVIOUS
  <2> HIDE DEF t, m, r, s, d, S
  <2>4. RestoreFamily(f) # <<>> /\ Head(RestoreFamily(f)) = t
    BY <2>2, <2>3, Tuple5
  <2> QED BY <2>1, <2>4 DEF Begins
<1>5. ASSUME NEW at \in Places PROVE Begins(EnsureOwnedChain(at), "chain?", at)
  <2> DEFINE c == AskChain(at)
             r == AskRule(at)
             h == AskHook(at)
             k == Cmd("-I hook", at)
             S == {c, r, h, k}
  <2>1. c.op = "chain?" /\ c.at = at
    BY QuestionTypes
  <2>2. EnsureOwnedChain(at) = <<c, r, h, k>>
    BY DEF EnsureOwnedChain, AskChain, AskRule, AskHook
  <2>3. c \in S /\ r \in S /\ h \in S /\ k \in S
    OBVIOUS
  <2> HIDE DEF c, r, h, k, S
  <2> QED BY <2>1, <2>2, <2>3, Tuple4 DEF Begins
<1>6. ASSUME NEW at \in Places PROVE Begins(RemoveHook(at), "hook?", at) /\ Len(RemoveHook(at)) = 1
  <2> DEFINE h == AskHook(at)
  <2>1. h.op = "hook?" /\ h.at = at
    BY QuestionTypes
  <2>2. RemoveHook(at) = <<h>>
    BY DEF RemoveHook, AskHook
  <2> HIDE DEF h
  <2> QED BY <2>1, <2>2, Tuple1 DEF Begins
<1> QED BY <1>1, <1>2, <1>3, <1>4, <1>5, <1>6

\* RemoveHook is no rest of a chain's round.
LEMMA HookNoChain ==
  ASSUME NEW at \in Places, NEW to \in Places
  PROVE  RemoveHook(to) \notin ChainRests(at)
<1> DEFINE c == AskChain(at)
           r == AskRule(at)
           h == AskHook(at)
           n == Cmd("-N", at)
           i == Cmd("-I rule", at)
           d == Cmd("-D hook", at)
           k == Cmd("-I hook", at)
           S == {c, r, h, n, i, d, k}
<1>1. k.op = "-I hook"
  BY CommandTypes
<1>2. ChainRests(at) =
        {<<c, r, h, k>>, <<n, r, h, k>>, <<r, h, k>>, <<i, h, k>>, <<h, k>>, <<d, k>>, <<k>>}
  BY DEF ChainRests
<1>3. c \in S /\ r \in S /\ h \in S /\ n \in S /\ i \in S /\ d \in S /\ k \in S
  OBVIOUS
<1> HIDE DEF c, r, h, n, i, d, k, S
<1>4. \A q \in ChainRests(at) : Len(q) # 1 \/ q = <<k>>
  BY <1>2, <1>3, Tuple1, Tuple2, Tuple3, Tuple4
<1>5. Head(<<k>>) = k
  BY <1>3, Tuple1
<1>6. Len(RemoveHook(to)) = 1 /\ Head(RemoveHook(to)).op = "hook?"
  BY WholeRounds DEF Begins
<1> QED BY <1>1, <1>4, <1>5, <1>6

Rounds == Seq(Command \cup Question)

\* The whole rounds have their types.
LEMMA RoundTypes ==
  /\ \A f \in Families : EnsureSet(f) \in Rounds /\ RestoreFamily(f) \in Rounds
  /\ \A f \in Families, op \in {"add", "del"} : <<SetCmd(op, f)>> \in Rounds
  /\ \A at \in Places : RemoveHook(at) \in Rounds /\ EnsureOwnedChain(at) \in Rounds
                         /\ EnsurePlace(at) \in Rounds
<1>1. \A f \in Families : EnsureSet(f) \in Rounds /\ RestoreFamily(f) \in Rounds
  BY WholeRounds, SetRound, RestoreRound DEF Runnable, Rounds
<1>2. \A f \in Families, op \in {"add", "del"} : <<SetCmd(op, f)>> \in Rounds
  BY OneRound DEF Runnable, Rounds
<1>3. \A at \in Places : RemoveHook(at) \in Rounds /\ EnsureOwnedChain(at) \in Rounds
  BY WholeRounds, ChainRound, HookRound DEF Runnable, Rounds
<1>4. \A at \in Places : EnsurePlace(at) \in Rounds
  BY <1>3 DEF EnsurePlace
<1> QED BY <1>1, <1>2, <1>3, <1>4

\* There are as many places as loops go through.
LEMMA PlacesFinite == IsFiniteSet(Places)
BY BackendAssumption, FS_Product DEF Places

\* The loops: each family, or place, has its round.
LEMMA SetsLoop ==
  LET s == ForEach(Families, EnsureSet)
  IN  /\ s \in Seq(Rounds)
      /\ \A i \in DOMAIN s : \E f \in Families : s[i] = EnsureSet(f)
      /\ \A f \in Families : \E i \in DOMAIN s : s[i] = EnsureSet(f)
<1> DEFINE n == Cardinality(Families)
           l == SetToSeq(Families)
           s == ForEach(Families, EnsureSet)
<1>1. /\ n \in Nat /\ l \in [1..n -> Families]
      /\ \A x \in Families : \E i \in 1..n : l[i] = x
  BY BackendAssumption, Listed
<1>2. s = [i \in 1..n |-> EnsureSet(l[i])]
  BY DEF ForEach
<1>3. \A f \in Families : EnsureSet(f) \in Rounds
  BY RoundTypes
<1> HIDE DEF n, l, s
<1>4. s \in [1..n -> Rounds] /\ DOMAIN s = 1..n
  BY <1>1, <1>2, <1>3
<1>5. s \in Seq(Rounds)
  BY <1>1, <1>4
<1>6. \A i \in 1..n : s[i] = EnsureSet(l[i]) /\ l[i] \in Families
  BY <1>1, <1>2
<1>7. \A i \in DOMAIN s : \E f \in Families : s[i] = EnsureSet(f)
  BY <1>4, <1>6
<1>8. \A f \in Families : \E i \in DOMAIN s : s[i] = EnsureSet(f)
  BY <1>1, <1>4, <1>6
<1> QED BY <1>5, <1>7, <1>8 DEF s

\* The chains.
LEMMA PlacesLoop ==
  LET s == ForEach(Places, EnsurePlace)
  IN  /\ s \in Seq(Rounds)
      /\ \A i \in DOMAIN s : \E at \in Places : s[i] = EnsurePlace(at)
      /\ \A at \in Places : \E i \in DOMAIN s : s[i] = EnsurePlace(at)
<1> DEFINE n == Cardinality(Places)
           l == SetToSeq(Places)
           s == ForEach(Places, EnsurePlace)
<1>1. /\ n \in Nat /\ l \in [1..n -> Places]
      /\ \A x \in Places : \E i \in 1..n : l[i] = x
  BY PlacesFinite, Listed
<1>2. s = [i \in 1..n |-> EnsurePlace(l[i])]
  BY DEF ForEach
<1>3. \A at \in Places : EnsurePlace(at) \in Rounds
  BY RoundTypes
<1> HIDE DEF n, l, s
<1>4. s \in [1..n -> Rounds] /\ DOMAIN s = 1..n
  BY <1>1, <1>2, <1>3
<1>5. s \in Seq(Rounds)
  BY <1>1, <1>4
<1>6. \A i \in 1..n : s[i] = EnsurePlace(l[i]) /\ l[i] \in Places
  BY <1>1, <1>2
<1>7. \A i \in DOMAIN s : \E at \in Places : s[i] = EnsurePlace(at)
  BY <1>4, <1>6
<1>8. \A at \in Places : \E i \in DOMAIN s : s[i] = EnsurePlace(at)
  BY <1>1, <1>4, <1>6
<1> QED BY <1>5, <1>7, <1>8 DEF s

\* The staged sets.
LEMMA RestoreLoop ==
  LET s == ForEach(Families, RestoreFamily)
  IN  /\ s \in Seq(Rounds)
      /\ \A i \in DOMAIN s : \E f \in Families : s[i] = RestoreFamily(f)
      /\ \A f \in Families : \E i \in DOMAIN s : s[i] = RestoreFamily(f)
<1> DEFINE n == Cardinality(Families)
           l == SetToSeq(Families)
           s == ForEach(Families, RestoreFamily)
<1>1. /\ n \in Nat /\ l \in [1..n -> Families]
      /\ \A x \in Families : \E i \in 1..n : l[i] = x
  BY BackendAssumption, Listed
<1>2. s = [i \in 1..n |-> RestoreFamily(l[i])]
  BY DEF ForEach
<1>3. \A f \in Families : RestoreFamily(f) \in Rounds
  BY RoundTypes
<1> HIDE DEF n, l, s
<1>4. s \in [1..n -> Rounds] /\ DOMAIN s = 1..n
  BY <1>1, <1>2, <1>3
<1>5. s \in Seq(Rounds)
  BY <1>1, <1>4
<1>6. \A i \in 1..n : s[i] = RestoreFamily(l[i]) /\ l[i] \in Families
  BY <1>1, <1>2
<1>7. \A i \in DOMAIN s : \E f \in Families : s[i] = RestoreFamily(f)
  BY <1>4, <1>6
<1>8. \A f \in Families : \E i \in DOMAIN s : s[i] = RestoreFamily(f)
  BY <1>1, <1>4, <1>6
<1> QED BY <1>5, <1>7, <1>8 DEF s

\* The hooks.
LEMMA HooksLoop ==
  LET s == ForEach(Places, RemoveHook)
  IN  /\ s \in Seq(Rounds)
      /\ \A i \in DOMAIN s : \E at \in Places : s[i] = RemoveHook(at)
      /\ \A at \in Places : \E i \in DOMAIN s : s[i] = RemoveHook(at)
<1> DEFINE n == Cardinality(Places)
           l == SetToSeq(Places)
           s == ForEach(Places, RemoveHook)
<1>1. /\ n \in Nat /\ l \in [1..n -> Places]
      /\ \A x \in Places : \E i \in 1..n : l[i] = x
  BY PlacesFinite, Listed
<1>2. s = [i \in 1..n |-> RemoveHook(l[i])]
  BY DEF ForEach
<1>3. \A at \in Places : RemoveHook(at) \in Rounds
  BY RoundTypes
<1> HIDE DEF n, l, s
<1>4. s \in [1..n -> Rounds] /\ DOMAIN s = 1..n
  BY <1>1, <1>2, <1>3
<1>5. s \in Seq(Rounds)
  BY <1>1, <1>4
<1>6. \A i \in 1..n : s[i] = RemoveHook(l[i]) /\ l[i] \in Places
  BY <1>1, <1>2
<1>7. \A i \in DOMAIN s : \E at \in Places : s[i] = RemoveHook(at)
  BY <1>4, <1>6
<1>8. \A at \in Places : \E i \in DOMAIN s : s[i] = RemoveHook(at)
  BY <1>1, <1>4, <1>6
<1> QED BY <1>5, <1>7, <1>8 DEF s

\* A single entry makes a single round.
LEMMA SingleLoop ==
  ASSUME NEW e \in Entries, NEW op \in {"add", "del"}
  PROVE  LET s == Single(op, {e})
         IN  s \in Seq(Rounds) /\ \A i \in DOMAIN s : s[i] = <<SetCmd(op, FamilyOf[e])>>
<1> DEFINE n == Cardinality({e})
           l == SetToSeq({e})
           s == Single(op, {e})
           r == <<SetCmd(op, FamilyOf[e])>>
<1>1. IsFiniteSet({e})
  BY FS_Singleton
<1>2. n \in Nat /\ l \in [1..n -> {e}]
  BY <1>1, Listed
<1>3. s = [i \in 1..n |-> <<SetCmd(op, FamilyOf[l[i]])>>]
  BY DEF Single, ForEach
<1>4. r \in Rounds
  BY RoundTypes, BackendAssumption
<1>5. \A i \in 1..n : l[i] = e
  BY <1>2
<1> HIDE DEF n, l, s, Rounds
<1>6. DOMAIN s = 1..n /\ \A i \in 1..n : s[i] = r
  BY <1>3, <1>5
<1> HIDE DEF r
<1>7. s = [i \in 1..n |-> s[i]]
  BY <1>3
<1>8. s \in Seq(Rounds)
  BY <1>2, <1>4, <1>6, <1>7
<1> QED BY <1>6, <1>8 DEF s, r

\* What a call sets out to do, round by round.
LEMMA Planned ==
  ASSUME NEW b \in Backends, NEW c, NEW wanted \in SUBSET Entries, observing[b] \in BOOLEAN,
         c.name \in {"ensure", "reconcile", "disable", "add", "remove"}, c.wanted = wanted,
         c.name \in {"add", "remove"} => \E e \in Entries : wanted = {e}
  PROVE  LET t == Calls(b, wanted)[c.name]
         IN  /\ t \in Seq(Rounds)
             /\ \A i \in DOMAIN t : IsWhole(b, c, t[i])
             /\ Restoring(b, c) =>
                  /\ \A f \in Families : \E i \in DOMAIN t : t[i] = RestoreFamily(f)
                  /\ \A at \in Places : \E i \in DOMAIN t : t[i] = EnsurePlace(at)
             /\ Unhooking(b, c) => \A at \in Places : \E i \in DOMAIN t : t[i] = RemoveHook(at)
<1> DEFINE t == Calls(b, wanted)[c.name]
           s == ForEach(Families, EnsureSet)
           p == ForEach(Places, EnsurePlace)
           r == ForEach(Families, RestoreFamily)
           h == ForEach(Places, RemoveHook)
           sp == s \o p
           spr == sp \o r
<1>1. /\ s \in Seq(Rounds) /\ \A i \in DOMAIN s : \E f \in Families : s[i] = EnsureSet(f)
  BY SetsLoop
<1>2. /\ p \in Seq(Rounds) /\ \A i \in DOMAIN p : \E at \in Places : p[i] = EnsurePlace(at)
      /\ \A at \in Places : \E i \in DOMAIN p : p[i] = EnsurePlace(at)
  BY PlacesLoop
<1>3. /\ r \in Seq(Rounds) /\ \A i \in DOMAIN r : \E f \in Families : r[i] = RestoreFamily(f)
      /\ \A f \in Families : \E i \in DOMAIN r : r[i] = RestoreFamily(f)
  BY RestoreLoop
<1>4. /\ h \in Seq(Rounds) /\ \A i \in DOMAIN h : \E at \in Places : h[i] = RemoveHook(at)
      /\ \A at \in Places : \E i \in DOMAIN h : h[i] = RemoveHook(at)
  BY HooksLoop
<1>5. /\ c.name = "ensure" => t = IF observing[b] THEN <<>> ELSE sp
      /\ c.name = "reconcile" => t = IF observing[b] THEN h ELSE spr
      /\ c.name = "disable" => t = h
      /\ c.name = "add" => t = IF observing[b] THEN <<>> ELSE Single("add", wanted)
      /\ c.name = "remove" => t = IF observing[b] THEN <<>> ELSE Single("del", wanted)
  <2>1. sp = Ensure /\ spr = Reconcile /\ h = Disable
    BY DEF Ensure, Reconcile, Disable
  <2> HIDE DEF s, p, r, h, sp, spr
  <2>2. CASE c.name = "ensure"
    BY <2>1, <2>2 DEF Calls
  <2>3. CASE c.name = "reconcile"
    BY <2>1, <2>3 DEF Calls
  <2>4. CASE c.name = "disable"
    BY <2>1, <2>4 DEF Calls
  <2>5. CASE c.name = "add"
    BY <2>1, <2>5 DEF Calls
  <2>6. CASE c.name = "remove"
    BY <2>1, <2>6 DEF Calls
  <2> QED BY <2>2, <2>3, <2>4, <2>5, <2>6
<1>6. <<>> \in Seq(Rounds) /\ DOMAIN <<>> = {}
  OBVIOUS
<1> HIDE DEF t, s, p, r, h, Rounds
<1>7. sp \in Seq(Rounds) /\ Joins(sp, s, p)
  <2>1. s \in Seq(Rounds) /\ p \in Seq(Rounds)
    BY <1>1, <1>2
  <2> QED BY <2>1, Concatenated
<1> HIDE DEF sp
<1>8. spr \in Seq(Rounds) /\ Joins(spr, sp, r)
  <2>1. sp \in Seq(Rounds) /\ r \in Seq(Rounds)
    BY <1>3, <1>7
  <2> QED BY <2>1, Concatenated
<1> HIDE DEF spr
<1>9. \A i \in DOMAIN sp :
         \/ \E f \in Families : sp[i] = EnsureSet(f)
         \/ \E at \in Places : sp[i] = EnsurePlace(at)
  <2> TAKE i \in DOMAIN sp
  <2>1. (\E j \in DOMAIN s : sp[i] = s[j]) \/ (\E j \in DOMAIN p : sp[i] = p[j])
    BY <1>7 DEF Joins
  <2>2. ASSUME NEW j \in DOMAIN s PROVE \E f \in Families : s[j] = EnsureSet(f)
    BY <1>1
  <2>3. ASSUME NEW j \in DOMAIN p PROVE \E at \in Places : p[j] = EnsurePlace(at)
    BY <1>2
  <2> QED BY <2>1, <2>2, <2>3
<1>10. CASE c.name = "ensure"
  <2>1. ~Restoring(b, c) /\ ~Unhooking(b, c) /\ (~observing[b] => Ensuring(b, c))
    BY <1>10 DEF Restoring, Unhooking, Ensuring
  <2>2. CASE observing[b]
    BY <1>5, <1>6, <1>10, <2>1, <2>2 DEF t
  <2>3. CASE ~observing[b]
    <3>1. t = sp
      BY <1>5, <1>10, <2>3
    <3>2. \A i \in DOMAIN sp : IsWhole(b, c, sp[i])
      BY <1>9, <2>1, <2>3 DEF IsWhole
    <3> QED BY <1>7, <2>1, <3>1, <3>2 DEF t
  <2> QED BY <2>2, <2>3
<1>11. CASE c.name = "reconcile" /\ ~observing[b]
  <2>1. t = spr /\ Ensuring(b, c) /\ Restoring(b, c) /\ ~Unhooking(b, c)
    BY <1>5, <1>11 DEF Ensuring, Restoring, Unhooking
  <2>2. \A i \in DOMAIN spr : IsWhole(b, c, spr[i])
    BY <1>3, <1>8, <1>9, <2>1 DEF IsWhole, Joins
  <2>3. \A f \in Families : \E i \in DOMAIN spr : spr[i] = RestoreFamily(f)
    BY <1>3, <1>8 DEF Joins
  <2>4. \A at \in Places : \E i \in DOMAIN spr : spr[i] = EnsurePlace(at)
    BY <1>2, <1>7, <1>8 DEF Joins
  <2> QED BY <1>8, <2>1, <2>2, <2>3, <2>4 DEF t
<1>12. CASE c.name = "disable" \/ (c.name = "reconcile" /\ observing[b])
  <2>1. t = h /\ ~Restoring(b, c) /\ Unhooking(b, c)
    BY <1>5, <1>12 DEF Restoring, Unhooking
  <2>2. \A i \in DOMAIN h : IsWhole(b, c, h[i])
    BY <1>4, <2>1 DEF IsWhole
  <2> QED BY <1>4, <2>1, <2>2 DEF t
<1>13. CASE c.name = "add"
  <2>1. ~Restoring(b, c) /\ ~Unhooking(b, c)
    BY <1>13 DEF Restoring, Unhooking
  <2>2. CASE observing[b]
    BY <1>5, <1>6, <1>13, <2>1, <2>2 DEF t
  <2>3. CASE ~observing[b]
    <3>1. PICK e \in Entries : wanted = {e}
      BY <1>13
    <3>2. t \in Seq(Rounds) /\ \A i \in DOMAIN t : t[i] = <<SetCmd("add", FamilyOf[e])>>
      <4> DEFINE u == Single("add", {e})
      <4>1. u \in Seq(Rounds) /\ \A i \in DOMAIN u : u[i] = <<SetCmd("add", FamilyOf[e])>>
        BY SingleLoop
      <4>2. t = u
        BY <1>5, <1>13, <2>3, <3>1
      <4> HIDE DEF u
      <4> QED BY <4>1, <4>2
    <3>3. \A i \in DOMAIN t : Changes("add", "add", b, c, t[i])
      BY <1>13, <2>3, <3>1, <3>2 DEF Changes
    <3> QED BY <2>1, <3>2, <3>3 DEF IsWhole, t
  <2> QED BY <2>2, <2>3
<1>14. CASE c.name = "remove"
  <2>1. ~Restoring(b, c) /\ ~Unhooking(b, c)
    BY <1>14 DEF Restoring, Unhooking
  <2>2. CASE observing[b]
    BY <1>5, <1>6, <1>14, <2>1, <2>2 DEF t
  <2>3. CASE ~observing[b]
    <3>1. PICK e \in Entries : wanted = {e}
      BY <1>14
    <3>2. t \in Seq(Rounds) /\ \A i \in DOMAIN t : t[i] = <<SetCmd("del", FamilyOf[e])>>
      <4> DEFINE u == Single("del", {e})
      <4>1. u \in Seq(Rounds) /\ \A i \in DOMAIN u : u[i] = <<SetCmd("del", FamilyOf[e])>>
        BY SingleLoop
      <4>2. t = u
        BY <1>5, <1>14, <2>3, <3>1
      <4> HIDE DEF u
      <4> QED BY <4>1, <4>2
    <3>3. \A i \in DOMAIN t : Changes("del", "remove", b, c, t[i])
      BY <1>14, <2>3, <3>1, <3>2 DEF Changes
    <3> QED BY <2>1, <3>2, <3>3 DEF IsWhole, t
  <2> QED BY <2>2, <2>3
<1> QED BY <1>10, <1>11, <1>12, <1>13, <1>14

SetOps == {"create", "list", "try destroy", "make", "restore", "swap", "destroy", "add", "del"}
ChainOps == {"-N", "-I rule", "-D hook", "-I hook"}

\* A command is on a set or on a chain.
LEMMA CommandOps ==
  ASSUME NEW c \in Command
  PROVE  \/ c.op \in SetOps /\ c.at[1] \in Families /\ c.op \notin ChainOps
         \/ c.op \in ChainOps /\ c.at \in Places /\ c.op \notin SetOps
BY DEF Command, SetOps, ChainOps

\* A command on the sets leaves the chains alone, and one on the chains the sets.
LEMMA Elsewhere ==
  ASSUME NEW c \in Command, NEW wanted, TakesEffect(c, wanted)
  PROVE  /\ c.op \in SetOps => UNCHANGED chains
         /\ c.op \in ChainOps => UNCHANGED sets
<1>1. ASSUME c.op \in SetOps PROVE owned' = owned /\ rules' = rules
  BY <1>1 DEF TakesEffect, OnChains, SetOps
<1>2. ASSUME c.op \in ChainOps PROVE live' = live /\ stage' = stage
  BY <1>2 DEF TakesEffect, OnSets, ChainOps
<1> QED BY <1>1, <1>2 DEF chains, sets

KernelOK ==
  /\ live \in [Families -> Content] /\ stage \in [Families -> Content]
  /\ owned \in [Places -> {"none", "empty", "drops"}]
  /\ rules \in [Places -> Seq({"hook", "other"})]
  /\ \A at \in Places : Contains(rules[at], "hook") => owned[at] # "none"

\* What each command does to the set it names.
LEMMA SetEffect ==
  ASSUME TypeOK, NEW f \in Families, NEW c \in Command, c.op \in SetOps, c.at = <<f, "set">>,
         NEW wanted, TakesEffect(c, wanted)
  PROVE  /\ live' = [live EXCEPT ![f] = live'[f]] /\ stage' = [stage EXCEPT ![f] = stage'[f]]
         /\ c.op \in {"list", "try destroy", "make", "restore", "destroy"} => live' = live
         /\ c.op \in {"create", "list", "add", "del"} => stage' = stage
         /\ c.op = "create" => live'[f] = IF live[f] = None THEN {} ELSE live[f]
         /\ c.op = "swap" => /\ stage[f] # None /\ live[f] # None
                             /\ live'[f] = stage[f] /\ stage'[f] = live[f]
         /\ c.op = "add" => live[f] # None /\ live'[f] = live[f] \cup wanted
         /\ c.op = "del" => live[f] # None /\ live'[f] = live[f] \ wanted
         /\ c.op = "make" => stage'[f] = {}
         /\ c.op = "restore" => stage[f] # None /\ stage'[f] = stage[f] \cup Of(wanted, f)
         /\ c.op \in {"destroy", "try destroy"} => stage'[f] = None
<1>1. /\ live = [live EXCEPT ![f] = live[f]] /\ stage = [stage EXCEPT ![f] = stage[f]]
      /\ \A x : /\ live = [live EXCEPT ![f] = x] => live[f] = x
                /\ [live EXCEPT ![f] = x][f] = x /\ [stage EXCEPT ![f] = x][f] = x
  BY DEF TypeOK
<1>2. c.at[1] = f /\ Accepted(c) /\ OnSets(c, wanted)
  BY DEF TakesEffect
<1>3. CASE c.op = "create"
  BY <1>1, <1>2, <1>3 DEF OnSets, Set
<1>4. CASE c.op = "list"
  BY <1>1, <1>2, <1>4 DEF OnSets, Set
<1>5. CASE c.op = "try destroy"
  BY <1>1, <1>2, <1>5 DEF OnSets, Set
<1>6. CASE c.op = "make"
  BY <1>1, <1>2, <1>6 DEF OnSets, Set
<1>7. CASE c.op = "restore"
  BY <1>1, <1>2, <1>7 DEF OnSets, Set, Accepted
<1>8. CASE c.op = "swap"
  BY <1>1, <1>2, <1>8 DEF OnSets, Set, Accepted
<1>9. CASE c.op = "destroy"
  BY <1>1, <1>2, <1>9 DEF OnSets, Set
<1>10. CASE c.op = "add"
  BY <1>1, <1>2, <1>10 DEF OnSets, Set, Accepted
<1>11. CASE c.op = "del"
  BY <1>1, <1>2, <1>11 DEF OnSets, Set, Accepted
<1> QED BY <1>3, <1>4, <1>5, <1>6, <1>7, <1>8, <1>9, <1>10, <1>11 DEF SetOps

\* A set that exists has entries.
LEMMA NotNone ==
  ASSUME NEW x \in Content, x # None PROVE x \in SUBSET Entries
BY DEF Content

\* The sets keep their types.
LEMMA SetsTyped ==
  ASSUME TypeOK, NEW f \in Families, NEW c \in Command, c.op \in SetOps, c.at = <<f, "set">>,
         NEW wanted \in SUBSET Entries, TakesEffect(c, wanted)
  PROVE  KernelOK'
<1>1. live \in [Families -> Content] /\ stage \in [Families -> Content]
  BY DEF TypeOK
<1>2. live[f] \in Content /\ stage[f] \in Content /\ {} \in Content /\ None \in Content
  BY <1>1 DEF Content
<1>3. /\ live[f] # None => live[f] \in SUBSET Entries
      /\ stage[f] # None => stage[f] \in SUBSET Entries
      /\ Of(wanted, f) \in SUBSET Entries
  BY <1>2, NotNone DEF Of
<1>4. /\ live[f] # None => live[f] \cup wanted \in Content /\ live[f] \ wanted \in Content
      /\ stage[f] # None => stage[f] \cup Of(wanted, f) \in Content
  BY <1>3 DEF Content
<1> DEFINE l == live'[f]
           s == stage'[f]
<1>5. live' = [live EXCEPT ![f] = l] /\ stage' = [stage EXCEPT ![f] = s]
  BY SetEffect
<1>6. l \in Content
  <2>1. \/ l = live[f] \/ l = {} \/ l = stage[f]
        \/ live[f] # None /\ (l = live[f] \cup wanted \/ l = live[f] \ wanted)
    BY SetEffect DEF SetOps
  <2> QED BY <1>2, <1>4, <2>1
<1>7. s \in Content
  <2>1. \/ s = stage[f] \/ s = {} \/ s = None \/ s = live[f]
        \/ stage[f] # None /\ s = stage[f] \cup Of(wanted, f)
    BY SetEffect DEF SetOps
  <2> QED BY <1>2, <1>4, <2>1
<1> HIDE DEF l, s
<1>8. live' \in [Families -> Content] /\ stage' \in [Families -> Content]
  BY <1>1, <1>5, <1>6, <1>7
<1>9. owned' = owned /\ rules' = rules
  BY Elsewhere DEF chains
<1> QED BY <1>8, <1>9 DEF KernelOK, TypeOK, Content

\* What each command does to the chain it names.
LEMMA ChainEffect ==
  ASSUME TypeOK, NEW at \in Places, NEW c \in Command, c.op \in ChainOps, c.at = at,
         NEW wanted, TakesEffect(c, wanted)
  PROVE  /\ owned' = [owned EXCEPT ![at] = owned'[at]] /\ rules' = [rules EXCEPT ![at] = rules'[at]]
         /\ c.op = "-N" => owned'[at] = "empty" /\ rules' = rules /\ owned[at] = "none"
         /\ c.op = "-I rule" => owned'[at] = "drops" /\ rules' = rules
         /\ c.op = "-D hook" => /\ owned' = owned /\ Contains(rules[at], "hook")
                                /\ rules'[at] = RemoveFirst(rules[at], "hook")
         /\ c.op = "-I hook" => /\ owned' = owned /\ owned[at] # "none"
                                /\ rules'[at] = Cons("hook", rules[at])
<1>1. /\ owned = [owned EXCEPT ![at] = owned[at]] /\ rules = [rules EXCEPT ![at] = rules[at]]
      /\ \A x : [owned EXCEPT ![at] = x][at] = x /\ [rules EXCEPT ![at] = x][at] = x
  BY DEF TypeOK
<1>2. Accepted(c) /\ OnChains(c)
  BY DEF TakesEffect
<1>3. CASE c.op = "-N"
  BY <1>1, <1>2, <1>3 DEF OnChains, Accepted
<1>4. CASE c.op = "-I rule"
  BY <1>1, <1>2, <1>4 DEF OnChains, Accepted
<1>5. CASE c.op = "-D hook"
  BY <1>1, <1>2, <1>5 DEF OnChains, Accepted
<1>6. CASE c.op = "-I hook"
  BY <1>1, <1>2, <1>6 DEF OnChains, Accepted
<1> QED BY <1>3, <1>4, <1>5, <1>6 DEF ChainOps

\* The chains keep their types, and a hook leads to a chain.
LEMMA ChainsTyped ==
  ASSUME TypeOK, NEW at \in Places, NEW c \in Command, c.op \in ChainOps, c.at = at,
         NEW wanted, TakesEffect(c, wanted)
  PROVE  KernelOK'
<1> DEFINE H == {"hook", "other"}
           o == owned'[at]
           r == rules'[at]
<1>1. /\ owned \in [Places -> {"none", "empty", "drops"}] /\ rules \in [Places -> Seq(H)]
      /\ \A to \in Places : Contains(rules[to], "hook") => owned[to] # "none"
      /\ rules[at] \in Seq(H) /\ "hook" \in H
  BY DEF TypeOK
<1>2. owned' = [owned EXCEPT ![at] = o] /\ rules' = [rules EXCEPT ![at] = r]
  BY ChainEffect
<1> HIDE DEF H
<1>3. /\ o \in {"none", "empty", "drops"} /\ r \in Seq(H)
      /\ Contains(r, "hook") => o # "none"
  <2>1. CASE c.op = "-N"
    <3>1. o = "empty" /\ r = rules[at]
      BY <2>1, ChainEffect
    <3> QED BY <1>1, <3>1
  <2>2. CASE c.op = "-I rule"
    <3>1. o = "drops" /\ r = rules[at]
      BY <2>2, ChainEffect
    <3> QED BY <1>1, <3>1
  <2>3. CASE c.op = "-D hook"
    <3>1. o = owned[at] /\ Contains(rules[at], "hook") /\ r = RemoveFirst(rules[at], "hook")
      BY <2>3, ChainEffect
    <3>2. r \in Seq(H)
      BY <1>1, <3>1, RemovesFirst
    <3> QED BY <1>1, <3>1, <3>2
  <2>4. CASE c.op = "-I hook"
    <3>1. o = owned[at] /\ o # "none" /\ r = Cons("hook", rules[at])
      BY <2>4, ChainEffect
    <3>2. r \in Seq(H)
      BY <1>1, <3>1, ConsIs
    <3> QED BY <1>1, <3>1, <3>2
  <2> QED BY <2>1, <2>2, <2>3, <2>4 DEF ChainOps
<1> HIDE DEF o, r
<1>4. owned' \in [Places -> {"none", "empty", "drops"}] /\ rules' \in [Places -> Seq(H)]
  BY <1>1, <1>2, <1>3
<1>5. \A to \in Places : Contains(rules'[to], "hook") => owned'[to] # "none"
  <2> TAKE to \in Places
  <2>1. CASE to = at
    <3>1. owned'[to] = o /\ rules'[to] = r
      BY <1>1, <1>2, <2>1
    <3> QED BY <1>3, <3>1
  <2>2. CASE to # at
    <3>1. owned'[to] = owned[to] /\ rules'[to] = rules[to]
      BY <1>1, <1>2, <2>2
    <3> QED BY <1>1, <3>1
  <2> QED BY <2>1, <2>2
<1>6. live' = live /\ stage' = stage
  BY Elsewhere DEF sets
<1> QED BY <1>4, <1>5, <1>6 DEF KernelOK, TypeOK, H, Content

\* The settings of a process do not change, nor what a call has to do.
LEMMA SettingsKept ==
  ASSUME UNCHANGED settings, NEW b \in Backends
  PROVE  /\ RoundsOK(b, call[b])' <=> RoundsOK(b, call'[b])
         /\ Restoring(b, call[b])' <=> Restoring(b, call'[b])
         /\ Unhooking(b, call[b])' <=> Unhooking(b, call'[b])
         /\ \A at : PlaceRests(at)' = PlaceRests(at) /\ EnsurePlace(at)' = EnsurePlace(at)
<1>1. protected' = protected /\ observing' = observing
  BY DEF settings
<1>2. \A at : PlaceRests(at)' = PlaceRests(at) /\ EnsurePlace(at)' = EnsurePlace(at)
  BY <1>1 DEF PlaceRests, EnsurePlace
<1>3. /\ Restoring(b, call[b])' <=> Restoring(b, call'[b])
      /\ Unhooking(b, call[b])' <=> Unhooking(b, call'[b])
      /\ Ensuring(b, call[b])' <=> Ensuring(b, call'[b])
  BY <1>1 DEF Restoring, Unhooking, Ensuring
<1>4. \A q : IsRest(b, call[b], q)' <=> IsRest(b, call'[b], q)
  BY <1>1, <1>2, <1>3 DEF IsRest, Changes
<1>5. \A q : IsWhole(b, call[b], q)' <=> IsWhole(b, call'[b], q)
  BY <1>1, <1>2, <1>3 DEF IsWhole, Changes
<1> QED BY <1>2, <1>3, <1>4, <1>5 DEF RoundsOK

\* A round under way has a first command.
LEMMA RestRunnable ==
  ASSUME NEW b, NEW c, NEW q, IsRest(b, c, q) PROVE Runnable(q)
<1>1. CASE \E f \in Families : q \in SetRests(f) \/ q \in RestoreRests(f)
  BY <1>1, SetRound, RestoreRound
<1>2. CASE \E at \in Places : q \in PlaceRests(at) \/ q \in HookRests(at)
  BY <1>2, ChainRound, HookRound DEF PlaceRests
<1>3. CASE \E f \in Families, op \in {"add", "del"} : q = <<SetCmd(op, f)>>
  BY <1>3, OneRound
<1> QED BY <1>1, <1>2, <1>3, BackendAssumption DEF IsRest, Changes

\* The rounds of a place are rounds of a place from their start.
LEMMA PlaceRound ==
  ASSUME NEW at \in Places
  PROVE  EnsurePlace(at) \in PlaceRests(at) /\ RemoveHook(at) \in HookRests(at)
BY WholeRounds DEF EnsurePlace, PlaceRests

\* Each round begins whole, with a command or question that promises nothing yet.
LEMMA WholeIsRest ==
  ASSUME NEW b, NEW c, NEW q, IsWhole(b, c, q)
  PROVE  /\ IsRest(b, c, q)
         /\ Head(q).op \in {"create", "chain?", "hook?", "try destroy", "add", "del"}
         /\ \A at \in Places : q \in ChainRests(at) => Head(q).op # "hook?"
<1>1. CASE Ensuring(b, c) /\ \E f \in Families : q = EnsureSet(f)
  <2>1. PICK f \in Families : q = EnsureSet(f)
    BY <1>1
  <2>2. q \in SetRests(f) /\ Head(q).op = "create"
    BY <2>1, WholeRounds DEF Begins
  <2> QED BY <1>1, <2>2 DEF IsRest
<1>2. CASE Ensuring(b, c) /\ \E at \in Places : q = EnsurePlace(at)
  <2>1. PICK at \in Places : q = EnsurePlace(at)
    BY <1>2
  <2>2. q \in PlaceRests(at)
    BY <2>1, PlaceRound
  <2>3. \/ q = EnsureOwnedChain(at) /\ Head(q).op = "chain?"
        \/ q = RemoveHook(at) /\ Head(q).op = "hook?"
    BY <2>1, WholeRounds DEF EnsurePlace, Begins
  <2> QED BY <1>2, <2>2, <2>3, HookNoChain DEF IsRest
<1>3. CASE Restoring(b, c) /\ \E f \in Families : q = RestoreFamily(f)
  <2>1. PICK f \in Families : q = RestoreFamily(f)
    BY <1>3
  <2>2. q \in RestoreRests(f) /\ Head(q).op = "try destroy"
    BY <2>1, WholeRounds DEF Begins
  <2> QED BY <1>3, <2>2 DEF IsRest
<1>4. CASE Unhooking(b, c) /\ \E at \in Places : q = RemoveHook(at)
  <2>1. PICK at \in Places : q = RemoveHook(at)
    BY <1>4
  <2>2. q \in HookRests(at) /\ Head(q).op = "hook?"
    BY <2>1, WholeRounds DEF Begins
  <2> QED BY <1>4, <2>1, <2>2, HookNoChain DEF IsRest
<1>5. CASE Changes("add", "add", b, c, q) \/ Changes("del", "remove", b, c, q)
  <2>1. \E f \in Families, op \in {"add", "del"} : q = <<SetCmd(op, f)>>
    BY <1>5, BackendAssumption DEF Changes
  <2>2. Head(q).op \in {"add", "del"}
    BY <2>1, OneRound
  <2> QED BY <1>5, <2>2 DEF IsRest
<1> QED BY <1>1, <1>2, <1>3, <1>4, <1>5 DEF IsWhole

\* What is left of a round after its next command, or an answer to its next question.
Follows(q, r) ==
  \/ Head(q).op \notin Questions /\ r = Tail(q)
  \/ Head(q).op \in Questions /\ (r = Head(q).yes \o Tail(q) \/ r = Head(q).no \o Tail(q))

\* A round stays on its way.
LEMMA RestFollows ==
  ASSUME NEW b, NEW c, NEW q, IsRest(b, c, q), NEW r, Follows(q, r)
  PROVE  /\ r = <<>> \/ IsRest(b, c, r)
         /\ \A f \in Families : q \in RestoreRests(f) => r = <<>> \/ r \in RestoreRests(f)
         /\ \A at \in Places :
              /\ q \in ChainRests(at) => r = <<>> \/ r \in ChainRests(at)
              /\ q \in HookRests(at) => r = <<>> \/ r \in HookRests(at)
              /\ q \in PlaceRests(at) => r = <<>> \/ r \in PlaceRests(at)
<1>1. \A f \in Families : q \in SetRests(f) => r = <<>> \/ r \in SetRests(f)
  BY SetRound, Kinds DEF Follows
<1>2. \A f \in Families : q \in RestoreRests(f) => r = <<>> \/ r \in RestoreRests(f)
  BY RestoreRound, Kinds DEF Follows
<1>3. \A at \in Places : q \in ChainRests(at) => r = <<>> \/ r \in ChainRests(at)
  <2> SUFFICES ASSUME NEW at \in Places, q \in ChainRests(at) PROVE r = <<>> \/ r \in ChainRests(at)
    OBVIOUS
  <2>1. ChainNext(at, q)
    BY ChainRound
  <2>2. CASE Head(q).op \in {"chain?", "rule?", "hook?"}
    <3>1. Head(q).op \in Questions
      BY <2>2 DEF Questions
    <3> QED BY <2>1, <2>2, <3>1 DEF Follows, ChainNext
  <2>3. CASE Head(q).op \in {"-N", "-I rule", "-D hook", "-I hook"}
    <3>1. r = Tail(q)
      BY <2>3 DEF Follows, Questions
    <3> QED BY <2>1, <2>3, <3>1 DEF ChainNext
  <2> QED BY <2>2, <2>3, ChainRound
<1>4. \A at \in Places : q \in HookRests(at) => r = <<>> \/ r \in HookRests(at)
  <2> SUFFICES ASSUME NEW at \in Places, q \in HookRests(at) PROVE r = <<>> \/ r \in HookRests(at)
    OBVIOUS
  <2>1. CASE Head(q).op = "hook?"
    <3>1. r = Head(q).yes \o Tail(q) \/ r = Head(q).no \o Tail(q)
      BY <2>1 DEF Follows, Questions
    <3>2. Head(q).yes \o Tail(q) \in HookRests(at) /\ Head(q).no \o Tail(q) = <<>>
      BY <2>1, HookRound
    <3> QED BY <3>1, <3>2
  <2>2. CASE Head(q).op = "-D hook"
    <3>1. r = Tail(q)
      BY <2>2 DEF Follows, Questions
    <3> QED BY <2>2, <3>1, HookRound
  <2> QED BY <2>1, <2>2, HookRound
<1>5. \A at \in Places : q \in PlaceRests(at) => r = <<>> \/ r \in PlaceRests(at)
  BY <1>3, <1>4 DEF PlaceRests
<1>6. (\E f \in Families, op \in {"add", "del"} : q = <<SetCmd(op, f)>>) => r = <<>>
  BY OneRound, Kinds DEF Follows
<1>7. Changes("add", "add", b, c, q) \/ Changes("del", "remove", b, c, q) => r = <<>>
  BY <1>6, BackendAssumption DEF Changes
<1>8. r = <<>> \/ IsRest(b, c, r)
  BY <1>1, <1>2, <1>4, <1>5, <1>7 DEF IsRest
<1> QED BY <1>2, <1>3, <1>4, <1>5, <1>8

\* From the rounds t to the rounds u, with r left of the first.
GoesOn(t, r, u) ==
  /\ t # <<>>
  /\ \/ r = <<>> /\ u = Tail(t)
     \/ r # <<>> /\ u # <<>> /\ Head(u) = r /\ Tail(u) = Tail(t)

\* The members of a sequence are its head and those of its tail.
LEMMA Members ==
  ASSUME NEW S, NEW t \in Seq(S), t # <<>>
  PROVE  /\ Head(t) \in S /\ Tail(t) \in Seq(S)
         /\ 1 \in DOMAIN t /\ t[1] = Head(t)
         /\ \A i \in DOMAIN Tail(t) : i + 1 \in DOMAIN t /\ Tail(t)[i] = t[i + 1]
         /\ \A i \in DOMAIN t : i = 1 \/ (i - 1 \in DOMAIN Tail(t) /\ Tail(t)[i - 1] = t[i])
<1>1. Len(t) \in Nat /\ Len(t) > 0 /\ DOMAIN t = 1..Len(t)
  OBVIOUS
<1>2. /\ Head(t) \in S /\ Tail(t) \in Seq(S) /\ t[1] = Head(t)
      /\ Len(Tail(t)) = Len(t) - 1 /\ DOMAIN Tail(t) = 1..Len(t) - 1
      /\ \A i \in 1..Len(t) - 1 : Tail(t)[i] = t[i + 1]
  BY <1>1
<1>3. \A i \in 1..Len(t) - 1 : i + 1 \in 1..Len(t)
  BY <1>1
<1>4. \A i \in 1..Len(t) : i = 1 \/ (i - 1 \in 1..Len(t) - 1 /\ (i - 1) + 1 = i)
  BY <1>1
<1> QED BY <1>1, <1>2, <1>3, <1>4

\* Onward goes on as GoesOn says.
LEMMA Advances ==
  ASSUME NEW t \in Seq(Rounds), t # <<>>, Head(t) \in Rounds, NEW r \in Rounds
  PROVE  Onward(r, t) \in Seq(Rounds) /\ GoesOn(t, r, Onward(r, t))
<1>1. CASE r = <<>>
  BY <1>1, OnwardIs DEF GoesOn
<1>2. CASE r # <<>>
  BY <1>2, OnwardIs DEF GoesOn
<1> QED BY <1>1, <1>2

\* A call goes on with the rest of a round, or with the next one from its start.
LEMMA RoundsGo ==
  ASSUME NEW b, NEW c, NEW t \in Seq(Rounds), t = c.todo, RoundsOK(b, c), NEW r, NEW u,
         GoesOn(t, r, u), r = <<>> \/ IsRest(b, c, r)
  PROVE  /\ u # <<>> => IsRest(b, c, Head(u)) /\ \A i \in DOMAIN Tail(u) : IsWhole(b, c, Tail(u)[i])
         /\ u # <<>> /\ r = <<>> => IsWhole(b, c, Head(u))
<1>1. \A i \in DOMAIN Tail(t) : IsWhole(b, c, Tail(t)[i])
  BY DEF RoundsOK, GoesOn
<1>2. CASE r # <<>>
  BY <1>1, <1>2 DEF GoesOn
<1>3. CASE r = <<>> /\ u # <<>>
  <2>1. u = Tail(t) /\ u \in Seq(Rounds)
    BY <1>3, Members DEF GoesOn
  <2>2. \A i \in DOMAIN u : IsWhole(b, c, u[i])
    BY <1>1, <2>1
  <2>3. /\ 1 \in DOMAIN u /\ u[1] = Head(u)
        /\ \A i \in DOMAIN Tail(u) : i + 1 \in DOMAIN u /\ Tail(u)[i] = u[i + 1]
    BY <1>3, <2>1, Members
  <2>4. IsWhole(b, c, Head(u)) /\ \A i \in DOMAIN Tail(u) : IsWhole(b, c, Tail(u)[i])
    BY <2>2, <2>3
  <2> QED BY <2>4, WholeIsRest
<1> QED BY <1>2, <1>3

\* What was still to be done is still to be done, or its round has just ended.
LEMMA LeftGoes ==
  ASSUME NEW t \in Seq(Rounds), NEW r, NEW u, GoesOn(t, r, u), NEW whole, NEW rests,
         whole \in rests, Left(t, whole, rests), Head(t) \in rests => r = <<>> \/ r \in rests
  PROVE  Left(u, whole, rests) \/ (Head(t) \in rests /\ r = <<>>)
<1>1. CASE Head(t) \in rests
  BY <1>1 DEF GoesOn, Left
<1>2. CASE Head(t) \notin rests /\ r # <<>>
  BY <1>2 DEF GoesOn, Left
<1>3. CASE Head(t) \notin rests /\ r = <<>>
  <2>1. u = Tail(t) /\ u \in Seq(Rounds)
    BY <1>3, Members DEF GoesOn
  <2>2. PICK i \in DOMAIN u : u[i] = whole
    BY <1>3, <2>1 DEF Left
  <2>3. u # <<>>
    BY <2>2
  <2>4. (i = 1 /\ u[1] = Head(u)) \/ (i - 1 \in DOMAIN Tail(u) /\ Tail(u)[i - 1] = u[i])
    BY <2>1, <2>2, <2>3, Members
  <2> QED BY <2>2, <2>3, <2>4 DEF Left
<1> QED BY <1>1, <1>2, <1>3

\* The next command takes effect, or the next question is answered.
Runs(q, wanted, r) == Head(q) \in Command /\ TakesEffect(Head(q), wanted) /\ r = Tail(q)

Learns(q, r) ==
  /\ Head(q) \in Question /\ UNCHANGED <<sets, chains>>
  /\ r = (IF Yes(Head(q)) THEN Head(q).yes ELSE Head(q).no) \o Tail(q)

IsMisled(q, r) ==
  Head(q) \in Question /\ UNCHANGED <<sets, chains>> /\ r = Head(q).no \o Tail(q)

\* What a step leaves of a round follows from the round.
LEMMA StepFollows ==
  ASSUME NEW q, NEW wanted, NEW r, Runs(q, wanted, r) \/ Learns(q, r) \/ IsMisled(q, r)
  PROVE  Follows(q, r)
BY Kinds DEF Runs, Learns, IsMisled, Follows

\* What a call wants of a family is a set that exists.
LEMMA FamilySets ==
  ASSUME NEW wanted \in SUBSET Entries, NEW f
  PROVE  Of(wanted, f) # None /\ Of(wanted, f) \in SUBSET Entries
BY BackendAssumption DEF Of

\* The staged sets of a family, one command after the other.
LEMMA RestoreGoes ==
  ASSUME TypeOK, NEW f \in Families, NEW q \in RestoreRests(f), NEW wanted \in SUBSET Entries,
         NEW r, Runs(q, wanted, r), SetMid(f, wanted, Head(q).op)
  PROVE  /\ r = <<>> => Restored(f, wanted)'
         /\ r # <<>> => r \in RestoreRests(f) /\ SetMid(f, wanted, Head(r).op)'
<1> DEFINE c == Head(q)
<1>1. c \in Command /\ c.at = <<f, "set">> /\ TakesEffect(c, wanted) /\ r = Tail(q)
  BY RestoreRound DEF Runs
<1>2. c.op \in {"try destroy", "make", "restore", "swap", "destroy"}
  BY RestoreRound
<1>3. c.op \in SetOps
  BY <1>2 DEF SetOps
<1>4. /\ c.op = "destroy" => r = <<>>
      /\ c.op # "destroy" => r \in RestoreRests(f) /\ r # <<>>
      /\ c.op = "try destroy" => Head(r).op = "make"
      /\ c.op = "make" => Head(r).op = "restore"
      /\ c.op = "restore" => Head(r).op = "swap"
      /\ c.op = "swap" => Head(r).op = "destroy"
  BY <1>1, RestoreRound DEF Begins, Runnable
<1>5. SetMid(f, wanted, c.op)
  OBVIOUS
<1> HIDE DEF c
<1>6. CASE c.op = "try destroy"
  BY <1>4, <1>6 DEF SetMid
<1>7. CASE c.op = "make"
  <2>1. stage'[f] = {}
    BY <1>1, <1>3, <1>7, SetEffect
  <2> QED BY <1>4, <1>7, <2>1 DEF SetMid
<1>8. CASE c.op = "restore"
  <2>1. stage'[f] = stage[f] \cup Of(wanted, f)
    BY <1>1, <1>3, <1>8, SetEffect
  <2>2. stage[f] = {}
    BY <1>5, <1>8 DEF SetMid
  <2> QED BY <1>4, <1>8, <2>1, <2>2 DEF SetMid
<1>9. CASE c.op = "swap"
  <2>1. live'[f] = stage[f] /\ stage[f] = Of(wanted, f)
    BY <1>1, <1>3, <1>5, <1>9, SetEffect DEF SetMid
  <2> QED BY <1>4, <1>9, <2>1 DEF SetMid
<1>10. CASE c.op = "destroy"
  <2>1. live' = live /\ stage'[f] = None /\ live[f] = Of(wanted, f)
    BY <1>1, <1>3, <1>5, <1>10, SetEffect DEF SetMid
  <2> QED BY <1>4, <1>10, <2>1 DEF Restored
<1> QED BY <1>2, <1>6, <1>7, <1>8, <1>9, <1>10

\* The rules of a chain are a sequence of hooks and others.
LEMMA RulesTyped ==
  ASSUME TypeOK, NEW at \in Places
  PROVE  rules[at] \in Seq({"hook", "other"}) /\ "hook" \in {"hook", "other"}
BY DEF TypeOK

\* The rules of a chain after a command on its hook.
LEMMA HookTaken ==
  ASSUME TypeOK, NEW at \in Places, OneHook(at), Contains(rules[at], "hook"),
         rules'[at] = RemoveFirst(rules[at], "hook")
  PROVE  Unhooked(at)' /\ OneHook(at)'
<1> DEFINE H == {"hook", "other"}
           s == rules[at]
           u == RemoveFirst(s, "hook")
<1>1. s \in Seq(H)
  BY RulesTyped
<1>2. \A i, j \in 1..Len(s) : s[i] = "hook" /\ s[j] = "hook" => i = j
  BY DEF OneHook
<1>3. Contains(s, "hook") /\ rules'[at] = u
  OBVIOUS
<1> HIDE DEF H, s
<1>4. ~Contains(u, "hook")
  BY <1>1, <1>2, <1>3, RemovesFirst
<1> HIDE DEF u
<1>5. ~Contains(rules'[at], "hook")
  BY <1>3, <1>4
<1> QED BY <1>5 DEF Unhooked, OneHook, Contains

\* A hook that is put in front of a chain without one is its only one.
LEMMA HookPut ==
  ASSUME TypeOK, NEW at \in Places, Unhooked(at), owned'[at] = "drops",
         rules'[at] = Cons("hook", rules[at])
  PROVE  Hooked(at)' /\ OneHook(at)'
<1> DEFINE H == {"hook", "other"}
           s == rules[at]
           u == Cons("hook", s)
<1>1. s \in Seq(H) /\ "hook" \in H
  BY RulesTyped
<1>2. ~Contains(s, "hook")
  BY DEF Unhooked
<1>4. rules'[at] = u
  OBVIOUS
<1> HIDE DEF H, s
<1>5. u # <<>> /\ Head(u) = "hook"
  BY <1>1, ConsIs
<1>6. \A i, j \in 1..Len(u) : u[i] = "hook" /\ u[j] = "hook" => i = j
  BY <1>1, <1>2, ConsIs
<1> HIDE DEF u
<1> QED BY <1>4, <1>5, <1>6 DEF Hooked, OneHook

\* The round of a protected chain, one question or command after the other.
LEMMA ChainGoes ==
  ASSUME TypeOK, NEW at \in Places, NEW q \in ChainRests(at), NEW wanted, NEW r,
         Runs(q, wanted, r) \/ Learns(q, r), OneHook(at), ChainMid(at, Head(q).op)
  PROVE  /\ OneHook(at)'
         /\ r = <<>> => Hooked(at)'
         /\ r # <<>> => r \in ChainRests(at) /\ ChainMid(at, Head(r).op)'
<1> DEFINE c == Head(q)
<1>1. c.at = at /\ ChainNext(at, q) /\ ChainMid(at, c.op)
  BY ChainRound
<1>2. CASE Learns(q, r)
  <2>1. /\ c \in Question /\ owned' = owned /\ rules' = rules
        /\ r = (IF Yes(c) THEN c.yes ELSE c.no) \o Tail(q)
    BY <1>2 DEF Learns, chains
  <2>2. c.op \in {"chain?", "rule?", "hook?"}
    BY <2>1, ChainRound, Kinds DEF Questions
  <2>3. OneHook(at)'
    BY <2>1 DEF OneHook
  <2>4. CASE c.op = "chain?"
    <3>1. r # <<>> /\ r \in ChainRests(at) /\ Head(r).op \in {"rule?", "-N"}
      BY <1>1, <2>1, <2>4 DEF ChainNext, Begins
    <3> QED BY <2>3, <3>1 DEF ChainMid
  <2>5. CASE c.op = "rule?"
    <3>1. Yes(c) <=> owned[at] = "drops"
      BY <1>1, <2>5 DEF Yes
    <3>2. r # <<>> /\ r \in ChainRests(at)
          /\ ((Head(r).op = "hook?" /\ owned[at] = "drops") \/ Head(r).op = "-I rule")
      BY <1>1, <2>1, <2>5, <3>1 DEF ChainNext, Begins
    <3> QED BY <2>1, <2>3, <3>2 DEF ChainMid
  <2>6. CASE c.op = "hook?"
    <3>1. Yes(c) <=> Contains(rules[at], "hook")
      BY <1>1, <2>6 DEF Yes
    <3>2. owned[at] = "drops"
      BY <1>1, <2>6 DEF ChainMid
    <3>3. /\ r # <<>> /\ r \in ChainRests(at)
          /\ \/ Head(r).op = "-D hook"
             \/ Head(r).op = "-I hook" /\ ~Contains(rules[at], "hook")
      BY <1>1, <2>1, <2>6, <3>1 DEF ChainNext, Begins
    <3> QED BY <2>1, <2>3, <3>2, <3>3 DEF ChainMid, Unhooked
  <2> QED BY <2>2, <2>4, <2>5, <2>6
<1>3. CASE Runs(q, wanted, r)
  <2>1. c \in Command /\ TakesEffect(c, wanted) /\ r = Tail(q)
    BY <1>3 DEF Runs
  <2>2. c.op \in {"-N", "-I rule", "-D hook", "-I hook"}
    BY <2>1, ChainRound, Kinds DEF Questions
  <2>3. c.op \in ChainOps
    BY <2>2 DEF ChainOps
  <2> HIDE DEF c
  <2>4. CASE c.op = "-N"
    <3>1. rules' = rules
      BY <1>1, <2>1, <2>3, <2>4, ChainEffect
    <3>2. r # <<>> /\ r \in ChainRests(at) /\ Head(r).op = "rule?"
      BY <1>1, <2>1, <2>4 DEF ChainNext, Begins, c
    <3> QED BY <3>1, <3>2 DEF OneHook, ChainMid
  <2>5. CASE c.op = "-I rule"
    <3>1. rules' = rules /\ owned'[at] = "drops"
      BY <1>1, <2>1, <2>3, <2>5, ChainEffect
    <3>2. r # <<>> /\ r \in ChainRests(at) /\ Head(r).op = "hook?"
      BY <1>1, <2>1, <2>5 DEF ChainNext, Begins, c
    <3> QED BY <3>1, <3>2 DEF OneHook, ChainMid
  <2>6. CASE c.op = "-D hook"
    <3>1. /\ owned' = owned /\ Contains(rules[at], "hook")
          /\ rules'[at] = RemoveFirst(rules[at], "hook")
      BY <1>1, <2>1, <2>3, <2>6, ChainEffect
    <3>2. Unhooked(at)' /\ OneHook(at)' /\ owned'[at] = "drops"
      BY <1>1, <2>6, <3>1, HookTaken DEF ChainMid
    <3>3. r # <<>> /\ r \in ChainRests(at) /\ Head(r).op = "-I hook"
      BY <1>1, <2>1, <2>6 DEF ChainNext, Begins, c
    <3> QED BY <3>2, <3>3 DEF ChainMid
  <2>7. CASE c.op = "-I hook"
    <3>1. owned' = owned /\ rules'[at] = Cons("hook", rules[at])
      BY <1>1, <2>1, <2>3, <2>7, ChainEffect
    <3>2. Hooked(at)' /\ OneHook(at)'
      BY <1>1, <2>7, <3>1, HookPut DEF ChainMid
    <3>3. r = <<>>
      BY <1>1, <2>1, <2>7 DEF ChainNext, c
    <3> QED BY <3>2, <3>3
  <2> QED BY <2>2, <2>4, <2>5, <2>6, <2>7
<1> QED BY <1>2, <1>3

\* The round that removes a hook.
LEMMA HookGoes ==
  ASSUME TypeOK, NEW at \in Places, NEW q \in HookRests(at), NEW wanted, NEW r,
         Runs(q, wanted, r) \/ Learns(q, r), OneHook(at)
  PROVE  OneHook(at)' /\ (r = <<>> => Unhooked(at)')
<1> DEFINE c == Head(q)
<1>1. c.at = at
  BY HookRound
<1>2. CASE Learns(q, r)
  <2>1. /\ c \in Question /\ rules' = rules
        /\ r = (IF Yes(c) THEN c.yes ELSE c.no) \o Tail(q)
    BY <1>2 DEF Learns, chains
  <2>2. c.op = "hook?"
    BY <2>1, HookRound, Kinds DEF Questions
  <2>3. Yes(c) <=> Contains(rules[at], "hook")
    BY <1>1, <2>2 DEF Yes
  <2>4. c.yes \o Tail(q) # <<>>
    BY <2>2, HookRound DEF Begins
  <2> QED BY <2>1, <2>3, <2>4 DEF OneHook, Unhooked
<1>3. CASE Runs(q, wanted, r)
  <2>1. c \in Command /\ TakesEffect(c, wanted)
    BY <1>3 DEF Runs
  <2>2. c.op = "-D hook" /\ c.op \in ChainOps
    BY <2>1, HookRound, Kinds DEF Questions, ChainOps
  <2> HIDE DEF c
  <2>3. Contains(rules[at], "hook") /\ rules'[at] = RemoveFirst(rules[at], "hook")
    BY <1>1, <2>1, <2>2, ChainEffect
  <2> QED BY <2>3, HookTaken
<1> QED BY <1>2, <1>3

\* The sets, when a call that restores them and runs alone goes one step on.
LEMMA SetsGo ==
  ASSUME TypeOK, NEW b, NEW c, c.wanted \in SUBSET Entries, NEW t \in Seq(Rounds), t = c.todo,
         RoundsOK(b, c), Restoring(b, c), NEW f \in Families, NEW r, NEW u, GoesOn(t, r, u),
         Runs(Head(t), c.wanted, r) \/ Learns(Head(t), r) \/ IsMisled(Head(t), r),
         Left(t, RestoreFamily(f), RestoreRests(f)) \/ Restored(f, c.wanted),
         Head(t) \in RestoreRests(f) => SetMid(f, c.wanted, Head(Head(t)).op)
  PROVE  /\ Left(u, RestoreFamily(f), RestoreRests(f)) \/ Restored(f, c.wanted)'
         /\ u # <<>> /\ Head(u) \in RestoreRests(f) => SetMid(f, c.wanted, Head(Head(u)).op)'
<1> DEFINE q == Head(t)
           w == c.wanted
           whole == RestoreFamily(f)
           rests == RestoreRests(f)
<1>1. IsRest(b, c, q) /\ Follows(q, r)
  BY StepFollows DEF RoundsOK, GoesOn
<1>2. /\ r = <<>> \/ IsRest(b, c, r)
      /\ \A g \in Families : q \in RestoreRests(g) => r = <<>> \/ r \in RestoreRests(g)
  BY <1>1, RestFollows
<1>3. u # <<>> /\ r = <<>> => IsWhole(b, c, Head(u))
  BY <1>2, RoundsGo
<1>4. u # <<>> /\ r = <<>> => SetMid(f, w, Head(Head(u)).op)'
  BY <1>3, WholeIsRest DEF SetMid
<1>5. u # <<>> /\ r # <<>> => Head(u) = r
  BY DEF GoesOn
<1>6. whole \in rests
  BY WholeRounds
<1>7. Left(t, whole, rests) => Left(u, whole, rests) \/ (q \in rests /\ r = <<>>)
  BY <1>2, <1>6, LeftGoes
<1>8. \A g \in Families : \A p \in RestoreRests(g) :
        /\ Head(p).at = <<g, "set">>
        /\ Head(p).op \in {"try destroy", "make", "restore", "swap", "destroy"}
  BY RestoreRound
<1>9. Of(w, f) # None
  BY FamilySets
<1>10. CASE q \in rests
  <2>1. Head(q) \in Command
    BY <1>10, RestoreRound
  <2>2. Runs(q, w, r)
    BY <2>1, Kinds DEF Learns, IsMisled
  <2>3. SetMid(f, w, Head(q).op)
    BY <1>10
  <2>4. /\ r = <<>> => Restored(f, w)'
        /\ r # <<>> => r \in rests /\ SetMid(f, w, Head(r).op)'
    BY <1>10, <2>2, <2>3, RestoreGoes
  <2>5. Left(t, whole, rests)
    BY <1>10 DEF Left, GoesOn
  <2> QED BY <1>4, <1>5, <1>7, <2>4, <2>5
<1>11. CASE \E g \in Families : g # f /\ q \in RestoreRests(g)
  <2>1. PICK g \in Families : g # f /\ q \in RestoreRests(g)
    BY <1>11
  <2>2. /\ Head(q) \in Command /\ Head(q).at = <<g, "set">>
        /\ Head(q).op \in {"try destroy", "make", "restore", "swap", "destroy"}
    BY <2>1, RestoreRound
  <2>3. TakesEffect(Head(q), w) /\ Head(q).op \in SetOps
    BY <2>2, Kinds DEF Runs, Learns, IsMisled, SetOps
  <2>4. live'[f] = live[f] /\ stage'[f] = stage[f]
    <3>1. live' = [live EXCEPT ![g] = live'[g]] /\ stage' = [stage EXCEPT ![g] = stage'[g]]
      BY <2>2, <2>3, SetEffect
    <3> DEFINE l == live'[g]
               s == stage'[g]
    <3>2. live' = [live EXCEPT ![g] = l] /\ stage' = [stage EXCEPT ![g] = s]
      BY <3>1
    <3> HIDE DEF l, s
    <3> QED BY <2>1, <3>2 DEF TypeOK
  <2>5. <<g, "set">> # <<f, "set">>
    BY <2>1
  <2>6. \A p \in RestoreRests(g) : p \notin rests
    BY <1>8, <2>5
  <2>7. q \notin rests /\ (r # <<>> => r \notin rests)
    BY <1>2, <2>1, <2>6
  <2> QED BY <1>4, <1>5, <1>7, <2>4, <2>7 DEF Restored
<1>12. CASE \A g \in Families : q \notin RestoreRests(g)
  <2>1. q \notin rests
    BY <1>12
  <2>2. live[f] # None => live'[f] = live[f]
    <3>1. CASE \E g \in Families : q \in SetRests(g)
      <4>1. PICK g \in Families : q \in SetRests(g)
        BY <3>1
      <4>2. /\ Head(q) \in Command /\ Head(q).at = <<g, "set">>
            /\ Head(q).op \in {"create", "list"} /\ Head(q).op \in SetOps
        BY <4>1, SetRound DEF SetOps
      <4>3. TakesEffect(Head(q), w)
        BY <4>2, Kinds DEF Runs, Learns, IsMisled
      <4>4. live' = [live EXCEPT ![g] = live'[g]] /\ (live[g] # None => live'[g] = live[g])
        BY <4>2, <4>3, SetEffect
      <4> DEFINE l == live'[g]
      <4>5. live' = [live EXCEPT ![g] = l] /\ (live[g] # None => l = live[g])
        BY <4>4
      <4> HIDE DEF l
      <4> QED BY <4>5 DEF TypeOK
    <3>2. CASE \E at \in Places : q \in PlaceRests(at)
      <4>1. PICK at \in Places : q \in ChainRests(at) \/ q \in HookRests(at)
        BY <3>2 DEF PlaceRests
      <4>2. Head(q) \in Question \/ (Head(q) \in Command /\ Head(q).op \in ChainOps)
        BY <4>1, ChainRound, HookRound DEF ChainOps
      <4>3. UNCHANGED sets
        BY <4>2, Elsewhere, Kinds DEF Runs, Learns, IsMisled, sets
      <4> QED BY <4>3 DEF sets
    <3> QED BY <1>1, <1>12, <3>1, <3>2 DEF IsRest, Restoring, Unhooking, Changes
  <2>3. stage'[f] = stage[f]
    <3>1. CASE \E g \in Families : q \in SetRests(g)
      <4>1. PICK g \in Families : q \in SetRests(g)
        BY <3>1
      <4>2. /\ Head(q) \in Command /\ Head(q).at = <<g, "set">>
            /\ Head(q).op \in {"create", "list"} /\ Head(q).op \in SetOps
        BY <4>1, SetRound DEF SetOps
      <4>3. TakesEffect(Head(q), w)
        BY <4>2, Kinds DEF Runs, Learns, IsMisled
      <4> QED BY <4>2, <4>3, SetEffect
    <3>2. CASE \E at \in Places : q \in PlaceRests(at)
      <4>1. PICK at \in Places : q \in ChainRests(at) \/ q \in HookRests(at)
        BY <3>2 DEF PlaceRests
      <4>2. Head(q) \in Question \/ (Head(q) \in Command /\ Head(q).op \in ChainOps)
        BY <4>1, ChainRound, HookRound DEF ChainOps
      <4>3. UNCHANGED sets
        BY <4>2, Elsewhere, Kinds DEF Runs, Learns, IsMisled, sets
      <4> QED BY <4>3 DEF sets
    <3> QED BY <1>1, <1>12, <3>1, <3>2 DEF IsRest, Restoring, Unhooking, Changes
  <2>4. r # <<>> => r \notin rests
    <3>1. \A g \in Families : q \in SetRests(g) => r = <<>> \/ r \in SetRests(g)
      <4> SUFFICES ASSUME NEW g \in Families, q \in SetRests(g)
                   PROVE  r = <<>> \/ r \in SetRests(g)
        OBVIOUS
      <4>1. Head(q) \in Command /\ (Tail(q) = <<>> \/ Tail(q) \in SetRests(g))
        BY SetRound
      <4>2. r = Tail(q)
        BY <4>1, Kinds DEF Runs, Learns, IsMisled
      <4> QED BY <4>1, <4>2
    <3>2. \A at \in Places : q \in PlaceRests(at) => r = <<>> \/ r \in PlaceRests(at)
      BY <1>1, RestFollows
    <3>3. \A g \in Families : \A p \in SetRests(g) : Head(p).op \in {"create", "list"}
      BY SetRound
    <3>4. \A at \in Places : \A p \in PlaceRests(at) :
            Head(p).op \in {"chain?", "rule?", "hook?", "-N", "-I rule", "-D hook", "-I hook"}
      BY ChainRound, HookRound DEF PlaceRests
    <3>5. (\E g \in Families : q \in SetRests(g)) \/ (\E at \in Places : q \in PlaceRests(at))
      BY <1>1, <1>12 DEF IsRest, Restoring, Unhooking, Changes
    <3> QED BY <1>8, <3>1, <3>2, <3>3, <3>4, <3>5
  <2> QED BY <1>4, <1>5, <1>7, <1>9, <2>1, <2>2, <2>3, <2>4 DEF Restored
<1> QED BY <1>10, <1>11, <1>12

\* A rest of a hook's round is no rest of a chain's.
LEMMA HookRestsApart ==
  ASSUME NEW at \in Places, NEW to \in Places, NEW q \in HookRests(to)
  PROVE  q \notin ChainRests(at)
<1> DEFINE c == AskChain(at)
           r == AskRule(at)
           h == AskHook(at)
           n == Cmd("-N", at)
           i == Cmd("-I rule", at)
           d == Cmd("-D hook", at)
           k == Cmd("-I hook", at)
           S == {c, r, h, n, i, d, k}
           x == AskHook(to)
           y == Cmd("-D hook", to)
<1>1. k.op = "-I hook" /\ x.op = "hook?" /\ y.op = "-D hook"
  BY CommandTypes, QuestionTypes
<1>2. ChainRests(at) =
        {<<c, r, h, k>>, <<n, r, h, k>>, <<r, h, k>>, <<i, h, k>>, <<h, k>>, <<d, k>>, <<k>>}
  BY DEF ChainRests
<1>3. q = <<x>> \/ q = <<y>>
  BY DEF HookRests
<1>4. c \in S /\ r \in S /\ h \in S /\ n \in S /\ i \in S /\ d \in S /\ k \in S
  OBVIOUS
<1> HIDE DEF c, r, h, n, i, d, k, S, x, y
<1>5. \A p \in ChainRests(at) : Len(p) # 1 \/ p = <<k>>
  BY <1>2, <1>4, Tuple1, Tuple2, Tuple3, Tuple4
<1>6. Head(<<k>>) = k
  BY <1>4, Tuple1
<1>7. Len(q) = 1 /\ Head(q).op \in {"hook?", "-D hook"}
  BY <1>1, <1>3, Tuple1
<1> QED BY <1>1, <1>5, <1>6, <1>7

\* Which place a round is at.
LEMMA PlaceOf ==
  ASSUME NEW b, NEW c, NEW q, IsRest(b, c, q), NEW at \in Places
  PROVE  /\ q \in ChainRests(at) => Ensuring(b, c) /\ at[2] \in protected
         /\ q \in HookRests(at) /\ Ensuring(b, c) => at[2] \notin protected
<1>1. \A to \in Places : /\ \A p \in ChainRests(to) : Head(p).at = to /\ Head(p).op \notin SetOps
                         /\ \A p \in HookRests(to) : Head(p).at = to /\ Head(p).op \notin SetOps
  BY ChainRound, HookRound DEF SetOps
<1>2. \A f \in Families : /\ \A p \in SetRests(f) : Head(p).op \in SetOps
                          /\ \A p \in RestoreRests(f) : Head(p).op \in SetOps
  BY SetRound, RestoreRound DEF SetOps
<1>3. \A f \in Families, op \in {"add", "del"} : q = <<SetCmd(op, f)>> => Head(q).op \in SetOps
  BY OneRound DEF SetOps
<1>4. Changes("add", "add", b, c, q) \/ Changes("del", "remove", b, c, q) => Head(q).op \in SetOps
  BY <1>3, BackendAssumption DEF Changes
<1>5. ASSUME q \in ChainRests(at) \/ q \in HookRests(at)
      PROVE  (Ensuring(b, c) /\ q \in PlaceRests(at)) \/ (Unhooking(b, c) /\ q \in HookRests(at))
  <2>1. Head(q).at = at /\ Head(q).op \notin SetOps
    BY <1>1, <1>5
  <2>2. \A to \in Places : q \in PlaceRests(to) \/ q \in HookRests(to) => to = at
    BY <1>1, <2>1 DEF PlaceRests
  <2> QED BY <1>2, <1>4, <2>1, <2>2 DEF IsRest
<1>6. ~(Ensuring(b, c) /\ Unhooking(b, c))
  BY DEF Ensuring, Unhooking
<1>7. ASSUME q \in ChainRests(at) PROVE Ensuring(b, c) /\ at[2] \in protected
  BY <1>5, <1>7, HookRestsApart DEF PlaceRests
<1>8. ASSUME q \in HookRests(at), Ensuring(b, c) PROVE at[2] \notin protected
  BY <1>5, <1>6, <1>8, HookRestsApart DEF PlaceRests
<1> QED BY <1>7, <1>8

\* What the chains owe to an undisturbed call.
Owed(b, c, t, at) ==
  /\ OneHook(at)
  /\ t # <<>> /\ Head(t) \in ChainRests(at) => ChainMid(at, Head(Head(t)).op)
  /\ Restoring(b, c) => \/ Left(t, EnsurePlace(at), PlaceRests(at))
                        \/ IF at[2] \in protected THEN Hooked(at) ELSE Unhooked(at)
  /\ Unhooking(b, c) => Left(t, RemoveHook(at), HookRests(at)) \/ Unhooked(at)

\* The chains, when an undisturbed call goes one step on.
LEMMA ChainsGo ==
  ASSUME TypeOK, UNCHANGED settings, NEW b \in Backends, NEW c, NEW t \in Seq(Rounds), t = c.todo,
         RoundsOK(b, c), NEW r, NEW u, GoesOn(t, r, u), NEW wanted,
         Runs(Head(t), wanted, r) \/ Learns(Head(t), r), NEW at \in Places, Owed(b, c, t, at)
  PROVE  Owed(b, c, u, at)'
<1> DEFINE q == Head(t)
<1>1. IsRest(b, c, q) /\ Follows(q, r)
  BY StepFollows DEF RoundsOK, GoesOn
<1>2. /\ r = <<>> \/ IsRest(b, c, r)
      /\ \A to \in Places :
           /\ q \in ChainRests(to) => r = <<>> \/ r \in ChainRests(to)
           /\ q \in HookRests(to) => r = <<>> \/ r \in HookRests(to)
           /\ q \in PlaceRests(to) => r = <<>> \/ r \in PlaceRests(to)
  BY <1>1, RestFollows
<1>3. u # <<>> /\ r = <<>> => IsWhole(b, c, Head(u))
  BY <1>2, RoundsGo
<1>4. u # <<>> /\ r = <<>> /\ Head(u) \in ChainRests(at) => ChainMid(at, Head(Head(u)).op)'
  BY <1>3, WholeIsRest DEF ChainMid
<1>5. u # <<>> /\ r # <<>> => Head(u) = r
  BY DEF GoesOn
<1>6. EnsurePlace(at) \in PlaceRests(at) /\ RemoveHook(at) \in HookRests(at)
  BY PlaceRound
<1>7. /\ Left(t, EnsurePlace(at), PlaceRests(at)) =>
           Left(u, EnsurePlace(at), PlaceRests(at)) \/ (q \in PlaceRests(at) /\ r = <<>>)
      /\ Left(t, RemoveHook(at), HookRests(at)) =>
           Left(u, RemoveHook(at), HookRests(at)) \/ (q \in HookRests(at) /\ r = <<>>)
  BY <1>2, <1>6, LeftGoes
<1>8. /\ q \in PlaceRests(at) => Left(t, EnsurePlace(at), PlaceRests(at))
      /\ q \in HookRests(at) => Left(t, RemoveHook(at), HookRests(at))
  BY DEF Left, GoesOn
<1>9. ~(Ensuring(b, c) /\ Unhooking(b, c)) /\ (Restoring(b, c) => Ensuring(b, c))
  BY DEF Ensuring, Unhooking, Restoring
<1> DEFINE Done == IF at[2] \in protected THEN Hooked(at) ELSE Unhooked(at)
<1>10. SUFFICES
         /\ OneHook(at)'
         /\ u # <<>> /\ Head(u) \in ChainRests(at) => ChainMid(at, Head(Head(u)).op)'
         /\ Restoring(b, c) => \/ Left(u, EnsurePlace(at), PlaceRests(at))
                               \/ IF at[2] \in protected THEN Hooked(at)' ELSE Unhooked(at)'
         /\ Unhooking(b, c) => Left(u, RemoveHook(at), HookRests(at)) \/ Unhooked(at)'
  <2>1. protected' = protected /\ observing' = observing
    BY DEF settings
  <2>2. PlaceRests(at)' = PlaceRests(at) /\ EnsurePlace(at)' = EnsurePlace(at)
    BY SettingsKept
  <2> QED BY <2>1, <2>2 DEF Owed, Restoring, Unhooking
<1>11. CASE q \in ChainRests(at)
  <2>1. Ensuring(b, c) /\ at[2] \in protected /\ q \in PlaceRests(at)
    BY <1>1, <1>11, PlaceOf DEF PlaceRests
  <2>2. OneHook(at) /\ ChainMid(at, Head(q).op)
    BY <1>11 DEF Owed, GoesOn
  <2>3. /\ OneHook(at)' /\ (r = <<>> => Hooked(at)')
        /\ r # <<>> => r \in ChainRests(at) /\ ChainMid(at, Head(r).op)'
    BY <1>11, <2>2, ChainGoes
  <2> QED BY <1>4, <1>5, <1>7, <1>8, <1>9, <2>1, <2>3
<1>12. CASE q \in HookRests(at)
  <2>1. OneHook(at)
    BY DEF Owed
  <2>2. OneHook(at)' /\ (r = <<>> => Unhooked(at)')
    BY <1>12, <2>1, HookGoes
  <2>3. r # <<>> => r \notin ChainRests(at)
    BY <1>2, <1>12, HookRestsApart
  <2>4. Ensuring(b, c) => at[2] \notin protected /\ q \in PlaceRests(at)
    BY <1>1, <1>12, PlaceOf DEF PlaceRests
  <2> QED BY <1>4, <1>5, <1>7, <1>8, <1>9, <1>12, <2>2, <2>3, <2>4
<1>13. CASE q \notin ChainRests(at) /\ q \notin HookRests(at)
  <2>1. q \notin PlaceRests(at)
    BY <1>13 DEF PlaceRests
  <2>2. /\ owned'[at] = owned[at] /\ rules'[at] = rules[at]
        /\ r # <<>> => r \notin ChainRests(at)
    <3>1. CASE \E to \in Places : q \in PlaceRests(to) \/ q \in HookRests(to)
      <4>1. PICK to \in Places : q \in ChainRests(to) \/ q \in HookRests(to)
        BY <3>1 DEF PlaceRests
      <4>2. to # at
        BY <1>13, <4>1
      <4>3. /\ Head(q).at = to
            /\ Head(q) \in Question \/ (Head(q) \in Command /\ Head(q).op \in ChainOps)
        BY <4>1, ChainRound, HookRound DEF ChainOps
      <4>4. r # <<>> => Head(r).at = to
        BY <1>2, <4>1, ChainRound, HookRound
      <4>5. r # <<>> => r \notin ChainRests(at)
        BY <4>2, <4>4, ChainRound
      <4>6. CASE Learns(q, r)
        BY <4>5, <4>6 DEF Learns, chains
      <4>7. CASE Runs(q, wanted, r)
        <5>1. Head(q) \in Command /\ Head(q).op \in ChainOps /\ TakesEffect(Head(q), wanted)
          BY <4>3, <4>7, Kinds DEF Runs
        <5>2. /\ owned' = [owned EXCEPT ![to] = owned'[to]]
              /\ rules' = [rules EXCEPT ![to] = rules'[to]]
          BY <4>3, <5>1, ChainEffect
        <5> DEFINE o == owned'[to]
                   l == rules'[to]
        <5>3. owned' = [owned EXCEPT ![to] = o] /\ rules' = [rules EXCEPT ![to] = l]
          BY <5>2
        <5> HIDE DEF o, l
        <5> QED BY <4>2, <4>5, <5>3 DEF TypeOK
      <4> QED BY <4>6, <4>7
    <3>2. CASE (\E f \in Families : q \in SetRests(f) \/ q \in RestoreRests(f))
                 \/ \E f \in Families, op \in {"add", "del"} : q = <<SetCmd(op, f)>>
      <4>1. /\ Head(q) \in Command /\ Head(q).op \in SetOps
            /\ Tail(q) = <<>> \/ \E f \in Families : Tail(q) \in SetRests(f) \/ Tail(q) \in RestoreRests(f)
        <5>1. CASE \E f \in Families : q \in SetRests(f)
          BY <5>1, SetRound DEF SetOps
        <5>2. CASE \E f \in Families : q \in RestoreRests(f)
          BY <5>2, RestoreRound DEF SetOps
        <5>3. CASE \E f \in Families, op \in {"add", "del"} : q = <<SetCmd(op, f)>>
          BY <5>3, OneRound DEF SetOps
        <5> QED BY <3>2, <5>1, <5>2, <5>3
      <4>2. TakesEffect(Head(q), wanted) /\ r = Tail(q)
        BY <4>1, Kinds DEF Runs, Learns
      <4>3. UNCHANGED chains
        BY <4>1, <4>2, Elsewhere
      <4>4. r = <<>> \/ \E f \in Families : r \in SetRests(f) \/ r \in RestoreRests(f)
        BY <4>1, <4>2
      <4>5. r # <<>> => Head(r).op \in SetOps
        BY <4>4, SetRound, RestoreRound DEF SetOps
      <4>6. \A p \in ChainRests(at) : Head(p).op \notin SetOps
        BY ChainRound DEF SetOps
      <4> QED BY <4>3, <4>5, <4>6 DEF chains
    <3> QED BY <1>1, <3>1, <3>2, BackendAssumption DEF IsRest, Changes
  <2>3. OneHook(at)'
    BY <2>2 DEF OneHook, Owed
  <2>4. Restoring(b, c) => \/ Left(u, EnsurePlace(at), PlaceRests(at))
                           \/ IF at[2] \in protected THEN Hooked(at)' ELSE Unhooked(at)'
    BY <1>7, <2>1, <2>2 DEF Owed, Hooked, Unhooked
  <2>5. Unhooking(b, c) => Left(u, RemoveHook(at), HookRests(at)) \/ Unhooked(at)'
    BY <1>7, <1>13, <2>2 DEF Owed, Unhooked
  <2> QED BY <1>4, <1>5, <2>2, <2>3, <2>4, <2>5
<1> QED BY <1>11, <1>12, <1>13

(* --------------------------- the invariant ------------------------------ *)

\* Removing hooks takes two kinds of commands.
LEMMA HookOps ==
  ASSUME NEW at \in Places, NEW q \in HookRests(at)
  PROVE  \A j \in DOMAIN q : q[j].op \in {"hook?", "-D hook"}
<1> DEFINE x == AskHook(at)
           y == Cmd("-D hook", at)
<1>1. x.op = "hook?" /\ y.op = "-D hook"
  BY CommandTypes, QuestionTypes
<1>2. q = <<x>> \/ q = <<y>>
  BY DEF HookRests
<1> HIDE DEF x, y
<1>3. /\ DOMAIN <<x>> = {1} /\ <<x>>[1] = x
      /\ DOMAIN <<y>> = {1} /\ <<y>>[1] = y
  OBVIOUS
<1> QED BY <1>1, <1>2, <1>3

\* In observe-only mode nothing is about to run but what removes hooks.
LEMMA ObservedRounds ==
  ASSUME NEW b, NEW c, observing[b], NEW t \in Seq(Rounds), t = c.todo, RoundsOK(b, c)
  PROVE  \A i \in DOMAIN t : \A j \in DOMAIN t[i] : t[i][j].op \in {"hook?", "-D hook"}
<1> SUFFICES ASSUME NEW i \in DOMAIN t
             PROVE  \A j \in DOMAIN t[i] : t[i][j].op \in {"hook?", "-D hook"}
  OBVIOUS
<1>1. t # <<>>
  OBVIOUS
<1>2. ~Ensuring(b, c) /\ ~Restoring(b, c)
  BY DEF Ensuring, Restoring
<1>3. \A q : IsRest(b, c, q) => \E at \in Places : q \in HookRests(at)
  BY <1>2 DEF IsRest, Changes
<1>4. \A q : IsWhole(b, c, q) => \E at \in Places : q \in HookRests(at)
  BY <1>2, WholeRounds DEF IsWhole, Changes
<1>5. (i = 1 /\ t[i] = Head(t)) \/ (i - 1 \in DOMAIN Tail(t) /\ Tail(t)[i - 1] = t[i])
  BY <1>1, Members
<1>6. \E at \in Places : t[i] \in HookRests(at)
  BY <1>1, <1>3, <1>4, <1>5 DEF RoundsOK
<1> QED BY <1>6, HookOps

\* The type of a call.
LEMMA CallTyped ==
  ASSUME NEW c \in Call
  PROVE  /\ c.name \in {"ensure", "reconcile", "disable", "add", "remove"}
         /\ c.wanted \in SUBSET Entries /\ c.todo \in Seq(Rounds)
         /\ c.alone \in BOOLEAN /\ c.undisturbed \in BOOLEAN /\ c # None
BY CallAssumption DEF Call, Rounds

\* The type invariant after a step, when the kernel and the calls have their types.
LEMMA TypedNext ==
  ASSUME TypeOK, UNCHANGED settings, KernelOK', call' \in [Backends -> Call \cup {None}],
         \A o \in Backends : call'[o] # None => RoundsOK(o, call'[o])
  PROVE  TypeOK'
<1>1. protected' = protected /\ observing' = observing
  BY DEF settings
<1>2. ASSUME NEW o \in Backends, call'[o] # None, observing[o]
      PROVE  \A i \in DOMAIN call'[o].todo : \A j \in DOMAIN call'[o].todo[i] :
               call'[o].todo[i][j].op \in {"hook?", "-D hook"}
  <2>1. call'[o] \in Call
    BY <1>2
  <2> PICK c : c = call'[o]
    OBVIOUS
  <2>2. c.todo \in Seq(Rounds) /\ RoundsOK(o, c)
    BY <1>2, <2>1, CallTyped
  <2>3. \A i \in DOMAIN c.todo : \A j \in DOMAIN c.todo[i] : c.todo[i][j].op \in {"hook?", "-D hook"}
    BY <1>2, <2>2, ObservedRounds
  <2> QED BY <2>3
<1> QED BY <1>1, <1>2 DEF TypeOK, KernelOK, Content

\* A call that is under way has its type and keeps its part of the invariant.
LEMMA CallIs ==
  ASSUME BackendInv, NEW b \in Backends, call[b] # None
  PROVE  call[b] \in Call /\ CallOK(b, call[b])
BY DEF BackendInv, TypeOK

\* While a call is under way no other one is alone, so all it owes is its rounds.
LEMMA OthersKept ==
  ASSUME BackendInv, UNCHANGED settings, NEW b \in Backends, call[b] # None,
         NEW o \in Backends, o # b, call[o] # None, call'[o] = call[o]
  PROVE  CallOK(o, call[o])' /\ RoundsOK(o, call'[o])
<1>1. CallOK(o, call[o])
  BY CallIs
<1>2. ~call[o].alone /\ ~call[o].undisturbed
  BY <1>1 DEF CallOK, Solitary
<1>3. RoundsOK(o, call'[o])
  BY <1>1 DEF CallOK
<1>4. RoundsOK(o, call[o])'
  BY <1>3, SettingsKept
<1> QED BY <1>2, <1>3, <1>4 DEF CallOK, Solitary, SetsOK, ChainsOK

\* Rounds and what is left of them have their type.
LEMMA RestTyped ==
  ASSUME NEW b, NEW c, NEW q, IsRest(b, c, q), NEW r, Follows(q, r)
  PROVE  q \in Rounds /\ r \in Rounds
<1>1. \A p : IsRest(b, c, p) => p \in Rounds
  BY RestRunnable DEF Runnable, Rounds
<1>2. <<>> \in Rounds
  BY DEF Rounds
<1> QED BY <1>1, <1>2, RestFollows

\* A call that goes one step on keeps the invariant.
LEMMA GoesKeeps ==
  ASSUME BackendInv, UNCHANGED settings, KernelOK', NEW b \in Backends, call[b] # None,
         NEW c, c = call[b], c.todo # <<>>, NEW r, NEW d \in Call,
         d.name = c.name, d.wanted = c.wanted, d.todo = Onward(r, c.todo),
         d.alone = c.alone, d.undisturbed => c.undisturbed,
         call' = [call EXCEPT ![b] = d],
         \/ Runs(Head(c.todo), c.wanted, r) \/ Learns(Head(c.todo), r)
         \/ (IsMisled(Head(c.todo), r) /\ ~d.undisturbed)
  PROVE  BackendInv'
<1>1. /\ c \in Call /\ CallOK(b, c) /\ TypeOK
      /\ c.todo \in Seq(Rounds) /\ c.wanted \in SUBSET Entries /\ d.todo \in Seq(Rounds) /\ d # None
  BY CallIs, CallTyped DEF BackendInv
<1> DEFINE t == c.todo
           u == d.todo
<1>2. RoundsOK(b, c) /\ IsRest(b, c, Head(t)) /\ Follows(Head(t), r)
  BY <1>1, StepFollows DEF CallOK, RoundsOK
<1>3. r = <<>> \/ IsRest(b, c, r)
  BY <1>2, RestFollows
<1>4. GoesOn(t, r, u)
  <2>1. r \in Rounds /\ Head(t) \in Rounds
    BY <1>2, RestTyped
  <2> QED BY <1>1, <2>1, Advances
<1>5. /\ \A q : IsRest(b, d, q) <=> IsRest(b, c, q)
      /\ \A q : IsWhole(b, d, q) <=> IsWhole(b, c, q)
      /\ Restoring(b, d) <=> Restoring(b, c)
      /\ Unhooking(b, d) <=> Unhooking(b, c)
  BY DEF IsRest, IsWhole, Ensuring, Restoring, Unhooking, Changes
<1>6. RoundsOK(b, d)
  <2>1. u # <<>> => IsRest(b, c, Head(u)) /\ \A i \in DOMAIN Tail(u) : IsWhole(b, c, Tail(u)[i])
    BY <1>1, <1>2, <1>3, <1>4, RoundsGo
  <2> QED BY <1>5, <2>1 DEF RoundsOK
<1>7. call \in [Backends -> Call \cup {None}]
  BY <1>1 DEF TypeOK
<1>8. call'[b] = d /\ \A o \in Backends : o # b => call'[o] = call[o]
  BY <1>7
<1>9. call' \in [Backends -> Call \cup {None}]
  BY <1>7
<1>10. TypeOK'
  <2>1. \A o \in Backends : call'[o] # None => RoundsOK(o, call'[o])
    BY <1>6, <1>8, OthersKept
  <2> QED BY <1>1, <1>9, <2>1, TypedNext
<1>11. RoundsOK(b, call[b])' /\ (Restoring(b, call[b])' <=> Restoring(b, c))
         /\ (Unhooking(b, call[b])' <=> Unhooking(b, c))
  BY <1>5, <1>6, <1>8, SettingsKept
<1>12. Solitary(b, call[b])'
  <2>1. Solitary(b, c)
    BY <1>1 DEF CallOK
  <2> QED BY <1>8, <2>1 DEF Solitary
<1>13. SetsOK(b, call[b])'
  <2> SUFFICES ASSUME d.alone, Restoring(b, c), NEW f \in Families
      PROVE  /\ Left(u, RestoreFamily(f), RestoreRests(f)) \/ Restored(f, c.wanted)'
             /\ u # <<>> /\ Head(u) \in RestoreRests(f) => SetMid(f, c.wanted, Head(Head(u)).op)'
    BY <1>8, <1>11 DEF SetsOK, Restored, SetMid
  <2>1. /\ Left(t, RestoreFamily(f), RestoreRests(f)) \/ Restored(f, c.wanted)
        /\ Head(t) \in RestoreRests(f) => SetMid(f, c.wanted, Head(Head(t)).op)
    BY <1>1 DEF CallOK, SetsOK
  <2> QED BY <1>1, <1>2, <1>4, <2>1, SetsGo
<1>14. ChainsOK(b, call[b])'
  <2> SUFFICES ASSUME d.undisturbed, NEW at \in Places
      PROVE  Owed(b, c, u, at)'
    <3>1. /\ Restoring(b, c)' <=> Restoring(b, c)
          /\ Unhooking(b, c)' <=> Unhooking(b, c)
      BY DEF Restoring, Unhooking, settings
    <3> QED BY <1>8, <1>11, <3>1 DEF ChainsOK, Owed, OneHook, ChainMid, Hooked, Unhooked
  <2>1. Owed(b, c, t, at)
    BY <1>1 DEF CallOK, ChainsOK, Owed
  <2> QED BY <1>1, <1>2, <1>4, <2>1, ChainsGo
<1>15. CallOK(b, call[b])'
  BY <1>11, <1>12, <1>13, <1>14 DEF CallOK
<1>16. \A o \in Backends : o # b /\ call'[o] # None => CallOK(o, call[o])'
  BY <1>8, OthersKept
<1> QED BY <1>10, <1>15, <1>16 DEF BackendInv

\* A call that ends keeps it.
LEMMA EndsKeeps ==
  ASSUME BackendInv, UNCHANGED settings, KernelOK', NEW b \in Backends, call[b] # None,
         call' = [call EXCEPT ![b] = None]
  PROVE  BackendInv'
<1>1. TypeOK /\ call \in [Backends -> Call \cup {None}]
  BY DEF BackendInv, TypeOK
<1>2. call'[b] = None /\ \A o \in Backends : o # b => call'[o] = call[o]
  BY <1>1
<1>3. call' \in [Backends -> Call \cup {None}]
  BY <1>1
<1>4. \A o \in Backends : call'[o] # None => CallOK(o, call[o])' /\ RoundsOK(o, call'[o])
  BY <1>2, OthersKept
<1>5. TypeOK'
  BY <1>1, <1>3, <1>4, TypedNext
<1> QED BY <1>4, <1>5 DEF BackendInv

\* The kernel keeps its types: with the effect of a command, and without.
LEMMA KernelTyped ==
  ASSUME TypeOK, NEW c \in Command, NEW wanted \in SUBSET Entries, TakesEffect(c, wanted)
  PROVE  KernelOK'
<1>1. CASE c.op \in SetOps
  <2>1. PICK f \in Families : c.at = <<f, "set">>
    <3>1. c.at \in Families \X {"set"}
      BY <1>1 DEF Command, SetOps
    <3> QED BY <3>1
  <2> QED BY <1>1, <2>1, SetsTyped
<1>2. CASE c.op \in ChainOps
  BY <1>2, CommandOps, ChainsTyped
<1> QED BY <1>1, <1>2, CommandOps

\* An untouched kernel keeps its types.
LEMMA KernelKept ==
  ASSUME TypeOK, UNCHANGED <<sets, chains>> PROVE KernelOK'
BY DEF TypeOK, KernelOK, sets, chains, Content

\* The command or question that is next, in the terms of the lemmas above.
LEMMA NextIs ==
  ASSUME BackendInv, NEW b \in Backends, Running(b), NEW c, c = call[b]
  PROVE  /\ c # None /\ c.todo # <<>> /\ c \in Call /\ CallOK(b, c) /\ c.todo \in Seq(Rounds)
         /\ First(b) = Head(Head(c.todo)) /\ Rest(b) = Tail(Head(c.todo))
         /\ First(b) \in Command \cup Question
         /\ c.wanted \in SUBSET Entries
<1>1. c # None /\ c.todo # <<>>
  BY DEF Running
<1>2. c \in Call /\ CallOK(b, c) /\ c.todo \in Seq(Rounds) /\ c.wanted \in SUBSET Entries
  BY <1>1, CallIs, CallTyped
<1>3. IsRest(b, c, Head(c.todo))
  BY <1>1, <1>2 DEF CallOK, RoundsOK
<1>4. First(b) = Head(Head(c.todo)) /\ Rest(b) = Tail(Head(c.todo))
  BY DEF First, Rest
<1> QED BY <1>1, <1>2, <1>3, <1>4, RestRunnable DEF Runnable

\* The record of a call with other rounds to run.
LEMMA CallGoes ==
  ASSUME NEW c \in Call, NEW u \in Seq(Rounds), NEW d, d = [c EXCEPT !.todo = u]
  PROVE  /\ d \in Call /\ d.name = c.name /\ d.wanted = c.wanted /\ d.todo = u
         /\ d.alone = c.alone /\ d.undisturbed = c.undisturbed
BY DEF Call, Rounds

\* A call that is disturbed is otherwise the call it was.
LEMMA CallDisturbed ==
  ASSUME NEW c \in Call, NEW d, d = [c EXCEPT !.undisturbed = FALSE]
  PROVE  /\ d \in Call /\ d.name = c.name /\ d.wanted = c.wanted /\ d.todo = c.todo
         /\ d.alone = c.alone /\ d.undisturbed = FALSE
BY DEF Call

\* A call that another joins is otherwise the call it was.
LEMMA CallJoined ==
  ASSUME NEW c \in Call, NEW d, d = [c EXCEPT !.undisturbed = FALSE, !.alone = FALSE]
  PROVE  /\ d \in Call /\ d.name = c.name /\ d.wanted = c.wanted /\ d.todo = c.todo
         /\ d.alone = FALSE /\ d.undisturbed = FALSE
BY DEF Call

(* --------------------------- whole sets only ---------------------------- *)

\* What a call asks of the sets.
RequestOf(c) ==
  [kind   |-> CASE c.name = "reconcile" -> "replace"
                [] c.name \in {"add", "remove"} -> "one"
                [] OTHER -> "other",
   wanted |-> [f \in Families |-> Of(c.wanted, f)],
   alone  |-> c.alone]

\* A call asks for something, and two calls that differ in their commands only ask for the
\* same.
LEMMA RequestIs ==
  ASSUME NEW c \in Call
  PROVE  /\ RequestOf(c) \in Sets!Request /\ RequestOf(c) # None
         /\ RequestOf(c).kind = "replace" <=> c.name = "reconcile"
         /\ RequestOf(c).kind = "one" <=> c.name \in {"add", "remove"}
         /\ RequestOf(c).alone = c.alone
         /\ \A f \in Families : RequestOf(c).wanted[f] = Of(c.wanted, f)
<1>1. c.wanted \in SUBSET Entries /\ c.alone \in BOOLEAN
  BY CallTyped
<1>2. \A f \in Families : Of(c.wanted, f) \in SUBSET Entries
  BY <1>1, FamilySets
<1>3. PICK w : w = [f \in Families |-> Of(c.wanted, f)]
  OBVIOUS
<1>4. w \in [Families -> SUBSET Entries]
  BY <1>2, <1>3
<1>5. RequestOf(c) \in Sets!Request
  BY <1>1, <1>3, <1>4 DEF RequestOf, Sets!Request, Sets!Kinds
<1> QED BY <1>3, <1>5, RequestAssumption DEF RequestOf

\* The request of a call depends on its name, what it wants and whether it is
\* alone.
LEMMA SameRequest ==
  ASSUME NEW c, NEW d, d.name = c.name, d.wanted = c.wanted, d.alone = c.alone
  PROVE  RequestOf(d) = RequestOf(c)
BY DEF RequestOf

\* A call that another joins is no longer alone in what it asks.
LEMMA JoinedRequest ==
  ASSUME NEW c, NEW d, d.name = c.name, d.wanted = c.wanted, d.alone = FALSE
  PROVE  RequestOf(d) = [RequestOf(c) EXCEPT !.alone = FALSE]
<1> PICK k : k = RequestOf(c).kind
  OBVIOUS
<1> PICK w : w = RequestOf(c).wanted
  OBVIOUS
<1> PICK a : a = c.alone
  OBVIOUS
<1>1. RequestOf(c) = [kind |-> k, wanted |-> w, alone |-> a]
  BY DEF RequestOf
<1>2. RequestOf(d) = [kind |-> k, wanted |-> w, alone |-> FALSE]
  BY DEF RequestOf
<1>3. PICK no : no = FALSE
  OBVIOUS
<1>4. [[kind |-> k, wanted |-> w, alone |-> a] EXCEPT !.alone = no]
        = [kind |-> k, wanted |-> w, alone |-> no]
  OBVIOUS
<1> QED BY <1>1, <1>2, <1>3, <1>4, Zenon

\* Requests, in terms of RequestOf.
LEMMA RequestsAre ==
  /\ Requests = [b \in Backends |-> IF call[b] = None THEN None ELSE RequestOf(call[b])]
  /\ Requests' = [b \in Backends |-> IF call'[b] = None THEN None ELSE RequestOf(call'[b])]
BY DEF Requests, RequestOf

\* A call asks for something as long as it is under way.
LEMMA Asked ==
  ASSUME BackendInv, NEW b \in Backends
  PROVE  /\ Requests[b] = None <=> call[b] = None
         /\ call[b] # None => call[b] \in Call /\ Requests[b] = RequestOf(call[b])
BY CallIs, RequestIs, RequestsAre

\* A step inside a call leaves what is asked for; its end ends that.
LEMMA RequestsKept ==
  ASSUME BackendInv,
         \A o \in Backends :
           /\ call'[o] = None <=> call[o] = None
           /\ call[o] # None => /\ call'[o].name = call[o].name /\ call'[o].wanted = call[o].wanted
                                /\ call'[o].alone = call[o].alone
  PROVE  Requests' = Requests
<1>1. ASSUME NEW o \in Backends, call[o] # None PROVE RequestOf(call'[o]) = RequestOf(call[o])
  <2> PICK c : c = call[o]
    OBVIOUS
  <2> PICK d : d = call'[o]
    OBVIOUS
  <2> QED BY <1>1, SameRequest
<1> QED BY <1>1, RequestsAre

\* A call that returns takes its request away.
LEMMA RequestEnds ==
  ASSUME BackendInv, NEW b \in Backends, call' = [call EXCEPT ![b] = None]
  PROVE  Requests' = [Requests EXCEPT ![b] = None]
BY RequestsAre DEF BackendInv, TypeOK

\* A call goes on: Run, Probe, ProbeMisled.
LEMMA RequestGoesOn ==
  ASSUME BackendInv, NEW b \in Backends, call[b] # None, NEW d,
         d # None, d.name = call[b].name, d.wanted = call[b].wanted, d.alone = call[b].alone,
         call' = [call EXCEPT ![b] = d]
  PROVE  Requests' = Requests
<1>1. call \in [Backends -> Call \cup {None}]
  BY DEF BackendInv, TypeOK
<1> QED BY <1>1, RequestsKept

\* Run keeps the invariant, and what is asked for.
LEMMA RunKeeps ==
  ASSUME BackendInv, NEW b \in Backends, Run(b)
  PROVE  BackendInv' /\ Requests' = Requests
<1> PICK c : c = call[b]
  OBVIOUS
<1>1. Running(b) /\ First(b).op \notin Questions /\ TakesEffect(First(b), c.wanted)
        /\ UNCHANGED settings
  BY DEF Run
<1>2. /\ c # None /\ c.todo # <<>> /\ c \in Call /\ CallOK(b, c) /\ c.todo \in Seq(Rounds)
      /\ First(b) = Head(Head(c.todo)) /\ Rest(b) = Tail(Head(c.todo))
      /\ First(b) \in Command \cup Question /\ c.wanted \in SUBSET Entries
  BY <1>1, NextIs
<1> PICK r : r = Rest(b)
  OBVIOUS
<1>3. First(b) \in Command /\ Runs(Head(c.todo), c.wanted, r)
  BY <1>1, <1>2, Kinds DEF Runs
<1>4. KernelOK'
  BY <1>1, <1>2, <1>3, KernelTyped DEF BackendInv
<1>5. IsRest(b, c, Head(c.todo)) /\ Follows(Head(c.todo), r)
  BY <1>2, <1>3, StepFollows DEF CallOK, RoundsOK
<1> PICK u : u = Onward(r, c.todo)
  OBVIOUS
<1>6. u \in Seq(Rounds)
  <2>1. r \in Rounds /\ Head(c.todo) \in Rounds
    BY <1>5, RestTyped
  <2> QED BY <1>2, <2>1, Advances
<1> PICK d : d = [c EXCEPT !.todo = u]
  OBVIOUS
<1>7. /\ d \in Call /\ d.name = c.name /\ d.wanted = c.wanted /\ d.todo = u
      /\ d.alone = c.alone /\ d.undisturbed = c.undisturbed
  BY <1>2, <1>6, CallGoes
<1>8. call' = [call EXCEPT ![b] = d]
  <2>1. call' = [call EXCEPT ![b] = [call[b] EXCEPT !.todo = Onward(Rest(b), call[b].todo)]]
    BY DEF Run, Go
  <2> QED BY <2>1
<1>9. call[b] # None /\ c = call[b] /\ d.todo = Onward(r, c.todo) /\ (d.undisturbed => c.undisturbed)
  BY <1>2, <1>7
<1>20. BackendInv'
  BY <1>1, <1>2, <1>3, <1>4, <1>7, <1>8, <1>9, GoesKeeps
<1> QED BY <1>2, <1>7, <1>8, <1>9, <1>20, CallTyped, RequestGoesOn

\* So do the two ways a question is answered.
LEMMA ProbeKeeps ==
  ASSUME BackendInv, NEW b \in Backends, Probe(b)
  PROVE  BackendInv' /\ Requests' = Requests
<1> PICK c : c = call[b]
  OBVIOUS
<1>1. Running(b) /\ First(b).op \in Questions /\ UNCHANGED <<sets, chains, settings>>
  BY DEF Probe
<1>2. /\ c # None /\ c.todo # <<>> /\ c \in Call /\ CallOK(b, c) /\ c.todo \in Seq(Rounds)
      /\ First(b) = Head(Head(c.todo)) /\ Rest(b) = Tail(Head(c.todo))
      /\ First(b) \in Command \cup Question /\ c.wanted \in SUBSET Entries
  BY <1>1, NextIs
<1>10. PICK r : r = (IF Yes(First(b)) THEN First(b).yes ELSE First(b).no) \o Rest(b)
  OBVIOUS
<1>3. First(b) \in Question /\ Learns(Head(c.todo), r)
  BY <1>1, <1>2, <1>10, Kinds DEF Learns
<1>4. KernelOK' /\ UNCHANGED settings
  BY <1>1, KernelKept DEF BackendInv
<1>5. IsRest(b, c, Head(c.todo)) /\ Follows(Head(c.todo), r)
  BY <1>2, <1>3, StepFollows DEF CallOK, RoundsOK
<1>11. PICK u : u = Onward(r, c.todo)
  OBVIOUS
<1>6. u \in Seq(Rounds)
  <2>1. r \in Rounds /\ Head(c.todo) \in Rounds
    BY <1>5, RestTyped
  <2> QED BY <1>2, <1>11, <2>1, Advances
<1>13. PICK d : d = [c EXCEPT !.todo = u]
  OBVIOUS
<1>7. /\ d \in Call /\ d.name = c.name /\ d.wanted = c.wanted /\ d.todo = u
      /\ d.alone = c.alone /\ d.undisturbed = c.undisturbed
  BY <1>2, <1>6, <1>13, CallGoes
<1>8. call' = [call EXCEPT ![b] = d]
  <2>1. call' = [call EXCEPT ![b] = [call[b] EXCEPT !.todo = Onward(
            (IF Yes(First(b)) THEN First(b).yes ELSE First(b).no) \o Rest(b), call[b].todo)]]
    BY DEF Probe, Go
  <2> QED BY <1>10, <1>11, <1>13, <2>1
<1>9. call[b] # None /\ c = call[b] /\ d.todo = Onward(r, c.todo) /\ (d.undisturbed => c.undisturbed)
  BY <1>2, <1>7, <1>11
<1>20. BackendInv'
  BY <1>2, <1>3, <1>4, <1>7, <1>8, <1>9, GoesKeeps
<1> QED BY <1>2, <1>7, <1>8, <1>9, <1>20, CallTyped, RequestGoesOn

\* A question that got a wrong answer keeps the invariant, as the call counts as
\* disturbed.
LEMMA ProbeMisledKeeps ==
  ASSUME BackendInv, NEW b \in Backends, ProbeMisled(b)
  PROVE  BackendInv' /\ Requests' = Requests
<1> PICK c : c = call[b]
  OBVIOUS
<1>1. Running(b) /\ First(b).op \in Questions /\ UNCHANGED <<sets, chains, settings>>
  BY DEF ProbeMisled
<1>2. /\ c # None /\ c.todo # <<>> /\ c \in Call /\ CallOK(b, c) /\ c.todo \in Seq(Rounds)
      /\ First(b) = Head(Head(c.todo)) /\ Rest(b) = Tail(Head(c.todo))
      /\ First(b) \in Command \cup Question /\ c.wanted \in SUBSET Entries
  BY <1>1, NextIs
<1>10. PICK r : r = First(b).no \o Rest(b)
  OBVIOUS
<1>3. First(b) \in Question /\ IsMisled(Head(c.todo), r)
  BY <1>1, <1>2, <1>10, Kinds DEF IsMisled
<1>4. KernelOK' /\ UNCHANGED settings
  BY <1>1, KernelKept DEF BackendInv
<1>5. IsRest(b, c, Head(c.todo)) /\ Follows(Head(c.todo), r)
  BY <1>2, <1>3, StepFollows DEF CallOK, RoundsOK
<1>11. PICK u : u = Onward(r, c.todo)
  OBVIOUS
<1>6. u \in Seq(Rounds)
  <2>1. r \in Rounds /\ Head(c.todo) \in Rounds
    BY <1>5, RestTyped
  <2> QED BY <1>2, <1>11, <2>1, Advances
<1>12. PICK e : e = [c EXCEPT !.todo = u]
  OBVIOUS
<1>13. PICK d : d = [e EXCEPT !.undisturbed = FALSE]
  OBVIOUS
<1>7. /\ d \in Call /\ d.name = c.name /\ d.wanted = c.wanted /\ d.todo = u
      /\ d.alone = c.alone /\ ~d.undisturbed
  <2>1. /\ e \in Call /\ e.name = c.name /\ e.wanted = c.wanted /\ e.todo = u /\ e.alone = c.alone
    BY <1>2, <1>6, <1>12, CallGoes
  <2> QED BY <1>13, <2>1, CallDisturbed
<1>8. call' = [call EXCEPT ![b] = d]
  <2>1. call' = [call EXCEPT ![b].todo = Onward(First(b).no \o Rest(b), @), ![b].undisturbed = FALSE]
    BY DEF ProbeMisled
  <2>2. call' = [[call EXCEPT ![b] = e] EXCEPT ![b].undisturbed = FALSE]
    BY <1>10, <1>11, <1>12, <2>1
  <2>3. [call EXCEPT ![b] = e][b] = e
    BY DEF BackendInv, TypeOK
  <2> QED BY <1>13, <2>2, <2>3
<1>9. call[b] # None /\ c = call[b] /\ d.todo = Onward(r, c.todo) /\ (d.undisturbed => c.undisturbed)
  BY <1>2, <1>7, <1>11
<1>20. BackendInv'
  BY <1>2, <1>3, <1>4, <1>7, <1>8, <1>9, GoesKeeps
<1> QED BY <1>2, <1>7, <1>8, <1>9, <1>20, CallTyped, RequestGoesOn

\* A set in which one place is written keeps its type.
LEMMA StageWritten ==
  ASSUME TypeOK, UNCHANGED <<live, chains>>, NEW f \in Families, NEW x \in Content,
         stage' = [stage EXCEPT ![f] = x]
  PROVE  KernelOK'
<1>1. stage' \in [Families -> Content]
  BY DEF TypeOK, Content
<1> QED BY <1>1 DEF TypeOK, KernelOK, chains, Content

\* A call that ends, with the command that failed or without.
LEMMA FailKeeps ==
  ASSUME BackendInv, NEW b \in Backends, Fail(b)
  PROVE  BackendInv'
<1> PICK c : c = call[b]
  OBVIOUS
<1>1. Running(b) /\ UNCHANGED settings /\ call' = [call EXCEPT ![b] = None] /\ TypeOK
  BY DEF Fail, BackendInv
<1>2. /\ c # None /\ First(b) \in Command \cup Question /\ c.wanted \in SUBSET Entries
      /\ call[b] # None
  BY <1>1, NextIs
<1>3. KernelOK'
  <2>1. CASE First(b).op \notin Questions /\ TakesEffect(First(b), c.wanted)
    BY <1>1, <1>2, <2>1, KernelTyped, Kinds
  <2>2. CASE RestoredInPart(First(b), c.wanted)
    <3>1. First(b).op = "restore" /\ UNCHANGED <<live, chains>>
      BY <2>2 DEF RestoredInPart
    <3>2. First(b) \in Command
      BY <1>2, <3>1, Kinds DEF Questions
    <3> PICK f : f = First(b).at[1]
      OBVIOUS
    <3>3. f \in Families
      BY <3>1, <3>2, CommandOps DEF ChainOps
    <3>4. PICK some \in SUBSET Of(c.wanted, f) : stage' = [stage EXCEPT ![f] = stage[f] \cup some]
      BY <2>2 DEF RestoredInPart, Set
    <3>5. stage[f] # None /\ stage[f] \in Content
      BY <1>1, <2>2, <3>3 DEF RestoredInPart, TypeOK
    <3>6. stage[f] \cup some \in Content
      BY <1>2, <3>5, NotNone, FamilySets DEF Content
    <3> QED BY <1>1, <3>1, <3>3, <3>4, <3>6, StageWritten
  <2>3. CASE UNCHANGED <<sets, chains>>
    BY <1>1, <2>3, KernelKept
  <2> QED BY <2>1, <2>2, <2>3 DEF Fail
<1> QED BY <1>1, <1>2, <1>3, EndsKeeps

\* A restore that fails keeps the invariant.
LEMMA RestoreFailsKeeps ==
  ASSUME BackendInv, NEW b \in Backends, RestoreFails(b)
  PROVE  BackendInv'
<1>1. /\ Running(b) /\ UNCHANGED settings /\ call' = [call EXCEPT ![b] = None] /\ TypeOK
      /\ First(b).op = "restore" /\ UNCHANGED <<live, chains>>
  BY DEF RestoreFails, BackendInv
<1> PICK c : c = call[b]
  OBVIOUS
<1>2. c # None /\ First(b) \in Command \cup Question /\ call[b] # None
  BY <1>1, NextIs
<1>3. First(b) \in Command
  BY <1>1, <1>2, Kinds DEF Questions
<1> PICK f : f = First(b).at[1]
  OBVIOUS
<1>4. f \in Families
  BY <1>1, <1>3, CommandOps DEF ChainOps
<1>5. stage' = [stage EXCEPT ![f] = None] /\ None \in Content
  BY DEF RestoreFails, Set, Content
<1>6. KernelOK'
  BY <1>1, <1>4, <1>5, StageWritten
<1> QED BY <1>1, <1>2, <1>6, EndsKeeps

\* A call that returns keeps the invariant.
LEMMA ReturnKeeps ==
  ASSUME BackendInv, NEW b \in Backends, Return(b)
  PROVE  BackendInv'
<1>1. /\ call[b] # None /\ UNCHANGED <<sets, chains, settings>> /\ TypeOK
      /\ call' = [call EXCEPT ![b] = None]
  BY DEF Return, BackendInv
<1>2. KernelOK' /\ UNCHANGED settings
  BY <1>1, KernelKept
<1> QED BY <1>1, <1>2, EndsKeeps

\* The rounds of a call depend on its name, its entries and its list only.
LEMMA SameRounds ==
  ASSUME NEW o, NEW c, NEW d, d.name = c.name, d.wanted = c.wanted, d.todo = c.todo,
         RoundsOK(o, c)
  PROVE  RoundsOK(o, d)
<1>1. /\ \A q : IsRest(o, d, q) <=> IsRest(o, c, q)
      /\ \A q : IsWhole(o, d, q) <=> IsWhole(o, c, q)
  BY DEF IsRest, IsWhole, Ensuring, Restoring, Unhooking, Changes
<1> QED BY <1>1 DEF RoundsOK

\* A round that is in the list is left.
LEMMA LeftThere ==
  ASSUME NEW t \in Seq(Rounds), NEW whole, NEW rests, whole \in rests,
         \E i \in DOMAIN t : t[i] = whole
  PROVE  Left(t, whole, rests)
<1>1. PICK i \in DOMAIN t : t[i] = whole
  OBVIOUS
<1>2. t # <<>>
  BY <1>1
<1>3. t[1] = Head(t) /\ (i = 1 \/ (i - 1 \in DOMAIN Tail(t) /\ Tail(t)[i - 1] = t[i]))
  BY <1>1, <1>2, Members
<1> QED BY <1>1, <1>2, <1>3 DEF Left

\* Calls that begin keep the invariant: all that is to be done is left to do.
LEMMA BeginKeeps ==
  ASSUME BackendInv, NEW b \in Backends, NEW wanted \in SUBSET Entries,
         NEW name \in {"ensure", "reconcile", "disable", "add", "remove"},
         name \in {"add", "remove"} => \E e \in Entries : wanted = {e},
         Begin(b, name, wanted)
  PROVE  BackendInv'
<1>1. PICK t : t = Calls(b, wanted)[name]
  OBVIOUS
<1>2. PICK alone : alone = (Others(b) = {})
  OBVIOUS
<1>3. PICK free : free = (Others(b) = {} /\ ~Doubled)
  OBVIOUS
<1>4. PICK d : d = [name |-> name, wanted |-> wanted, todo |-> t, alone |-> alone, undisturbed |-> free]
  OBVIOUS
<1>5. /\ d.name = name /\ d.wanted = wanted /\ d.todo = t
      /\ d.alone = alone /\ d.undisturbed = free
  BY <1>4
<1>6. /\ TypeOK /\ call \in [Backends -> Call \cup {None}] /\ observing[b] \in BOOLEAN
      /\ call[b] = None /\ UNCHANGED <<sets, chains, settings>> /\ UNCHANGED settings
  BY DEF BackendInv, TypeOK, Begin
<1>7. /\ t \in Seq(Rounds)
      /\ \A i \in DOMAIN t : IsWhole(b, d, t[i])
      /\ Restoring(b, d) =>
           /\ \A f \in Families : \E i \in DOMAIN t : t[i] = RestoreFamily(f)
           /\ \A at \in Places : \E i \in DOMAIN t : t[i] = EnsurePlace(at)
      /\ Unhooking(b, d) => \A at \in Places : \E i \in DOMAIN t : t[i] = RemoveHook(at)
  BY <1>1, <1>5, <1>6, Planned
<1>8. d \in Call
  <2>1. alone \in BOOLEAN /\ free \in BOOLEAN
    BY <1>2, <1>3
  <2> QED BY <1>4, <1>7, <2>1 DEF Call, Rounds
<1>9. call' = [o \in Backends |-> IF o # b THEN Joined(o) ELSE d]
  BY <1>1, <1>2, <1>3, <1>4 DEF Begin
<1>10. call'[b] = d /\ \A o \in Backends : o # b => call'[o] = Joined(o)
  BY <1>9
<1>11. d # None
  BY <1>8, CallAssumption
<1>12. \A o \in Backends : o # b =>
         /\ call[o] = None => call'[o] = None
         /\ call[o] # None => /\ call'[o] \in Call /\ ~call'[o].alone /\ ~call'[o].undisturbed
                              /\ RoundsOK(o, call'[o])
  <2> SUFFICES ASSUME NEW o \in Backends, o # b
               PROVE  /\ call[o] = None => call'[o] = None
                      /\ call[o] # None => /\ call'[o] \in Call /\ ~call'[o].alone
                                           /\ ~call'[o].undisturbed /\ RoundsOK(o, call'[o])
    OBVIOUS
  <2>1. CASE call[o] = None
    BY <1>10, <2>1 DEF Joined
  <2>2. CASE call[o] # None
    <3>1. PICK c : c = call[o]
      OBVIOUS
    <3>2. PICK e : e = [c EXCEPT !.undisturbed = FALSE, !.alone = FALSE]
      OBVIOUS
    <3>3. call'[o] = e
      BY <1>10, <2>2, <3>1, <3>2 DEF Joined
    <3>4. c \in Call /\ RoundsOK(o, c)
      BY <2>2, <3>1, CallIs DEF CallOK
    <3>5. /\ e \in Call /\ e.name = c.name /\ e.wanted = c.wanted /\ e.todo = c.todo
          /\ e.alone = FALSE /\ e.undisturbed = FALSE
      BY <3>2, <3>4, CallJoined
    <3>6. RoundsOK(o, e)
      BY <3>4, <3>5, SameRounds
    <3> QED BY <2>2, <3>3, <3>5, <3>6
  <2> QED BY <2>1, <2>2
<1>13. RoundsOK(b, d)
  <2> SUFFICES ASSUME t # <<>>
               PROVE  IsRest(b, d, Head(t)) /\ \A i \in DOMAIN Tail(t) : IsWhole(b, d, Tail(t)[i])
    BY <1>5 DEF RoundsOK
  <2>1. /\ 1 \in DOMAIN t /\ t[1] = Head(t)
        /\ \A i \in DOMAIN Tail(t) : i + 1 \in DOMAIN t /\ Tail(t)[i] = t[i + 1]
    BY <1>7, Members
  <2> QED BY <1>7, <2>1, WholeIsRest
<1>14. TypeOK'
  <2>1. call' \in [Backends -> Call \cup {None}]
    BY <1>8, <1>9, <1>10, <1>12
  <2>2. \A o \in Backends : call'[o] # None => RoundsOK(o, call'[o])
    BY <1>10, <1>12, <1>13
  <2> QED BY <1>6, <2>1, <2>2, KernelKept, TypedNext
<1>15. \A o \in Backends : o # b /\ call'[o] # None => CallOK(o, call[o])'
  <2> SUFFICES ASSUME NEW o \in Backends, o # b, call'[o] # None PROVE CallOK(o, call[o])'
    OBVIOUS
  <2>1. ~call'[o].alone /\ ~call'[o].undisturbed /\ RoundsOK(o, call'[o])
    BY <1>12
  <2>2. RoundsOK(o, call[o])'
    BY <1>6, <2>1, SettingsKept
  <2> QED BY <2>1, <2>2 DEF CallOK, Solitary, SetsOK, ChainsOK
<1>16. CallOK(b, call[b])'
  <2>1. /\ RoundsOK(b, call[b])' /\ (Restoring(b, call[b])' <=> Restoring(b, d))
        /\ (Unhooking(b, call[b])' <=> Unhooking(b, d))
        /\ \A at : PlaceRests(at)' = PlaceRests(at) /\ EnsurePlace(at)' = EnsurePlace(at)
    BY <1>6, <1>10, <1>13, SettingsKept
  <2>2. Solitary(b, call[b])'
    <3>1. alone => \A o \in Backends : o # b => call[o] = None
      BY <1>2 DEF Others
    <3>2. free => alone
      BY <1>2, <1>3
    <3> QED BY <1>5, <1>10, <1>12, <3>1, <3>2 DEF Solitary
  <2>3. t # <<>> => IsWhole(b, d, Head(t))
    BY <1>7, Members
  <2>4. t # <<>> => /\ Head(Head(t)).op \notin {"restore", "swap", "destroy", "-D hook", "-I hook"}
                    /\ \A at \in Places : Head(t) \in ChainRests(at) => Head(Head(t)).op # "hook?"
    BY <2>3, WholeIsRest
  <2>5. SetsOK(b, call[b])'
    <3> SUFFICES ASSUME Restoring(b, d), NEW f \in Families
                 PROVE  /\ Left(t, RestoreFamily(f), RestoreRests(f))
                        /\ t # <<>> => SetMid(f, wanted, Head(Head(t)).op)'
      BY <1>5, <1>10, <2>1 DEF SetsOK, SetMid
    <3>1. RestoreFamily(f) \in RestoreRests(f)
      BY WholeRounds
    <3>2. Left(t, RestoreFamily(f), RestoreRests(f))
      BY <1>7, <3>1, LeftThere
    <3> QED BY <2>4, <3>2 DEF SetMid
  <2>6. ChainsOK(b, call[b])'
    <3> SUFFICES ASSUME free, NEW at \in Places
                 PROVE  /\ OneHook(at)'
                        /\ t # <<>> /\ Head(t) \in ChainRests(at) => ChainMid(at, Head(Head(t)).op)'
                        /\ Restoring(b, d) => Left(t, EnsurePlace(at), PlaceRests(at))
                        /\ Unhooking(b, d) => Left(t, RemoveHook(at), HookRests(at))
      BY <1>5, <1>10, <2>1 DEF ChainsOK, ChainMid
    <3>1. ~Doubled /\ rules' = rules
      BY <1>3, <1>6 DEF chains
    <3>2. OneHook(at)'
      <4>1. DOMAIN rules[at] = 1..Len(rules[at])
        <5>1. PICK s : s = rules[at]
          OBVIOUS
        <5>2. rules \in [Places -> Seq({"hook", "other"})]
          BY <1>6 DEF TypeOK
        <5>3. s \in Seq({"hook", "other"})
          BY <5>1, <5>2
        <5>4. DOMAIN s = 1..Len(s)
          BY <5>3
        <5> QED BY <5>1, <5>4
      <4>2. \A i, j \in DOMAIN rules[at] : rules[at][i] = "hook" /\ rules[at][j] = "hook" => i = j
        BY <3>1 DEF Doubled
      <4> QED BY <3>1, <4>1, <4>2 DEF OneHook
    <3>3. EnsurePlace(at) \in PlaceRests(at) /\ RemoveHook(at) \in HookRests(at)
      BY PlaceRound
    <3>4. Restoring(b, d) => Left(t, EnsurePlace(at), PlaceRests(at))
      BY <1>7, <3>3, LeftThere
    <3>5. Unhooking(b, d) => Left(t, RemoveHook(at), HookRests(at))
      BY <1>7, <3>3, LeftThere
    <3> QED BY <2>4, <3>2, <3>4, <3>5 DEF ChainMid
  <2> QED BY <2>1, <2>2, <2>5, <2>6 DEF CallOK
<1> QED BY <1>14, <1>15, <1>16 DEF BackendInv

\* A new call keeps the invariant.
LEMMA AsksKeeps ==
  ASSUME BackendInv, NEW b \in Backends, Asks(b)
  PROVE  BackendInv'
<1>1. CASE \E name \in {"ensure", "disable"} : Begin(b, name, {})
  BY <1>1, BeginKeeps
<1>2. CASE \E wanted \in SUBSET Entries : Begin(b, "reconcile", wanted)
  BY <1>2, BeginKeeps
<1>3. CASE \E e \in Entries, name \in {"add", "remove"} : Begin(b, name, {e})
  <2>1. PICK e \in Entries, name \in {"add", "remove"} : Begin(b, name, {e})
    BY <1>3
  <2>2. {e} \in SUBSET Entries
    OBVIOUS
  <2> QED BY <2>1, <2>2, BeginKeeps
<1> QED BY <1>1, <1>2, <1>3 DEF Asks

\* What others do to the chains disturbs every call, and touches no set.
LEMMA DisturbedKeeps ==
  ASSUME BackendInv, UNCHANGED <<sets, settings>>, KernelOK',
         call' = [o \in Backends |-> Disturbed(o)]
  PROVE  BackendInv'
<1>1. /\ TypeOK /\ call \in [Backends -> Call \cup {None}] /\ UNCHANGED settings
      /\ live' = live /\ stage' = stage
  BY DEF BackendInv, TypeOK, sets
<1>2. \A o \in Backends :
        /\ call[o] = None => call'[o] = None
        /\ call[o] # None =>
             /\ call'[o] \in Call /\ call'[o].alone = call[o].alone /\ ~call'[o].undisturbed
             /\ call'[o].name = call[o].name /\ call'[o].wanted = call[o].wanted
             /\ call'[o].todo = call[o].todo
  <2> TAKE o \in Backends
  <2>1. CASE call[o] = None
    BY <2>1 DEF Disturbed
  <2>2. CASE call[o] # None
    <3>1. PICK c : c = call[o]
      OBVIOUS
    <3>2. PICK e : e = [c EXCEPT !.undisturbed = FALSE]
      OBVIOUS
    <3>3. call'[o] = e
      BY <2>2, <3>1, <3>2 DEF Disturbed
    <3>4. c \in Call
      BY <2>2, <3>1, CallIs
    <3>5. /\ e \in Call /\ e.name = c.name /\ e.wanted = c.wanted /\ e.todo = c.todo
          /\ e.alone = c.alone /\ e.undisturbed = FALSE
      BY <3>2, <3>4, CallDisturbed
    <3> QED BY <2>2, <3>1, <3>3, <3>5
  <2> QED BY <2>1, <2>2
<1>3. \A o \in Backends : call'[o] # None => CallOK(o, call[o]) /\ RoundsOK(o, call'[o])
  <2> SUFFICES ASSUME NEW o \in Backends, call'[o] # None
               PROVE  CallOK(o, call[o]) /\ RoundsOK(o, call'[o])
    OBVIOUS
  <2>1. CallOK(o, call[o])
    BY <1>2, CallIs
  <2>2. PICK c : c = call[o]
    OBVIOUS
  <2>3. PICK d : d = call'[o]
    OBVIOUS
  <2>4. d.name = c.name /\ d.wanted = c.wanted /\ d.todo = c.todo /\ RoundsOK(o, c)
    BY <1>2, <2>1, <2>2, <2>3 DEF CallOK
  <2>5. RoundsOK(o, d)
    BY <2>4, SameRounds
  <2> QED BY <2>1, <2>3, <2>5
<1>4. TypeOK'
  <2>1. call' \in [Backends -> Call \cup {None}]
    BY <1>2
  <2> QED BY <1>1, <1>3, <2>1, TypedNext
<1>5. \A o \in Backends : call'[o] # None => CallOK(o, call[o])'
  <2> SUFFICES ASSUME NEW o \in Backends, call'[o] # None PROVE CallOK(o, call[o])'
    OBVIOUS
  <2>1. RoundsOK(o, call[o])' /\ (Restoring(o, call[o])' <=> Restoring(o, call'[o]))
    BY <1>1, <1>3, SettingsKept
  <2>2. PICK c : c = call[o]
    OBVIOUS
  <2>3. PICK d : d = call'[o]
    OBVIOUS
  <2>4. /\ d.name = c.name /\ d.wanted = c.wanted /\ d.todo = c.todo
        /\ d.alone = c.alone /\ ~d.undisturbed /\ CallOK(o, c)
    BY <1>2, <1>3, <2>2, <2>3
  <2>5. Restoring(o, d) <=> Restoring(o, c)
    BY <2>4 DEF Restoring
  <2>6. Solitary(o, call[o])'
    BY <1>2, <2>3, <2>4 DEF CallOK, Solitary
  <2>7. SetsOK(o, call[o])'
    BY <1>1, <2>1, <2>3, <2>4, <2>5 DEF CallOK, SetsOK, Restored, SetMid
  <2>8. ChainsOK(o, call[o])'
    BY <2>3, <2>4 DEF ChainsOK
  <2> QED BY <2>1, <2>6, <2>7, <2>8 DEF CallOK
<1> QED BY <1>4, <1>5 DEF BackendInv

\* The router rebuilds its rules, and others add theirs.
LEMMA FlushKeeps ==
  ASSUME BackendInv, Flush
  PROVE  BackendInv'
<1>1. /\ owned' = [at \in Places |-> "none"] /\ rules' = [at \in Places |-> <<>>]
      /\ call' = [o \in Backends |-> Disturbed(o)] /\ UNCHANGED <<sets, settings>> /\ TypeOK
  BY DEF Flush, BackendInv
<1>2. rules' \in [Places -> Seq({"hook", "other"})] /\ \A at \in Places : ~Contains(rules'[at], "hook")
  BY <1>1 DEF Contains
<1>3. KernelOK'
  BY <1>1, <1>2 DEF KernelOK, TypeOK, sets, Content
<1> QED BY <1>1, <1>3, DisturbedKeeps

\* A rule that somebody else adds keeps the invariant.
LEMMA OtherRuleKeeps ==
  ASSUME BackendInv, NEW at \in Places, OtherRule(at)
  PROVE  BackendInv'
<1> DEFINE H == {"hook", "other"}
           s == rules[at]
           u == Cons("other", s)
<1>1. /\ rules' = [rules EXCEPT ![at] = u] /\ owned' = owned
      /\ call' = [o \in Backends |-> Disturbed(o)] /\ UNCHANGED <<sets, settings>> /\ TypeOK
  BY DEF OtherRule, BackendInv
<1>2. /\ s \in Seq(H) /\ "other" \in H /\ "hook" \in H /\ "hook" # "other"
      /\ rules \in [Places -> Seq(H)]
      /\ \A to \in Places : Contains(rules[to], "hook") => owned[to] # "none"
  BY <1>1 DEF TypeOK
<1> HIDE DEF H
<1>3. u \in Seq(H) /\ (Contains(u, "hook") => Contains(s, "hook"))
  <2> HIDE DEF s
  <2> QED BY <1>2, ConsIs
<1> HIDE DEF u
<1>4. rules' \in [Places -> Seq(H)]
  BY <1>1, <1>2, <1>3
<1>5. \A to \in Places : Contains(rules'[to], "hook") => owned'[to] # "none"
  <2> TAKE to \in Places
  <2>1. CASE to = at
    BY <1>1, <1>2, <1>3, <2>1
  <2>2. CASE to # at
    BY <1>1, <1>2, <2>2
  <2> QED BY <2>1, <2>2
<1>6. KernelOK'
  BY <1>1, <1>4, <1>5 DEF KernelOK, TypeOK, sets, Content, H
<1> QED BY <1>1, <1>6, DisturbedKeeps

\* The invariant is inductive.
LEMMA BackendInit ==
  ASSUME Init PROVE BackendInv
<1>1. call = [b \in Backends |-> None] /\ \A b \in Backends : call[b] = None
  BY DEF Init
<1>2. rules \in [Places -> Seq({"hook", "other"})]
  <2>1. <<>> \in Seq({"hook", "other"}) /\ <<"hook">> \in Seq({"hook", "other"})
    OBVIOUS
  <2> QED BY <2>1 DEF Init
<1>3. \A at \in Places : Contains(rules[at], "hook") => owned[at] # "none"
  BY DEF Init, Contains
<1>4. TypeOK
  BY <1>1, <1>2, <1>3 DEF Init, TypeOK, Content
<1> QED BY <1>1, <1>4 DEF BackendInv

\* Every step keeps the invariant.
LEMMA BackendNext ==
  ASSUME BackendInv, [Next]_vars PROVE BackendInv'
<1>1. CASE UNCHANGED vars
  <2>1. /\ UNCHANGED settings /\ live' = live /\ stage' = stage
        /\ owned' = owned /\ rules' = rules /\ protected' = protected
        /\ observing' = observing /\ call' = call
    BY <1>1 DEF vars, sets, chains, settings
  <2>2. TypeOK'
    BY <2>1 DEF BackendInv, TypeOK, Content
  <2>3. ASSUME NEW o \in Backends, call'[o] # None PROVE CallOK(o, call[o])'
    <3>1. CallOK(o, call[o])
      BY <2>1, <2>3 DEF BackendInv
    <3>2. RoundsOK(o, call[o])'
      BY <2>1, <3>1, SettingsKept DEF CallOK
    <3>3. Solitary(o, call[o])'
      BY <2>1, <3>1 DEF CallOK, Solitary
    <3>4. Restoring(o, call[o])' = Restoring(o, call[o]) /\ Unhooking(o, call[o])' = Unhooking(o, call[o])
      BY <2>1 DEF Restoring, Unhooking
    <3>5. SetsOK(o, call[o])'
      BY <2>1, <3>1, <3>4 DEF CallOK, SetsOK, Restored, SetMid
    <3>6. ChainsOK(o, call[o])'
      <4>1. \A at : PlaceRests(at)' = PlaceRests(at) /\ EnsurePlace(at)' = EnsurePlace(at)
        BY <2>1 DEF PlaceRests, EnsurePlace
      <4>2. \A at : /\ OneHook(at)' <=> OneHook(at)
                    /\ Hooked(at)' <=> Hooked(at)
                    /\ Unhooked(at)' <=> Unhooked(at)
        BY <2>1 DEF OneHook, Hooked, Unhooked
      <4>3. \A at, op : ChainMid(at, op)' <=> ChainMid(at, op)
        BY <2>1, <4>2 DEF ChainMid
      <4> QED BY <2>1, <3>1, <3>4, <4>1, <4>2, <4>3 DEF CallOK, ChainsOK
    <3> QED BY <3>2, <3>3, <3>5, <3>6 DEF CallOK
  <2> QED BY <2>2, <2>3 DEF BackendInv
<1>2. CASE \E b \in Backends : \/ Asks(b) \/ Run(b) \/ Probe(b) \/ ProbeMisled(b)
                               \/ Fail(b) \/ RestoreFails(b) \/ Return(b)
  BY <1>2, AsksKeeps, RunKeeps, ProbeKeeps, ProbeMisledKeeps, FailKeeps, RestoreFailsKeeps,
     ReturnKeeps
<1>3. CASE Flush \/ \E at \in Places : OtherRule(at)
  BY <1>3, FlushKeeps, OtherRuleKeeps
<1> QED BY <1>1, <1>2, <1>3 DEF Next

\* The invariant, and what it says to a reader.
THEOREM BackendInvariant == Spec => []BackendInv
BY BackendInit, BackendNext, PTL DEF Spec

\* A call with nothing left has done all of it.
LEMMA WordHeld ==
  ASSUME BackendInv PROVE CallsHoldWord
<1> SUFFICES ASSUME NEW b \in Backends, call[b] # None, call[b].todo = <<>>, call[b].undisturbed
    PROVE  /\ Restoring(b, call[b]) =>
                /\ \A f \in Families : live[f] = Of(call[b].wanted, f) /\ stage[f] = None
                /\ \A at \in Places : IF at[2] \in protected THEN Hooked(at) ELSE Unhooked(at)
           /\ Unhooking(b, call[b]) => \A at \in Places : Unhooked(at)
  BY DEF CallsHoldWord, Restoring, Unhooking
<1>1. CallOK(b, call[b])
  BY CallIs
<1>2. call[b].alone
  BY <1>1 DEF CallOK, Solitary
<1> QED BY <1>1, <1>2 DEF CallOK, SetsOK, ChainsOK, Left, Restored

\* What adding or deleting an entry does to the set.
LEMMA OneEffect ==
  ASSUME TypeOK, NEW f \in Families, NEW c, c.op \in {"add", "del"}, c.at = <<f, "set">>,
         NEW wanted, TakesEffect(c, wanted)
  PROVE  \/ live[f] # None /\ live' = [live EXCEPT ![f] = live[f] \cup wanted]
         \/ live[f] # None /\ live' = [live EXCEPT ![f] = live[f] \ wanted]
<1>1. c.at[1] = f
  OBVIOUS
<1>2. CASE c.op = "add"
  BY <1>1, <1>2 DEF TypeOK, TakesEffect, Accepted, OnSets, Set
<1>3. CASE c.op = "del"
  BY <1>1, <1>3 DEF TypeOK, TakesEffect, Accepted, OnSets, Set
<1> QED BY <1>2, <1>3

\* What a command may do to the sets in service, and what its call asked for.
LEMMA LiveStep ==
  ASSUME BackendInv, NEW b \in Backends, Running(b), First(b).op \notin Questions,
         TakesEffect(First(b), call[b].wanted), Sets!MayAnswer(b)
  PROVE  \/ live' = live
         \/ \E f \in Families : Sets!Create(b, f) \/ Sets!Replace(b, f) \/ Sets!ChangeOne(b, f)
<1> PICK c : c = call[b]
  OBVIOUS
<1> PICK q : q = Head(c.todo)
  OBVIOUS
<1>1. /\ c # None /\ c.todo # <<>> /\ c \in Call /\ CallOK(b, c)
      /\ First(b) = Head(q) /\ First(b) \in Command \cup Question
      /\ c.wanted \in SUBSET Entries
  BY NextIs
<1>2. Head(q) \in Command /\ TakesEffect(Head(q), c.wanted)
  BY <1>1, Kinds
<1>3. IsRest(b, c, q)
  BY <1>1 DEF CallOK, RoundsOK
<1>4. /\ Requests[b] # None /\ Requests[b] = RequestOf(c)
      /\ Requests[b].kind = "replace" <=> c.name = "reconcile"
      /\ Requests[b].kind = "one" <=> c.name \in {"add", "remove"}
      /\ Requests[b].alone = c.alone
      /\ \A f \in Families : Requests[b].wanted[f] = Of(c.wanted, f)
  BY <1>1, Asked, RequestIs
<1>5. TypeOK /\ live \in [Families -> Content] /\ stage \in [Families -> Content]
  BY DEF BackendInv, TypeOK
<1>6. CASE \E f \in Families : q \in SetRests(f)
  <2>1. PICK f \in Families : q \in SetRests(f)
    BY <1>6
  <2>2. Head(q).at = <<f, "set">> /\ Head(q).op \in {"create", "list"} /\ Head(q).op \in SetOps
    BY <2>1, SetRound DEF SetOps
  <2>3. CASE Head(q).op = "create" /\ live[f] = None
    <3>1. live' = [live EXCEPT ![f] = {}]
      BY <1>2, <1>5, <2>2, <2>3, SetEffect
    <3> QED BY <1>4, <2>3, <3>1 DEF Sets!Create
  <2>4. CASE ~(Head(q).op = "create" /\ live[f] = None)
    <3>1. CASE Head(q).op = "list"
      BY <1>2, <1>5, <2>2, <3>1, SetEffect
    <3>2. CASE Head(q).op = "create"
      <4>1. live' = [live EXCEPT ![f] = live[f]]
        BY <1>2, <1>5, <2>2, <2>4, <3>2, SetEffect
      <4> QED BY <1>5, <4>1
    <3> QED BY <2>2, <3>1, <3>2
  <2> QED BY <2>3, <2>4
<1>7. CASE Restoring(b, c) /\ \E f \in Families : q \in RestoreRests(f)
  <2>1. PICK f \in Families : q \in RestoreRests(f)
    BY <1>7
  <2>2. /\ Head(q).at = <<f, "set">> /\ Head(q).op \in SetOps
        /\ Head(q).op \in {"try destroy", "make", "restore", "swap", "destroy"}
    BY <2>1, RestoreRound DEF SetOps
  <2>3. CASE Head(q).op = "swap"
    <3>1. stage[f] # None /\ live[f] # None /\ live' = [live EXCEPT ![f] = stage[f]]
      BY <1>2, <1>5, <2>2, <2>3, SetEffect
    <3>2. stage[f] \in SUBSET Entries
      BY <1>5, <3>1, NotNone
    <3>3. c.alone => stage[f] = Of(c.wanted, f)
      BY <1>1, <1>7, <2>1, <2>3 DEF CallOK, SetsOK, SetMid
    <3>4. Requests[b].kind = "replace"
      BY <1>4, <1>7 DEF Restoring
    <3>5. Requests[b].alone => stage[f] = Requests[b].wanted[f]
      BY <1>4, <3>3
    <3> QED BY <1>4, <3>1, <3>2, <3>4, <3>5 DEF Sets!Replace
  <2>4. CASE Head(q).op # "swap"
    <3>1. live' = live
      BY <1>2, <1>5, <2>2, <2>4, SetEffect
    <3> QED BY <3>1
  <2> QED BY <2>3, <2>4
<1>8. CASE Changes("add", "add", b, c, q) \/ Changes("del", "remove", b, c, q)
  <2>1. PICK e \in Entries, op \in {"add", "del"} :
          c.wanted = {e} /\ q = <<SetCmd(op, FamilyOf[e])>> /\ c.name \in {"add", "remove"}
    BY <1>8 DEF Changes
  <2>2. PICK f \in Families : f = FamilyOf[e]
    BY BackendAssumption
  <2>3. Head(q).at = <<f, "set">> /\ Head(q).op = op /\ Head(q).op \in SetOps
    BY <2>1, <2>2, OneRound DEF SetOps
  <2>4. \/ live[f] # None /\ live' = [live EXCEPT ![f] = live[f] \cup {e}]
        \/ live[f] # None /\ live' = [live EXCEPT ![f] = live[f] \ {e}]
    <3>1. PICK x : x = Head(q)
      OBVIOUS
    <3>2. PICK w : w = c.wanted
      OBVIOUS
    <3>3. x.op \in {"add", "del"} /\ x.at = <<f, "set">>
      BY <2>3, <3>1
    <3>4. w = {e} /\ TakesEffect(x, w) /\ TypeOK
      BY <1>2, <1>5, <2>1, <3>1, <3>2
    <3>5. \/ live[f] # None /\ live' = [live EXCEPT ![f] = live[f] \cup w]
          \/ live[f] # None /\ live' = [live EXCEPT ![f] = live[f] \ w]
      BY <3>3, <3>4, OneEffect
    <3> QED BY <3>4, <3>5, Zenon
  <2>5. e \in Requests[b].wanted[f]
    BY <1>4, <2>1, <2>2 DEF Of
  <2>6. Requests[b].kind = "one"
    BY <1>4, <2>1
  <2>7. Sets!ChangeOne(b, f)
    BY <1>4, <2>4, <2>5, <2>6 DEF Sets!ChangeOne
  <2> QED BY <2>7
<1>9. CASE \E at \in Places : q \in ChainRests(at) \/ q \in HookRests(at)
  <2>1. PICK at \in Places : q \in ChainRests(at) \/ q \in HookRests(at)
    BY <1>9
  <2>2. Head(q).op \in ChainOps
    <3>1. Head(q).op \notin Questions
      BY <1>1
    <3>2. CASE q \in ChainRests(at)
      BY <2>1, <3>1, <3>2, ChainRound DEF ChainOps, Questions
    <3>3. CASE q \in HookRests(at)
      BY <2>1, <3>1, <3>3, HookRound DEF ChainOps, Questions
    <3> QED BY <2>1, <3>2, <3>3
  <2>3. live' = live
    BY <1>2, <2>2, Elsewhere DEF sets
  <2> QED BY <2>3
<1> QED BY <1>3, <1>6, <1>7, <1>8, <1>9 DEF IsRest, PlaceRests

\* The call that begins, and the others, which are no longer alone.
LEMMA Begun ==
  ASSUME BackendInv, NEW b \in Backends, NEW wanted \in SUBSET Entries,
         NEW name \in {"ensure", "reconcile", "disable", "add", "remove"},
         name \in {"add", "remove"} => \E e \in Entries : wanted = {e},
         Begin(b, name, wanted)
  PROVE  \E d \in Call :
           /\ d # None /\ d.wanted = wanted /\ d.alone = (Others(b) = {})
           /\ call' = [o \in Backends |-> IF o # b THEN Joined(o) ELSE d]
<1>1. PICK t : t = Calls(b, wanted)[name]
  OBVIOUS
<1>2. PICK alone : alone = (Others(b) = {})
  OBVIOUS
<1>3. PICK free : free = (Others(b) = {} /\ ~Doubled)
  OBVIOUS
<1>4. PICK d : d = [name |-> name, wanted |-> wanted, todo |-> t, alone |-> alone, undisturbed |-> free]
  OBVIOUS
<1>5. d.name = name /\ d.wanted = wanted /\ d.alone = alone
  BY <1>4
<1>6. observing[b] \in BOOLEAN
  BY DEF BackendInv, TypeOK
<1>7. t \in Seq(Rounds)
  BY <1>1, <1>5, <1>6, Planned
<1>8. d \in Call
  <2>1. alone \in BOOLEAN /\ free \in BOOLEAN
    BY <1>2, <1>3
  <2> QED BY <1>4, <1>7, <2>1 DEF Call, Rounds
<1>9. call' = [o \in Backends |-> IF o # b THEN Joined(o) ELSE d]
  BY <1>1, <1>2, <1>3, <1>4 DEF Begin
<1>10. d # None
  BY <1>8, CallAssumption
<1> QED BY <1>2, <1>5, <1>8, <1>9, <1>10

\* A call that begins asks for what KernelSets lets it ask for.
LEMMA BeginAsks ==
  ASSUME BackendInv, NEW b \in Backends, NEW wanted \in SUBSET Entries,
         NEW name \in {"ensure", "reconcile", "disable", "add", "remove"},
         name \in {"add", "remove"} => \E e \in Entries : wanted = {e},
         Begin(b, name, wanted)
  PROVE  Sets!Ask(b)
<1>1. PICK d \in Call :
        /\ d # None /\ d.wanted = wanted /\ d.alone = (Others(b) = {})
        /\ call' = [o \in Backends |-> IF o # b THEN Joined(o) ELSE d]
  BY Begun
<1>2. call[b] = None /\ live' = live
  BY DEF Begin, sets
<1>3. PICK k : k = RequestOf(d).kind
  OBVIOUS
<1>4. PICK w : w = RequestOf(d).wanted
  OBVIOUS
<1>5. PICK a : a = d.alone
  OBVIOUS
<1>6. RequestOf(d) = [kind |-> k, wanted |-> w, alone |-> a]
  BY <1>3, <1>4, <1>5 DEF RequestOf
<1>7. k \in Sets!Kinds /\ w \in [Families -> SUBSET Entries] /\ RequestOf(d) # None
  <2>1. RequestOf(d) \in Sets!Request /\ RequestOf(d) # None
    BY RequestIs
  <2> QED BY <1>3, <1>4, <2>1 DEF Sets!Request
<1>8. a = (\A o \in Backends : Requests[o] = None)
  <2>1. Others(b) = {} <=> \A o \in Backends : call[o] = None
    BY <1>2 DEF Others
  <2>2. (\A o \in Backends : call[o] = None) <=> \A o \in Backends : Requests[o] = None
    BY Asked
  <2> QED BY <1>1, <1>5, <2>1, <2>2
<1>9. \A o \in Backends : Requests'[o] =
        IF o = b THEN RequestOf(d)
        ELSE IF Requests[o] = None THEN None ELSE [Requests[o] EXCEPT !.alone = FALSE]
  <2> TAKE o \in Backends
  <2>1. CASE o = b
    BY <1>1, <2>1, RequestsAre
  <2>2. CASE o # b /\ call[o] = None
    <3>1. call'[o] = None
      BY <1>1, <2>2 DEF Joined
    <3> QED BY <2>2, <3>1, Asked, RequestsAre
  <2>3. CASE o # b /\ call[o] # None
    <3>1. PICK c : c = call[o]
      OBVIOUS
    <3>2. PICK e : e = [c EXCEPT !.undisturbed = FALSE, !.alone = FALSE]
      OBVIOUS
    <3>3. call'[o] = e
      BY <1>1, <2>3, <3>1, <3>2 DEF Joined
    <3>4. c \in Call /\ Requests[o] = RequestOf(c) /\ Requests[o] # None
      BY <2>3, <3>1, Asked
    <3>5. e \in Call /\ e.name = c.name /\ e.wanted = c.wanted /\ e.alone = FALSE
      BY <3>2, <3>4, CallJoined
    <3>6. RequestOf(e) = [RequestOf(c) EXCEPT !.alone = FALSE]
      BY <3>5, JoinedRequest
    <3>7. Requests'[o] = RequestOf(e)
      BY <3>3, <3>5, CallAssumption, RequestsAre
    <3> QED BY <2>3, <3>4, <3>6, <3>7
  <2> QED BY <2>1, <2>2, <2>3
<1>10. Requests' = [o \in Backends |->
         IF o = b THEN [kind |-> k, wanted |-> w, alone |-> \A p \in Backends : Requests[p] = None]
         ELSE IF Requests[o] = None THEN None ELSE [Requests[o] EXCEPT !.alone = FALSE]]
  <2>1. Requests' = [o \in Backends |->
          IF o = b THEN RequestOf(d)
          ELSE IF Requests[o] = None THEN None ELSE [Requests[o] EXCEPT !.alone = FALSE]]
    BY <1>9, RequestsAre
  <2> QED BY <1>6, <1>8, <2>1
<1>11. Requests[b] = None /\ Requests'[b] # None
  BY <1>2, <1>7, <1>9, Asked
<1> QED BY <1>2, <1>7, <1>10, <1>11 DEF Sets!Ask

\* A new call asks the abstract sets.
LEMMA AsksAsk ==
  ASSUME BackendInv, NEW b \in Backends, Asks(b)
  PROVE  Sets!Ask(b)
<1>1. CASE \E name \in {"ensure", "disable"} : Begin(b, name, {})
  BY <1>1, BeginAsks
<1>2. CASE \E wanted \in SUBSET Entries : Begin(b, "reconcile", wanted)
  BY <1>2, BeginAsks
<1>3. CASE \E e \in Entries, name \in {"add", "remove"} : Begin(b, name, {e})
  <2>1. PICK e \in Entries, name \in {"add", "remove"} : Begin(b, name, {e})
    BY <1>3
  <2>2. {e} \in SUBSET Entries
    OBVIOUS
  <2> QED BY <2>1, <2>2, BeginAsks
<1> QED BY <1>1, <1>2, <1>3 DEF Asks

\* A command is one step on the sets, or none.
LEMMA RunChanges ==
  ASSUME BackendInv, NEW b \in Backends, Run(b)
  PROVE  [Sets!Next]_<<live, Requests>>
<1>1. Requests' = Requests /\ Sets!MayAnswer(b)
  BY RunKeeps DEF Sets!MayAnswer
<1>2. \/ live' = live
      \/ \E f \in Families : Sets!Create(b, f) \/ Sets!Replace(b, f) \/ Sets!ChangeOne(b, f)
  BY <1>1, LiveStep DEF Run
<1> QED BY <1>1, <1>2 DEF Sets!Next

\* An answer that comes with no change of the sets in service.
LEMMA EndAnswers ==
  ASSUME BackendInv, NEW b \in Backends, call[b] # None, call' = [call EXCEPT ![b] = None],
         live' = live
  PROVE  Sets!Answer(b)
<1>1. Requests' = [Requests EXCEPT ![b] = None]
  BY RequestEnds
<1>2. Requests[b] # None /\ Requests'[b] = None
  BY <1>1, Asked, RequestsAre
<1> QED BY <1>1, <1>2 DEF Sets!Answer

\* A call that fails answers, maybe with the effect of its last command.
LEMMA FailAnswers ==
  ASSUME BackendInv, NEW b \in Backends, Fail(b)
  PROVE  Sets!Next
<1>1. Running(b) /\ call[b] # None /\ call' = [call EXCEPT ![b] = None]
  BY DEF Fail, Running
<1>2. CASE live' = live
  BY <1>1, <1>2, EndAnswers DEF Sets!Next
<1>3. CASE First(b).op \notin Questions /\ TakesEffect(First(b), call[b].wanted)
  <2>1. Sets!MayAnswer(b)
    BY <1>1, RequestEnds DEF Sets!MayAnswer
  <2> QED BY <1>1, <1>2, <1>3, <2>1, LiveStep DEF Sets!Next
<1>4. CASE RestoredInPart(First(b), call[b].wanted) \/ UNCHANGED <<sets, chains>>
  BY <1>2, <1>4 DEF RestoredInPart, sets
<1> QED BY <1>3, <1>4 DEF Fail

\* A step that disturbs every call asks for nothing.
LEMMA DisturbedAsks ==
  ASSUME BackendInv, call' = [o \in Backends |-> Disturbed(o)]
  PROVE  Requests' = Requests
<1>1. \A o \in Backends :
        /\ call'[o] = None <=> call[o] = None
        /\ call[o] # None => /\ call'[o].name = call[o].name /\ call'[o].wanted = call[o].wanted
                             /\ call'[o].alone = call[o].alone
  <2> TAKE o \in Backends
  <2>1. CASE call[o] = None
    BY <2>1 DEF Disturbed
  <2>2. CASE call[o] # None
    <3>1. PICK c : c = call[o]
      OBVIOUS
    <3>2. PICK e : e = [c EXCEPT !.undisturbed = FALSE]
      OBVIOUS
    <3>3. call'[o] = e
      BY <2>2, <3>1, <3>2 DEF Disturbed
    <3>4. c \in Call
      BY <2>2, <3>1, CallIs
    <3>5. e \in Call /\ e.name = c.name /\ e.wanted = c.wanted /\ e.alone = c.alone
      BY <3>2, <3>4, CallDisturbed
    <3> QED BY <2>2, <3>1, <3>3, <3>5, CallAssumption
  <2> QED BY <2>1, <2>2
<1> QED BY <1>1, RequestsKept

\* The refinement: initial states, and steps.
LEMMA SetsInit ==
  ASSUME Init PROVE Sets!Init
BY RequestsAre DEF Init, Sets!Init

\* Every step is a step of the abstract sets or leaves them as they are.
LEMMA SetsNext ==
  ASSUME BackendInv, [Next]_vars PROVE [Sets!Next]_<<live, Requests>>
<1>1. CASE UNCHANGED vars
  <2>1. live' = live /\ call' = call
    BY <1>1 DEF vars, sets
  <2>2. Requests' = Requests
    BY <2>1, RequestsAre
  <2> QED BY <2>1, <2>2
<1>2. ASSUME NEW b \in Backends, Asks(b) PROVE [Sets!Next]_<<live, Requests>>
  BY <1>2, AsksAsk DEF Sets!Next
<1>3. ASSUME NEW b \in Backends, Run(b) PROVE [Sets!Next]_<<live, Requests>>
  BY <1>3, RunChanges
<1>4. ASSUME NEW b \in Backends, Probe(b) \/ ProbeMisled(b) PROVE [Sets!Next]_<<live, Requests>>
  <2>1. live' = live
    BY <1>4 DEF Probe, ProbeMisled, sets
  <2>2. Requests' = Requests
    BY <1>4, ProbeKeeps, ProbeMisledKeeps
  <2> QED BY <2>1, <2>2
<1>5. ASSUME NEW b \in Backends, Fail(b) PROVE [Sets!Next]_<<live, Requests>>
  BY <1>5, FailAnswers
<1>6. ASSUME NEW b \in Backends, RestoreFails(b) \/ Return(b)
      PROVE  [Sets!Next]_<<live, Requests>>
  <2>1. call[b] # None /\ call' = [call EXCEPT ![b] = None] /\ live' = live
    BY <1>6 DEF RestoreFails, Return, Running, sets
  <2> QED BY <2>1, EndAnswers DEF Sets!Next
<1>7. ASSUME Flush \/ \E at \in Places : OtherRule(at) PROVE [Sets!Next]_<<live, Requests>>
  <2>1. live' = live /\ call' = [o \in Backends |-> Disturbed(o)]
    BY <1>7 DEF Flush, OtherRule, sets
  <2>2. Requests' = Requests
    BY <2>1, DisturbedAsks
  <2> QED BY <2>1, <2>2
<1> QED BY <1>1, <1>2, <1>3, <1>4, <1>5, <1>6, <1>7 DEF Next

\* Whatever commands fail, whatever is killed and however calls overlap, the sets in service
\* change by one entry or are replaced as a whole, and a reconciliation that is alone puts
\* there exactly what it was asked for (restore_family's staging set and swap).
THEOREM BackendReplacesWhole == Spec => SetsReplacedWhole
<1>1. Init => Sets!Init
  BY SetsInit
<1>2. BackendInv /\ [Next]_vars => [Sets!Next]_<<live, Requests>>
  BY SetsNext
<1> QED BY <1>1, <1>2, BackendInvariant, PTL DEF Spec, SetsReplacedWhole, Sets!Spec

\* The types, for any number of engines, families, chains and entries; and an engine in
\* observe-only mode runs no command but those that remove hooks.
THEOREM BackendTypeCorrect == Spec => []TypeOK
<1>1. BackendInv => TypeOK
  BY DEF BackendInv
<1> QED BY <1>1, BackendInvariant, PTL

\* A call that was not disturbed and returns has done what it is for (reconcile, ensure and
\* disable of CommandIpSet), however many commands it takes.
THEOREM CallsKeepWord == Spec => []CallsHoldWord
<1>1. BackendInv => CallsHoldWord
  BY WordHeld
<1> QED BY <1>1, BackendInvariant, PTL

(* ------------------------ the two parts of the run ---------------------- *)

\* CertificateDefinitionsProofs, for the definitions of the run.
Proved == INSTANCE CertificateDefinitionsProofs WITH Definition <- MCDefinition

\* Both parts, at a step of either.
BothInv == BackendInv /\ Proved!DefinitionsInv

\* The run's instance of CertificateDefinitions is the one that is proved about.
LEMMA SameDefinitions ==
  /\ Definitions!Init => Proved!Init
  /\ Definitions!Next => Proved!Next
  /\ definitionVars = Proved!vars
  /\ Definitions!TypeOK <=> Proved!TypeOK
  /\ Definitions!DefinitionsAgree <=> Proved!DefinitionsAgree
<1> USE DEF Definitions!Step, Proved!Step, Definitions!Name, Proved!Name, Definitions!Host,
    Proved!Host, Definitions!Goes, Proved!Goes, Definitions!End, Proved!End,
    Definitions!Idle, Proved!Idle, Definitions!Store, Proved!Store, Definitions!Request,
    Proved!Request, Definitions!Defined, Proved!Defined, Definitions!Names, Proved!Names,
    Definitions!Routes, Proved!Routes, Definitions!RoutesOf, Proved!RoutesOf,
    Definitions!Disturbed, Proved!Disturbed
<1>1. Definitions!Init => Proved!Init
  BY DEF Definitions!Init, Proved!Init
<1>2. Definitions!Next => Proved!Next
  <2> SUFFICES ASSUME Definitions!Next PROVE Proved!Next
    OBVIOUS
  <2>1. \A c \in Client, new \in MCDefinition :
          Definitions!CheckCreate(c, new) => Proved!CheckCreate(c, new)
    BY DEF Definitions!CheckCreate, Proved!CheckCreate
  <2>2. \A c \in Client, i \in Id, new \in MCDefinition :
          Definitions!CheckUpdate(c, i, new) => Proved!CheckUpdate(c, i, new)
    BY DEF Definitions!CheckUpdate, Proved!CheckUpdate
  <2>3. \A c \in Client, i \in Id : Definitions!Delete(c, i) => Proved!Delete(c, i)
    BY DEF Definitions!Delete, Proved!Delete
  <2>4. \A c \in Client :
          /\ Definitions!Add(c) => Proved!Add(c)
          /\ Definitions!Replace(c) => Proved!Replace(c)
          /\ Definitions!Save(c) => Proved!Save(c)
          /\ Definitions!SaveFails(c) => Proved!SaveFails(c)
    BY DEF Definitions!Add, Proved!Add, Definitions!Replace, Proved!Replace, Definitions!Save,
       Proved!Save, Definitions!SaveFails, Proved!SaveFails, Definitions!Fresh, Proved!Fresh
  <2>5. \A c \in Client :
          /\ Definitions!SiteChanged(c) => Proved!SiteChanged(c)
          /\ Definitions!ReadRoutes(c) => Proved!ReadRoutes(c)
          /\ Definitions!WriteRoutes(c) => Proved!WriteRoutes(c)
          /\ Definitions!RouteFails(c) => Proved!RouteFails(c)
          /\ Definitions!HangUp(c) => Proved!HangUp(c)
    BY DEF Definitions!SiteChanged, Proved!SiteChanged, Definitions!ReadRoutes,
       Proved!ReadRoutes, Definitions!WriteRoutes, Proved!WriteRoutes, Definitions!RouteFails,
       Proved!RouteFails, Definitions!HangUp, Proved!HangUp
  <2>6. \A i \in Id : Definitions!Issue(i) => Proved!Issue(i)
    BY DEF Definitions!Issue, Proved!Issue
  <2>7. \A n \in Definitions!Name : Definitions!FilesChange(n) => Proved!FilesChange(n)
    BY DEF Definitions!FilesChange, Proved!FilesChange
  <2>8. Definitions!Restart => Proved!Restart
    BY DEF Definitions!Restart, Proved!Restart, Definitions!Loads, Proved!Loads,
       Definitions!Discovered, Proved!Discovered, Definitions!Cardinality, Proved!Cardinality
  <2> QED BY <2>1, <2>2, <2>3, <2>4, <2>5, <2>6, <2>7, <2>8 DEF Definitions!Next, Proved!Next
<1>3. definitionVars = Proved!vars
  BY DEF definitionVars, Proved!vars
<1>4. Definitions!TypeOK <=> Proved!TypeOK
  BY DEF Definitions!TypeOK, Proved!TypeOK
<1>5. Definitions!DefinitionsAgree <=> Proved!DefinitionsAgree
  BY DEF Definitions!DefinitionsAgree, Proved!DefinitionsAgree
<1> QED BY <1>1, <1>2, <1>3, <1>4, <1>5

\* The invariant of the module that the run checks.
LEMMA BothInvariant == BothSpec => []BothInv
<1>1. BothInit => BothInv
  <2>1. Init => BackendInv
    BY BackendInit
  <2>2. Definitions!Init => Proved!DefinitionsInv
    BY SameDefinitions, Proved!DefinitionsInit
  <2> QED BY <2>1, <2>2 DEF BothInit, BothInv
<1>2. BothInv /\ [BothNext]_<<part, vars, definitionVars>> => BothInv'
  <2> SUFFICES ASSUME BothInv, [BothNext]_<<part, vars, definitionVars>> PROVE BothInv'
    OBVIOUS
  <2>1. [Next]_vars
    BY DEF BothNext
  <2>2. [Proved!Next]_(Proved!vars)
    BY SameDefinitions DEF BothNext, definitionVars, Proved!vars
  <2>3. BackendInv'
    BY <2>1, BackendNext DEF BothInv
  <2>4. Proved!DefinitionsInv'
    BY <2>2, Proved!DefinitionsNext DEF BothInv
  <2> QED BY <2>3, <2>4 DEF BothInv
<1> QED BY <1>1, <1>2, PTL DEF BothSpec

\* The types of both parts of the run.
THEOREM BothTypesCorrect == BothSpec => []BothTypeOK
<1>1. BothInv => BothTypeOK
  BY SameDefinitions DEF BothInv, BackendInv, Proved!DefinitionsInv, BothTypeOK
<1> QED BY <1>1, BothInvariant, PTL

\* List, file and forwarder agree, in the run's instance as in every other.
THEOREM DefinitionsAgreeAlways == BothSpec => []DefinitionsAgree
<1>1. BothInv => DefinitionsAgree
  <2> SUFFICES ASSUME BothInv PROVE DefinitionsAgree
    OBVIOUS
  <2>1. Proved!DefinitionsAgree
    BY DEF BothInv, Proved!DefinitionsInv, Proved!SavedInv, Proved!RoutesInv, Proved!Busy,
       Proved!DefinitionsAgree
  <2> QED BY <2>1, SameDefinitions DEF DefinitionsAgree
<1> QED BY <1>1, BothInvariant, PTL

=============================================================================

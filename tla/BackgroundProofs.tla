-------------------------- MODULE BackgroundProofs --------------------------
(***************************************************************************)
(* What LogTailer promises for any number of files, lines and truncations, *)
(* what CertificateOperations does for any number of processes of the      *)
(* administrator, of certificates due, of hang-ups and of restarts, and    *)
(* with them the two parts of MCBackground.                                *)
(*                                                                         *)
(* LinesReadOnce speaks of what was returned. That a line is not returned  *)
(* again is due to where the tailer reads next: OnceInv says that nothing  *)
(* behind an offset is known, of a line that was returned or that the poll *)
(* has read so far. A file is read from its beginning again only when its  *)
(* text does not look as it did; so either nothing in it is known, or the  *)
(* anchor is what the text has at the offset (Followed). For that the text *)
(* itself is in order: TextInv. CalmInv says the same of whole lines: what *)
(* is pending is the part of a line that the text has before the offset    *)
(* (Parsed), or the file was truncated and the next poll will notice       *)
(* (Stale).                                                                *)
(*                                                                         *)
(* WorksAlone does not follow from dehydrated's lock file alone: Clean and *)
(* Remove take the file away whoever created it. It follows from the       *)
(* order of an operation's steps. Accept saw no process at all, so that    *)
(* until Clean only the operation's own and those the administrator starts *)
(* meanwhile can be there, and nobody but the one that works removes the   *)
(* file. GuardInv says this, step by step of the guard.                    *)
(***************************************************************************)
EXTENDS MCBackground, FiniteSetTheorems, SequenceTheorems, WellFoundedInduction, TLAPS

(* ------------------------------ induction ------------------------------ *)

(* In every collection of subsets of a finite set one is minimal. This     *)
(* takes the place of induction: the smallest counterexample is refuted.   *)
LEMMA Minimal ==
  ASSUME NEW S, IsFiniteSet(S), NEW Bad \in SUBSET (SUBSET S), Bad # {}
  PROVE  \E T \in Bad : \A U \in Bad : ~(U \subseteq T /\ U # T)
<1> DEFINE R == StrictSubsetOrdering(S)
<1>1. IsWellFoundedOn(R, SUBSET S)
  BY FS_StrictSubsetOrderingWellFounded, FS_FiniteSubsetsOfFinite
<1>2. R = {ss \in (SUBSET S) \X (SUBSET S) : ss[1] \subseteq ss[2] /\ ss[1] # ss[2]}
  BY DEF StrictSubsetOrdering
<1> HIDE DEF R
<1>3. PICK T \in Bad : \A U \in Bad : ~(<<U, T>> \in R)
  BY <1>1, WFMin
<1>4. \A U \in Bad : <<U, T>> \in (SUBSET S) \X (SUBSET S)
  OBVIOUS
<1>5. \A U \in Bad : ~(U \subseteq T /\ U # T)
  BY <1>2, <1>3, <1>4
<1> QED BY <1>5

(* A step at a time reaches every number: were one missing, the interval   *)
(* of the numbers up to a missing one would be minimal for some n.         *)
LEMMA NatInduct ==
  ASSUME NEW n \in Nat, NEW S, 0 \in S, \A k \in 0..n : k \in S /\ k < n => k + 1 \in S
  PROVE  n \in S
<1> SUFFICES ASSUME n \notin S PROVE FALSE
  OBVIOUS
<1> DEFINE B == 0..n
           Bad == {T \in SUBSET B : \E m \in 0..n : m \notin S /\ T = 0..m}
<1>1. IsFiniteSet(B)
  BY FS_Interval
<1>2. Bad \in SUBSET (SUBSET B) /\ Bad # {}
  <2>1. B \in Bad
    OBVIOUS
  <2> QED BY <2>1
<1>3. PICK T \in Bad : \A U \in Bad : ~(U \subseteq T /\ U # T)
  <2> HIDE DEF B, Bad
  <2> QED BY <1>1, <1>2, Minimal
<1>4. PICK m \in 0..n : m \notin S /\ T = 0..m
  OBVIOUS
<1>5. m # 0 /\ m - 1 \in 0..n /\ m - 1 < n
  BY <1>4
<1>6. m - 1 \notin S
  BY <1>4, <1>5
<1>7. (0..(m - 1)) \in Bad
  BY <1>5, <1>6
<1>8. (0..(m - 1)) \subseteq T /\ m \in T /\ m \notin 0..(m - 1)
  BY <1>4, <1>5
<1> QED BY <1>3, <1>7, <1>8

(* -------------------------------- folds -------------------------------- *)

\* The greatest element of 1..k is k, and 1..k - 1 is the rest.
LEMMA MaxOf ==
  ASSUME NEW k \in Nat, k > 0
  PROVE  Max(1..k) = k /\ (1..k) \ {k} = 1..(k - 1) /\ 1..k # {}
<1>1. \A x \in 1..k : (\A y \in 1..k : x >= y) => x = k
  OBVIOUS
<1>2. k \in 1..k /\ \A y \in 1..k : k >= y
  OBVIOUS
<1>3. Max(1..k) = k
  BY <1>1, <1>2 DEF Max
<1> QED BY <1>3

\* A nonempty set of the numbers up to n has a greatest element.
LEMMA MaxIn ==
  ASSUME NEW n \in Nat, NEW T \in SUBSET (1..n), T # {}
  PROVE  Max(T) \in T
<1> DEFINE B == 1..n
<1>1. IsFiniteSet(B)
  BY FS_Interval
<1> DEFINE Bad == {U \in SUBSET B : U # {} /\ ~\E x \in U : \A y \in U : x >= y}
<1>2. Bad = {}
  <2> SUFFICES ASSUME Bad # {} PROVE FALSE
    OBVIOUS
  <2>1. PICK U \in Bad : \A V \in Bad : ~(V \subseteq U /\ V # U)
    <3>1. Bad \in SUBSET (SUBSET B) /\ Bad # {}
      OBVIOUS
    <3> HIDE DEF Bad, B
    <3> QED BY <1>1, <3>1, Minimal
  <2>2. PICK a \in U : TRUE
    OBVIOUS
  <2> DEFINE V == U \ {a}
  <2>3. V # {}
    OBVIOUS
  <2>4. V \notin Bad
    BY <2>1, <2>2
  <2>5. PICK x \in V : \A y \in V : x >= y
    BY <2>3, <2>4
  <2>6. x \in Nat /\ a \in Nat
    OBVIOUS
  <2>7. CASE a >= x
    <3>1. \A y \in U : a >= y
      BY <2>5, <2>6, <2>7
    <3> QED BY <2>2, <3>1
  <2>8. CASE ~(a >= x)
    <3>1. \A y \in U : x >= y
      BY <2>5, <2>6, <2>8
    <3> QED BY <3>1
  <2> QED BY <2>7, <2>8
<1>3. \E x \in T : \A y \in T : x >= y
  BY <1>2
<1> QED BY <1>3 DEF Max

(* What FoldLeft unfolds to: a function on the sets of positions.          *)
ReadFold(g, r, s, S) ==
  g = [T \in SUBSET S |-> IF T = {} THEN r ELSE Take(g[T \ {Max(T)}], s[Max(T)])]

DrainFold(g, r, s, S) ==
  g = [T \in SUBSET S |-> IF T = {} THEN r ELSE Drain(g[T \ {Max(T)}], s[Max(T)])]

\* FoldLeft(Take, ..) is the value of such a function at the whole domain.
LEMMA ReadFoldIs ==
  ASSUME NEW r, NEW s
  PROVE  FoldLeft(Take, r, s) = (CHOOSE g : ReadFold(g, r, s, DOMAIN s))[DOMAIN s]
BY DEF FoldLeft, MapThenFoldSet, ReadFold

\* So is FoldLeft(Drain, ..).
LEMMA DrainFoldIs ==
  ASSUME NEW r, NEW s
  PROVE  FoldLeft(Drain, r, s) = (CHOOSE g : DrainFold(g, r, s, DOMAIN s))[DOMAIN s]
BY DEF FoldLeft, MapThenFoldSet, DrainFold

(* It exists, size by size of the sets.                                    *)
LEMMA ReadFoldExists ==
  ASSUME NEW r, NEW s, NEW n \in Nat
  PROVE  \E g : ReadFold(g, r, s, 1..n)
<1> DEFINE S == 1..n
           Level(k) == {T \in SUBSET S : Cardinality(T) <= k}
           Fits(k) == \E g : g = [T \in Level(k) |->
                        IF T = {} THEN r ELSE Take(g[T \ {Max(T)}], s[Max(T)])]
           G == {k \in Nat : Fits(k)}
<1>f. IsFiniteSet(S) /\ Cardinality(S) = n
  BY FS_Interval
<1>0. \A T \in SUBSET S : IsFiniteSet(T) /\ Cardinality(T) \in Nat /\ Cardinality(T) <= n
  BY <1>f, FS_Subset, FS_CardinalityType
<1>1. \A T \in SUBSET S : T # {} => /\ Max(T) \in T /\ T \ {Max(T)} \in SUBSET S
                                    /\ Cardinality(T \ {Max(T)}) = Cardinality(T) - 1
  BY <1>0, MaxIn, FS_RemoveElement
<1>2. Fits(0)
  <2> DEFINE g == [T \in Level(0) |-> r]
  <2>1. \A T \in Level(0) : T = {}
    BY <1>0, FS_EmptySet
  <2>2. g = [T \in Level(0) |-> IF T = {} THEN r ELSE Take(g[T \ {Max(T)}], s[Max(T)])]
    BY <2>1
  <2> QED BY <2>2
<1>3. ASSUME NEW k \in Nat, Fits(k) PROVE Fits(k + 1)
  <2>1. PICK g : g = [T \in Level(k) |->
                        IF T = {} THEN r ELSE Take(g[T \ {Max(T)}], s[Max(T)])]
    BY <1>3
  <2> DEFINE h == [T \in Level(k + 1) |->
                        IF T = {} THEN r ELSE Take(g[T \ {Max(T)}], s[Max(T)])]
  <2>0. \A T \in Level(k) : T \in Level(k + 1)
    BY <1>0
  <2>2. \A T \in Level(k) : h[T] = g[T]
    BY <2>1, <2>0
  <2>3. \A T \in Level(k + 1) : T # {} => T \ {Max(T)} \in Level(k)
    BY <1>0, <1>1
  <2>4. \A T \in Level(k + 1) : T # {} => h[T \ {Max(T)}] = g[T \ {Max(T)}]
    BY <2>2, <2>3
  <2>5. h = [T \in Level(k + 1) |->
                        IF T = {} THEN r ELSE Take(h[T \ {Max(T)}], s[Max(T)])]
    BY <2>4
  <2> QED BY <2>5
<1>4. n \in G
  <2> HIDE DEF Fits
  <2>1. 0 \in G /\ \A k \in 0..n : k \in G /\ k < n => k + 1 \in G
    BY <1>2, <1>3
  <2> HIDE DEF G
  <2> QED BY <2>1, NatInduct
<1>5. Level(n) = SUBSET S
  BY <1>0
<1> QED BY <1>4, <1>5 DEF ReadFold

TakeAll(r, s) == FoldLeft(Take, r, s)

TakesUp(v, r, s, n) ==
  /\ v[0] = r
  /\ \A k \in 1..n : v[k] = Take(v[k - 1], s[k])
  /\ TakeAll(r, s) = v[n]

(* So the fold goes from one element of the sequence to the next.          *)
LEMMA ReadSteps ==
  ASSUME NEW r, NEW s, NEW n \in Nat, DOMAIN s = 1..n
  PROVE  \E v : TakesUp(v, r, s, n)
<1> DEFINE g == CHOOSE g : ReadFold(g, r, s, 1..n)
           v == [k \in 0..n |-> g[1..k]]
<1>1. ReadFold(g, r, s, 1..n)
  BY ReadFoldExists
<1>2. TakeAll(r, s) = g[1..n]
  BY ReadFoldIs DEF TakeAll
<1> HIDE DEF g
<1>3. v[0] = r
  <2>1. 1..0 = {} /\ {} \in SUBSET (1..n)
    OBVIOUS
  <2>2. g[{}] = r
    BY <1>1, <2>1 DEF ReadFold
  <2> QED BY <2>1, <2>2
<1>4. ASSUME NEW k \in 1..n PROVE v[k] = Take(v[k - 1], s[k])
  <2>1. 1..k \in SUBSET (1..n) /\ k \in Nat /\ k > 0 /\ k \in 0..n /\ k - 1 \in 0..n
    OBVIOUS
  <2>2. Max(1..k) = k /\ (1..k) \ {k} = 1..(k - 1) /\ 1..k # {}
    BY <2>1, MaxOf
  <2>3. g[1..k] = Take(g[(1..k) \ {Max(1..k)}], s[Max(1..k)])
    BY <1>1, <2>1, <2>2 DEF ReadFold
  <2>4. g[1..k] = Take(g[1..(k - 1)], s[k])
    BY <2>2, <2>3
  <2>5. v[k] = g[1..k] /\ v[k - 1] = g[1..(k - 1)]
    BY <2>1
  <2> QED BY <2>4, <2>5
<1>5. v[n] = g[1..n]
  OBVIOUS
<1>6. v[0] = r /\ (\A k \in 1..n : v[k] = Take(v[k - 1], s[k])) /\ TakeAll(r, s) = v[n]
  BY <1>2, <1>3, <1>4, <1>5
<1> QED BY <1>6 DEF TakesUp

(* It exists, size by size of the sets.                                    *)
LEMMA DrainFoldExists ==
  ASSUME NEW r, NEW s, NEW n \in Nat
  PROVE  \E g : DrainFold(g, r, s, 1..n)
<1> DEFINE S == 1..n
           Level(k) == {T \in SUBSET S : Cardinality(T) <= k}
           Fits(k) == \E g : g = [T \in Level(k) |->
                        IF T = {} THEN r ELSE Drain(g[T \ {Max(T)}], s[Max(T)])]
           G == {k \in Nat : Fits(k)}
<1>f. IsFiniteSet(S) /\ Cardinality(S) = n
  BY FS_Interval
<1>0. \A T \in SUBSET S : IsFiniteSet(T) /\ Cardinality(T) \in Nat /\ Cardinality(T) <= n
  BY <1>f, FS_Subset, FS_CardinalityType
<1>1. \A T \in SUBSET S : T # {} => /\ Max(T) \in T /\ T \ {Max(T)} \in SUBSET S
                                    /\ Cardinality(T \ {Max(T)}) = Cardinality(T) - 1
  BY <1>0, MaxIn, FS_RemoveElement
<1>2. Fits(0)
  <2> DEFINE g == [T \in Level(0) |-> r]
  <2>1. \A T \in Level(0) : T = {}
    BY <1>0, FS_EmptySet
  <2>2. g = [T \in Level(0) |-> IF T = {} THEN r ELSE Drain(g[T \ {Max(T)}], s[Max(T)])]
    BY <2>1
  <2> QED BY <2>2
<1>3. ASSUME NEW k \in Nat, Fits(k) PROVE Fits(k + 1)
  <2>1. PICK g : g = [T \in Level(k) |->
                        IF T = {} THEN r ELSE Drain(g[T \ {Max(T)}], s[Max(T)])]
    BY <1>3
  <2> DEFINE h == [T \in Level(k + 1) |->
                        IF T = {} THEN r ELSE Drain(g[T \ {Max(T)}], s[Max(T)])]
  <2>0. \A T \in Level(k) : T \in Level(k + 1)
    BY <1>0
  <2>2. \A T \in Level(k) : h[T] = g[T]
    BY <2>1, <2>0
  <2>3. \A T \in Level(k + 1) : T # {} => T \ {Max(T)} \in Level(k)
    BY <1>0, <1>1
  <2>4. \A T \in Level(k + 1) : T # {} => h[T \ {Max(T)}] = g[T \ {Max(T)}]
    BY <2>2, <2>3
  <2>5. h = [T \in Level(k + 1) |->
                        IF T = {} THEN r ELSE Drain(h[T \ {Max(T)}], s[Max(T)])]
    BY <2>4
  <2> QED BY <2>5
<1>4. n \in G
  <2> HIDE DEF Fits
  <2>1. 0 \in G /\ \A k \in 0..n : k \in G /\ k < n => k + 1 \in G
    BY <1>2, <1>3
  <2> HIDE DEF G
  <2> QED BY <2>1, NatInduct
<1>5. Level(n) = SUBSET S
  BY <1>0
<1> QED BY <1>4, <1>5 DEF DrainFold

DrainAll(r, s) == FoldLeft(Drain, r, s)

DrainsUp(v, r, s, n) ==
  /\ v[0] = r
  /\ \A k \in 1..n : v[k] = Drain(v[k - 1], s[k])
  /\ DrainAll(r, s) = v[n]

(* So the fold goes from one element of the sequence to the next.          *)
LEMMA DrainSteps ==
  ASSUME NEW r, NEW s, NEW n \in Nat, DOMAIN s = 1..n
  PROVE  \E v : DrainsUp(v, r, s, n)
<1> DEFINE g == CHOOSE g : DrainFold(g, r, s, 1..n)
           v == [k \in 0..n |-> g[1..k]]
<1>1. DrainFold(g, r, s, 1..n)
  BY DrainFoldExists
<1>2. DrainAll(r, s) = g[1..n]
  BY DrainFoldIs DEF DrainAll
<1> HIDE DEF g
<1>3. v[0] = r
  <2>1. 1..0 = {} /\ {} \in SUBSET (1..n)
    OBVIOUS
  <2>2. g[{}] = r
    BY <1>1, <2>1 DEF DrainFold
  <2> QED BY <2>1, <2>2
<1>4. ASSUME NEW k \in 1..n PROVE v[k] = Drain(v[k - 1], s[k])
  <2>1. 1..k \in SUBSET (1..n) /\ k \in Nat /\ k > 0 /\ k \in 0..n /\ k - 1 \in 0..n
    OBVIOUS
  <2>2. Max(1..k) = k /\ (1..k) \ {k} = 1..(k - 1) /\ 1..k # {}
    BY <2>1, MaxOf
  <2>3. g[1..k] = Drain(g[(1..k) \ {Max(1..k)}], s[Max(1..k)])
    BY <1>1, <2>1, <2>2 DEF DrainFold
  <2>4. g[1..k] = Drain(g[1..(k - 1)], s[k])
    BY <2>2, <2>3
  <2>5. v[k] = g[1..k] /\ v[k - 1] = g[1..(k - 1)]
    BY <2>1
  <2> QED BY <2>4, <2>5
<1>5. v[n] = g[1..n]
  OBVIOUS
<1>6. v[0] = r /\ (\A k \in 1..n : v[k] = Drain(v[k - 1], s[k])) /\ DrainAll(r, s) = v[n]
  BY <1>2, <1>3, <1>4, <1>5
<1> QED BY <1>6 DEF DrainsUp

(* ---------------------------- the invariant ---------------------------- *)

\* The lines a poll has read so far.
Lines == IF poll = None THEN <<>> ELSE poll.lines

\* Line n was returned, or will be at the end of the poll.
Known(lines, n) == delivered[n] > 0 \/ \E i \in DOMAIN lines : Counted(lines[i], n)

\* It has been written to its end.
Ended(n) == n < line \/ (n = line /\ ~MidLine)

Once(lines) ==
  \A n \in 1..MaxLine :
    /\ delivered[n] <= 1
    /\ \A i, j \in DOMAIN lines :
         Counted(lines[i], n) /\ Counted(lines[j], n) => i = j /\ delivered[n] = 0
    /\ Known(lines, n) => Ended(n)

\* Behind position k of file f no line ends that is known.
Clean(f, k, lines) ==
  \A i \in DOMAIN text[f] : i > k /\ text[f][i].end => ~Known(lines, text[f][i].line)

\* The log moves on to a new file, and never back.
LogPlace ==
  /\ path # None => path = writer \/ path = writer + 1
  /\ path = None => writer + 1 \in Files
  /\ \A f \in Files : f > writer => text[f] = <<>>

\* Lines are written one after the other, each into one file, and each is a body, perhaps
\* a longer one, and an end.
LinesUpTo ==
  /\ \A f \in Files : \A i \in DOMAIN text[f] : text[f][i].line <= line
  /\ MidLine => text[writer][Len(text[writer])].line = line

FilesApart ==
  \A f, g \in Files : f < g =>
    \A i \in DOMAIN text[f], j \in DOMAIN text[g] : text[f][i].line < text[g][j].line

LinesInOrder ==
  \A f \in Files : \A i, j \in DOMAIN text[f] : i < j =>
    /\ text[f][i].line <= text[f][j].line
    /\ text[f][i].end => text[f][i].line < text[f][j].line

LinesWhole ==
  /\ \A f \in Files : \A i, j \in DOMAIN text[f] : j = i + 1 /\ ~text[f][i].end =>
       text[f][j].line = text[f][i].line
  /\ \A f \in Files : \A j \in DOMAIN text[f] : text[f][j].end =>
       j - 1 \in DOMAIN text[f] /\ ~text[f][j - 1].end

TextInv == LogPlace /\ LinesUpTo /\ FilesApart /\ LinesInOrder /\ LinesWhole

\* The tailer follows the log, and only a file that it has left is retired.
FilesInv ==
  /\ active # None => /\ active.idle = 0
                      /\ active.file <= IF path = None THEN writer ELSE path
  /\ \A i \in DOMAIN retired : retired[i].file <= writer /\ (path # None => retired[i].file < path)
  /\ At("follow") /\ active # None /\ poll.file # active.file =>
       active.file <= writer /\ (path # None => active.file < path)
  /\ At("anchor") \/ At("stat") => active # None
  /\ At("follow") => /\ poll.meta # None
                     /\ poll.file # None => poll.meta.gen <= generation[poll.file]

\* The file is the one that was read up to the offset: the next look at it, against the
\* anchor, finds that.
Followed(o) ==
  /\ o.offset <= Len(text[o.file])
  /\ ~At("anchor") => o.anchor = AnchorAt(o.file, o.offset)
  /\ At("follow") /\ poll.file = o.file => o.offset <= poll.meta.len

\* What is still to be read is not known; nor is anything in the file at the path if it
\* may be read from the beginning, because it is not open or does not look as it did.
OnceInv ==
  /\ Once(Lines)
  /\ \A i \in DOMAIN retired : Clean(retired[i].file, retired[i].offset, Lines)
  /\ active # None => /\ Clean(active.file, active.offset, Lines)
                      /\ Clean(active.file, 0, Lines) \/ Followed(active)
  /\ path # None /\ (active # None => active.file # path) => Clean(path, 0, Lines)

\* What is pending is the piece of a line that the text has before the offset.
InLine(t, k) == k > 0 /\ ~t[k].end
Parsed(o) ==
  /\ o.offset <= Len(text[o.file])
  /\ o.pending = IF InLine(text[o.file], o.offset) /\ ~InLine(text[o.file], o.offset - 1)
                 THEN <<text[o.file][o.offset]>> ELSE <<>>
  /\ o.discarding <=> InLine(text[o.file], o.offset) /\ InLine(text[o.file], o.offset - 1)

Noticed(o) == Parsed(o) /\ (~At("anchor") => o.anchor = AnchorAt(o.file, o.offset))

\* The file was truncated, and the next poll will notice: every piece in it is of a later
\* line than the anchor.
Stale(o) ==
  /\ o.file = path /\ o.gen < generation[o.file]
  /\ poll = None \/ (At("follow") /\ poll.file = o.file /\ o.gen < poll.meta.gen)
  /\ o.offset > 0 /\ o.anchor # None /\ o.anchor.line <= line
  /\ \A i \in DOMAIN text[o.file] : o.anchor.line < text[o.file][i].line

\* A line, or the beginning of one at the end of a file that was given up.
SoundLine(l) == WholeLine(l) \/ ~Last(l).end
SoundLines(lines) == \A i \in DOMAIN lines : SoundLine(lines[i])

Calm == disorder \subseteq {"cut"}

CalmInv ==
  Calm =>
    /\ ~torn
    /\ SoundLines(Lines)
    /\ \A i \in DOMAIN retired : Parsed(retired[i])
    /\ active # None => /\ active.gen <= generation[active.file]
                        /\ Noticed(active) \/ Stale(active)

TailInv == TypeOK /\ TextInv /\ FilesInv /\ OnceInv /\ CalmInv

(* ------------------------------- reading ------------------------------- *)

ReadState == [open : OpenFile, lines : Seq(Seq(Piece)), left : Nat]

\* A line that Take puts together is counted as the line that its last piece ends.
LEMMA LineMade ==
  ASSUME NEW pend \in Pending, NEW p \in Piece
  PROVE  /\ Append(pend, p) \in Seq(Piece)
         /\ Last(Append(pend, p)) = p
         /\ \A n \in 1..MaxLine : Counted(Append(pend, p), n) => p = End(n)
         /\ \A n \in 1..MaxLine : pend = <<Body(n)>> /\ p = End(n) => WholeLine(Append(pend, p))
<1>1. CASE pend = <<>>
  <2>1. Append(pend, p) = <<p>>
    BY <1>1
  <2>2. \A n \in 1..MaxLine : <<p>> # <<Body(n), End(n)>>
    OBVIOUS
  <2> QED BY <1>1, <2>1, <2>2 DEF Counted, WholeLine, Last
<1>2. CASE pend # <<>>
  <2>1. PICK m \in 1..MaxLine : pend = <<Body(m)>>
    BY <1>2 DEF Pending
  <2>2. Body(m) \in Piece
    BY TailerAssumption DEF Body, Piece
  <2>3. Append(pend, p) = <<Body(m), p>>
    <3>1. PICK b \in Piece : b = Body(m)
      BY <2>2
    <3> DEFINE a == Append(<<b>>, p)
               c == <<b, p>>
    <3>a. <<b>> \in Seq(Piece) /\ Len(<<b>>) = 1 /\ <<b>>[1] = b
      OBVIOUS
    <3>c. c \in Seq(Piece) /\ Len(c) = 2 /\ c[1] = b /\ c[2] = p
      OBVIOUS
    <3>d. a \in Seq(Piece) /\ Len(a) = 2 /\ a[1] = b /\ a[2] = p
      BY <3>a, AppendProperties
    <3>2. a = c
      <4> HIDE DEF a, c
      <4>1. \A i \in 1..Len(a) : i = 1 \/ i = 2
        BY <3>d
      <4>2. \A i \in 1..Len(a) : a[i] = c[i]
        BY <4>1, <3>c, <3>d
      <4> QED BY <3>c, <3>d, <4>2, SeqEqual
    <3> QED BY <2>1, <3>1, <3>2
  <2>4. Last(<<Body(m), p>>) = p
    BY DEF Last
  <2>5. \A n \in 1..MaxLine : <<Body(m), p>> = <<Body(n), End(n)>> => Body(n) = Body(m) /\ p = End(n)
    OBVIOUS
  <2>6. \A n, k \in 1..MaxLine : Body(n) = Body(k) => n = k
    BY DEF Body
  <2>7. \A n \in 1..MaxLine : Counted(<<Body(m), p>>, n) => p = End(n)
    <3> TAKE n \in 1..MaxLine
    <3> HAVE Counted(<<Body(m), p>>, n)
    <3>1. PICK k \in 1..MaxLine : <<Body(m), p>> = <<Body(k), End(k)>>
      BY DEF Counted, WholeLine
    <3>2. Body(k) = Body(m) /\ p = End(k) /\ Body(m) = Body(n)
      BY <2>5, <3>1 DEF Counted
    <3> QED BY <2>6, <3>2
  <2>8. \A n \in 1..MaxLine : pend = <<Body(n)>> /\ p = End(n) => WholeLine(Append(pend, p))
    BY <2>1, <2>3 DEF WholeLine
  <2> QED BY <2>2, <2>3, <2>4, <2>7, <2>8
<1> QED BY <1>1, <1>2

\* What becomes of the open file and its lines with a piece.
Discards(r, p, q) ==
  /\ r.open.discarding
  /\ q.lines = r.lines /\ q.open.pending = r.open.pending
  /\ q.open.discarding <=> ~p.end
EndsLine(r, p, q) ==
  /\ ~r.open.discarding /\ p.end
  /\ q.lines = Append(r.lines, Append(r.open.pending, p))
  /\ q.open.pending = <<>> /\ ~q.open.discarding
BeginsBody(r, p, q) ==
  /\ ~r.open.discarding /\ ~p.end /\ r.open.pending = <<>>
  /\ q.lines = r.lines
  /\ q.open.pending = <<p>> /\ ~q.open.discarding
BecomesLong(r, p, q) ==
  /\ ~r.open.discarding /\ ~p.end /\ r.open.pending # <<>>
  /\ q.lines = r.lines
  /\ q.open.pending = <<>> /\ q.open.discarding

Advanced(r, q) ==
  /\ q \in ReadState
  /\ q.open.file = r.open.file /\ q.open.gen = r.open.gen /\ q.open.idle = r.open.idle
  /\ q.open.offset = r.open.offset + 1 /\ q.left = r.left - 1

\* What Take does with one piece, when the poll has not its share of lines.
LEMMA TakeCases ==
  ASSUME NEW r \in ReadState, NEW p \in Piece, Len(r.lines) < MaxLines, r.left > 0,
         NEW q, q = Take(r, p)
  PROVE  /\ Advanced(r, q)
         /\ \/ Discards(r, p, q) \/ EndsLine(r, p, q)
            \/ BeginsBody(r, p, q) \/ BecomesLong(r, p, q)
<1> DEFINE o == [r.open EXCEPT !.offset = @ + 1]
<1>0. MaxLines \in Nat /\ Len(r.lines) \in Nat /\ ~(Len(r.lines) >= MaxLines)
  BY TailerAssumption DEF ReadState
<1>1. r.open \in OpenFile /\ r.lines \in Seq(Seq(Piece)) /\ r.left \in Nat
  BY DEF ReadState
<1>l. r.left - 1 \in Nat
  BY <1>1
<1>o. o \in OpenFile
  <2>1. PICK k \in Nat : k = r.open.offset + 1
    BY <1>1 DEF OpenFile
  <2>2. [r.open EXCEPT !.offset = k] \in OpenFile
    BY <1>1 DEF OpenFile
  <2>3. o = [r.open EXCEPT !.offset = k]
    BY <2>1
  <2> QED BY <2>2, <2>3
<1>2. o.discarding = r.open.discarding /\ o.pending = r.open.pending
  BY <1>1 DEF OpenFile
<1> HIDE DEF o
<1>3. CASE r.open.discarding
  <2>1. PICK d \in BOOLEAN : d = ~p.end
    OBVIOUS
  <2>2. q = [r EXCEPT !.open = [o EXCEPT !.discarding = d], !.left = @ - 1]
    BY <1>0, <1>2, <1>3, <2>1 DEF Take, o
  <2>3. [o EXCEPT !.discarding = d] \in OpenFile
    BY <1>o DEF OpenFile
  <2>4. q.open = [o EXCEPT !.discarding = d] /\ q.lines = r.lines /\ q.left = r.left - 1
    BY <2>2 DEF ReadState
  <2>5. q \in ReadState
    BY <1>1, <1>l, <2>2, <2>3 DEF ReadState
  <2>6. q.open.discarding = d /\ q.open.pending = r.open.pending
    BY <1>2, <1>o, <2>4 DEF OpenFile
  <2>7. /\ q.open.file = r.open.file /\ q.open.gen = r.open.gen /\ q.open.idle = r.open.idle
        /\ q.open.offset = r.open.offset + 1
    BY <1>1, <1>o, <2>4 DEF OpenFile, o
  <2> QED BY <1>3, <2>1, <2>4, <2>5, <2>6, <2>7 DEF Advanced, Discards
<1>4. CASE ~r.open.discarding /\ p.end
  <2>1. q = [r EXCEPT !.open = [o EXCEPT !.pending = <<>>], !.left = @ - 1,
                      !.lines = Append(@, Append(o.pending, p))]
    BY <1>0, <1>2, <1>4 DEF Take, o
  <2>2. [o EXCEPT !.pending = <<>>] \in OpenFile
    BY <1>o DEF OpenFile, Pending
  <2>3. Append(r.open.pending, p) \in Seq(Piece)
    BY <1>1, LineMade DEF OpenFile
  <2>4. /\ q.open = [o EXCEPT !.pending = <<>>] /\ q.left = r.left - 1
        /\ q.lines = Append(r.lines, Append(r.open.pending, p))
    BY <1>2, <2>1 DEF ReadState
  <2>5. q.lines \in Seq(Seq(Piece))
    BY <1>1, <2>3, <2>4
  <2>6. q \in ReadState
    BY <1>1, <1>l, <2>1, <2>2, <2>4, <2>5 DEF ReadState
  <2>7. q.open.pending = <<>> /\ q.open.discarding = r.open.discarding
    BY <1>1, <1>o, <2>4 DEF OpenFile, o
  <2>8. /\ q.open.file = r.open.file /\ q.open.gen = r.open.gen /\ q.open.idle = r.open.idle
        /\ q.open.offset = r.open.offset + 1
    BY <1>1, <1>o, <2>4 DEF OpenFile, o
  <2> QED BY <1>4, <2>4, <2>6, <2>7, <2>8 DEF Advanced, EndsLine
<1>5. CASE ~r.open.discarding /\ ~p.end /\ r.open.pending = <<>>
  <2>1. q = [r EXCEPT !.open = [o EXCEPT !.pending = <<p>>], !.left = @ - 1]
    BY <1>0, <1>2, <1>5 DEF Take, o
  <2>2. <<p>> \in Pending
    <3>1. p.line \in 1..MaxLine /\ p = Body(p.line)
      BY <1>5 DEF Piece, Body
    <3> QED BY <3>1 DEF Pending
  <2>3. [o EXCEPT !.pending = <<p>>] \in OpenFile
    BY <1>o, <2>2 DEF OpenFile
  <2>4. q.open = [o EXCEPT !.pending = <<p>>] /\ q.left = r.left - 1 /\ q.lines = r.lines
    BY <2>1 DEF ReadState
  <2>6. q \in ReadState
    BY <1>1, <1>l, <2>1, <2>3, <2>4 DEF ReadState
  <2>7. q.open.pending = <<p>> /\ q.open.discarding = r.open.discarding
    BY <1>1, <1>o, <2>4 DEF OpenFile, o
  <2>8. /\ q.open.file = r.open.file /\ q.open.gen = r.open.gen /\ q.open.idle = r.open.idle
        /\ q.open.offset = r.open.offset + 1
    BY <1>1, <1>o, <2>4 DEF OpenFile, o
  <2> QED BY <1>5, <2>4, <2>6, <2>7, <2>8 DEF Advanced, BeginsBody
<1>6. CASE ~r.open.discarding /\ ~p.end /\ r.open.pending # <<>>
  <2>1. q = [r EXCEPT !.open = [o EXCEPT !.pending = <<>>, !.discarding = TRUE], !.left = @ - 1]
    BY <1>0, <1>2, <1>6 DEF Take, o
  <2>2. [o EXCEPT !.pending = <<>>, !.discarding = TRUE] \in OpenFile
    BY <1>o DEF OpenFile, Pending
  <2>4. /\ q.open = [o EXCEPT !.pending = <<>>, !.discarding = TRUE]
        /\ q.left = r.left - 1 /\ q.lines = r.lines
    BY <2>1 DEF ReadState
  <2>6. q \in ReadState
    BY <1>1, <1>l, <2>1, <2>2, <2>4 DEF ReadState
  <2>7. q.open.pending = <<>> /\ q.open.discarding = TRUE
    BY <1>1, <1>o, <2>4 DEF OpenFile, o
  <2>8. /\ q.open.file = r.open.file /\ q.open.gen = r.open.gen /\ q.open.idle = r.open.idle
        /\ q.open.offset = r.open.offset + 1
    BY <1>1, <1>o, <2>4 DEF OpenFile, o
  <2> QED BY <1>6, <2>4, <2>6, <2>7, <2>8 DEF Advanced, BecomesLong
<1> QED BY <1>3, <1>4, <1>5, <1>6

\* What an added line makes known is the line that its last piece ends.
LEMMA KnownBefore ==
  ASSUME TypeOK, NEW lines \in Seq(Seq(Piece)), NEW more \in Seq(Seq(Piece)),
         NEW l \in Seq(Piece), more = Append(lines, l),
         NEW n \in 1..MaxLine, Known(more, n)
  PROVE  Known(lines, n) \/ Counted(l, n)
<1>1. /\ DOMAIN lines = 1..Len(lines) /\ DOMAIN more = 1..(Len(lines) + 1)
      /\ more[Len(lines) + 1] = l /\ \A i \in 1..Len(lines) : more[i] = lines[i]
      /\ Len(lines) \in Nat
  BY AppendProperties, LenProperties
<1>2. CASE delivered[n] > 0
  BY <1>2 DEF Known
<1>3. CASE ~(delivered[n] > 0)
  <2>1. PICK i \in DOMAIN more : Counted(more[i], n)
    BY <1>3 DEF Known
  <2>2. i \in 1..Len(lines) \/ i = Len(lines) + 1
    BY <1>1, SMTT(30)
  <2>3. CASE i \in 1..Len(lines)
    BY <1>1, <2>1, <2>3 DEF Known
  <2>4. CASE i = Len(lines) + 1
    BY <1>1, <2>1, <2>4
  <2> QED BY <2>2, <2>3, <2>4
<1> QED BY <1>2, <1>3

\* A line that was not known may be added.
LEMMA OnceAdded ==
  ASSUME TypeOK, NEW lines \in Seq(Seq(Piece)), NEW more \in Seq(Seq(Piece)),
         NEW l \in Seq(Piece), more = Append(lines, l), Once(lines),
         \A n \in 1..MaxLine : Counted(l, n) => ~Known(lines, n) /\ Ended(n)
  PROVE  Once(more)
<1>1. /\ DOMAIN lines = 1..Len(lines) /\ DOMAIN more = 1..(Len(lines) + 1)
      /\ more[Len(lines) + 1] = l /\ \A i \in 1..Len(lines) : more[i] = lines[i]
      /\ Len(lines) \in Nat
  BY AppendProperties, LenProperties
<1> SUFFICES ASSUME NEW n \in 1..MaxLine
             PROVE  /\ delivered[n] <= 1
                    /\ \A i, j \in DOMAIN more :
                         Counted(more[i], n) /\ Counted(more[j], n) => i = j /\ delivered[n] = 0
                    /\ Known(more, n) => Ended(n)
  BY DEF Once
<1>2. delivered[n] <= 1 /\ delivered[n] \in Nat
  BY DEF Once, TypeOK
<1>3. Known(more, n) => Ended(n)
  BY KnownBefore DEF Once
<1>4. ASSUME NEW i \in DOMAIN more, NEW j \in DOMAIN more, Counted(more[i], n), Counted(more[j], n)
      PROVE  i = j /\ delivered[n] = 0
  <2>1. CASE Counted(l, n)
    <3>a. ~Known(lines, n)
      BY <2>1
    <3>b. ~(delivered[n] > 0) /\ \A k \in DOMAIN lines : ~Counted(lines[k], n)
      BY <3>a DEF Known
    <3>1. delivered[n] = 0 /\ \A k \in 1..Len(lines) : ~Counted(lines[k], n)
      <4>1. ~(delivered[n] > 0) /\ delivered[n] \in Nat
        BY <1>2, <3>b
      <4>2. delivered[n] = 0
        BY <4>1
      <4>3. \A k \in 1..Len(lines) : ~Counted(lines[k], n)
        BY <1>1, <3>b
      <4> QED BY <4>2, <4>3
    <3>2. i = Len(lines) + 1 /\ j = Len(lines) + 1
      BY <1>1, <1>4, <3>1
    <3> QED BY <3>1, <3>2
  <2>2. CASE ~Counted(l, n)
    <3>1. i \in 1..Len(lines) /\ j \in 1..Len(lines)
      BY <1>1, <1>4, <2>2
    <3>2. Counted(lines[i], n) /\ Counted(lines[j], n)
      BY <1>1, <1>4, <3>1
    <3> QED BY <1>1, <3>1, <3>2 DEF Once
  <2> QED BY <2>1, <2>2
<1> QED BY <1>2, <1>3, <1>4

\* With piece p no line becomes known but the one it ends.
Adds(lines, more, p) == \A n \in 1..MaxLine : Known(more, n) => Known(lines, n) \/ p = End(n)

\* The line it ends was not known.
Fresh(lines, p) == \A n \in 1..MaxLine : p = End(n) => ~Known(lines, n) /\ Ended(n)

\* What is clean in other files remains so.
CleanElsewhere(f, lines, more) ==
  \A g \in Files, i \in Nat : g # f /\ Clean(g, i, lines) => Clean(g, i, more)

\* The piece behind a clean position ends a line that was not known.
LEMMA PieceRead ==
  ASSUME TypeOK, TextInv, NEW f \in Files, NEW k \in Nat, k + 1 \in DOMAIN text[f],
         NEW lines, NEW more, NEW p \in Piece, p = text[f][k + 1],
         Clean(f, k, lines), Adds(lines, more, p)
  PROVE  /\ Fresh(lines, p)
         /\ Clean(f, k + 1, more)
         /\ CleanElsewhere(f, lines, more)
<1> USE DEF End
<1>a. \A g \in Files : text[g] \in Seq(Piece) /\ DOMAIN text[g] = 1..Len(text[g]) /\ Len(text[g]) \in Nat
  <2> TAKE g \in Files
  <2>1. text[g] \in Seq(Piece)
    BY DEF TypeOK
  <2> QED BY <2>1, LenProperties
<1>b. writer \in Files /\ line \in Nat
  BY TailerAssumption DEF TypeOK
<1>c. Files \subseteq Nat
  BY TailerAssumption DEF Files
<1>0. /\ \A g \in Files : text[g] \in Seq(Piece) /\ DOMAIN text[g] = 1..Len(text[g]) /\ Len(text[g]) \in Nat
      /\ writer \in Files /\ Files \subseteq Nat /\ line \in Nat
  BY <1>a, <1>b, <1>c
<1>1. \A g \in Files : \A i \in DOMAIN text[g] :
        text[g][i] \in Piece /\ text[g][i].line \in 1..MaxLine /\ text[g][i].line \in Nat
  <2> TAKE g \in Files
  <2> TAKE i \in DOMAIN text[g]
  <2>1. text[g][i] \in Piece
    BY <1>0
  <2>2. 1..MaxLine \subseteq Nat
    OBVIOUS
  <2> QED BY <2>1, <2>2 DEF Piece
<1>t. LogPlace /\ LinesUpTo /\ FilesApart /\ LinesInOrder
  BY DEF TextInv
<1>2. ASSUME NEW n \in 1..MaxLine, p = End(n) PROVE ~Known(lines, n) /\ Ended(n)
  <2>1. text[f][k + 1].end /\ text[f][k + 1].line = n
    BY <1>2
  <2>2. ~Known(lines, n)
    BY <2>1 DEF Clean
  <2>3. n <= line
    BY <2>1, <1>0, <1>t DEF LinesUpTo
  <2>4. ASSUME MidLine PROVE n < line
    <3> DEFINE w == Len(text[writer])
    <3>1. text[writer] # <<>> /\ ~text[writer][w].end
      BY <2>4 DEF MidLine, Last
    <3>2. w \in DOMAIN text[writer]
      BY <1>0, <3>1
    <3>3. text[writer][w].line = line
      BY <2>4, <1>t DEF LinesUpTo
    <3>4. f <= writer
      <4>1. text[f] # <<>>
        OBVIOUS
      <4> QED BY <1>0, <1>t, <4>1 DEF LogPlace
    <3>5. CASE f < writer
      BY <1>0, <1>t, <2>1, <3>2, <3>3, <3>5 DEF FilesApart
    <3>6. CASE f = writer
      <4>1. k + 1 # w
        BY <2>1, <3>1, <3>6
      <4>2. k + 1 < w
        BY <1>0, <3>6, <4>1
      <4> QED BY <1>0, <1>t, <2>1, <3>2, <3>3, <3>6, <4>2 DEF LinesInOrder
    <3> QED BY <1>0, <3>4, <3>5, <3>6
  <2> QED BY <1>0, <2>2, <2>3, <2>4 DEF Ended
<1>3. Clean(f, k + 1, more)
  <2> SUFFICES ASSUME NEW i \in DOMAIN text[f], i > k + 1, text[f][i].end,
                      Known(more, text[f][i].line)
               PROVE  FALSE
    BY DEF Clean
  <2>1. i > k /\ k + 1 < i
    BY <1>0
  <2>2. ~Known(lines, text[f][i].line)
    BY <2>1 DEF Clean
  <2>3. p = End(text[f][i].line)
    BY <1>1, <2>2 DEF Adds
  <2>4. p.end /\ p.line = text[f][i].line
    BY <2>3
  <2>5. p.line < text[f][i].line
    BY <1>t, <2>1, <2>4 DEF LinesInOrder
  <2> QED BY <1>1, <2>4, <2>5
<1>4. ASSUME NEW g \in Files, NEW j \in Nat, g # f, Clean(g, j, lines) PROVE Clean(g, j, more)
  <2> SUFFICES ASSUME NEW i \in DOMAIN text[g], i > j, text[g][i].end,
                      Known(more, text[g][i].line)
               PROVE  FALSE
    BY DEF Clean
  <2>1. ~Known(lines, text[g][i].line)
    BY <1>4 DEF Clean
  <2>2. p = End(text[g][i].line)
    BY <1>1, <2>1 DEF Adds
  <2>3. p.line = text[g][i].line
    BY <2>2
  <2>4. CASE f < g
    BY <1>1, <1>t, <2>3, <2>4 DEF FilesApart
  <2>5. CASE g < f
    BY <1>1, <1>t, <2>3, <2>5 DEF FilesApart
  <2> QED BY <1>0, <1>4, <2>4, <2>5
<1>5. CleanElsewhere(f, lines, more)
  BY <1>4 DEF CleanElsewhere
<1> QED BY <1>2, <1>3, <1>5 DEF Fresh

\* One piece read, of the line it belongs to.
LEMMA TakeOne ==
  ASSUME TypeOK, TextInv, NEW r \in ReadState, Len(r.lines) < MaxLines, r.left > 0,
         NEW f \in Files, f = r.open.file, NEW k \in Nat, k = r.open.offset,
         k + 1 \in DOMAIN text[f], NEW p \in Piece, p = text[f][k + 1],
         Once(r.lines), Clean(f, k, r.lines),
         NEW q, q = Take(r, p)
  PROVE  /\ Advanced(r, q)
         /\ Once(q.lines) /\ Clean(f, k + 1, q.lines)
         /\ CleanElsewhere(f, r.lines, q.lines)
<1>1. /\ Advanced(r, q)
      /\ \/ Discards(r, p, q) \/ EndsLine(r, p, q)
         \/ BeginsBody(r, p, q) \/ BecomesLong(r, p, q)
  BY TakeCases
<1>2. r.open.pending \in Pending /\ r.lines \in Seq(Seq(Piece)) /\ q.lines \in Seq(Seq(Piece))
  BY <1>1 DEF ReadState, OpenFile, Advanced
<1>3. CASE q.lines = r.lines
  <2>1. Adds(r.lines, q.lines, p)
    BY <1>3 DEF Adds
  <2>2. Clean(f, k + 1, q.lines) /\ CleanElsewhere(f, r.lines, q.lines)
    BY <2>1, PieceRead
  <2> QED BY <1>1, <1>3, <2>2
<1>4. CASE q.lines = Append(r.lines, Append(r.open.pending, p))
  <2>1. PICK l \in Seq(Piece) : l = Append(r.open.pending, p)
    BY <1>2, LineMade
  <2>2. \A n \in 1..MaxLine : Counted(l, n) => p = End(n)
    BY <1>2, <2>1, LineMade
  <2>3. Adds(r.lines, q.lines, p)
    <3>1. q.lines = Append(r.lines, l)
      BY <1>4, <2>1
    <3>2. \A n \in 1..MaxLine : Known(q.lines, n) => Known(r.lines, n) \/ Counted(l, n)
      BY <1>2, <3>1, KnownBefore
    <3> QED BY <2>2, <3>2 DEF Adds
  <2>4. Clean(f, k + 1, q.lines) /\ CleanElsewhere(f, r.lines, q.lines)
    BY <2>3, PieceRead
  <2>6. Fresh(r.lines, p)
    BY <2>3, PieceRead
  <2>5. Once(q.lines)
    BY <1>2, <1>4, <2>1, <2>2, <2>6, OnceAdded, ZenonT(60) DEF Fresh
  <2> QED BY <1>1, <2>4, <2>5
<1> QED BY <1>1, <1>3, <1>4 DEF Discards, EndsLine, BeginsBody, BecomesLong

\* A whole line after whole lines.
LEMMA OneMoreLine ==
  ASSUME NEW a \in Seq(Seq(Piece)), NEW l \in Seq(Piece), SoundLines(a), SoundLine(l),
         NEW b, b = Append(a, l)
  PROVE  SoundLines(b)
<1>1. /\ DOMAIN a = 1..Len(a) /\ DOMAIN b = 1..(Len(a) + 1)
      /\ b[Len(a) + 1] = l
      /\ \A i \in 1..Len(a) : b[i] = a[i]
      /\ Len(a) \in Nat
  BY AppendProperties, LenProperties
<1>2. ASSUME NEW i \in DOMAIN b PROVE SoundLine(b[i])
  <2>1. i \in 1..Len(a) \/ i = Len(a) + 1
    BY <1>1, SMTT(30)
  <2> QED BY <1>1, <2>1 DEF SoundLines
<1> QED BY <1>2 DEF SoundLines

\* What Parsed says of an open file one piece further on.
LEMMA ParsedOneOn ==
  ASSUME NEW f, NEW k \in Nat, NEW o, o.file = f, o.offset = k + 1, k + 1 <= Len(text[f]),
         /\ o.pending = IF InLine(text[f], k + 1) /\ ~InLine(text[f], k)
                        THEN <<text[f][k + 1]>> ELSE <<>>
         /\ o.discarding <=> InLine(text[f], k + 1) /\ InLine(text[f], k)
  PROVE  Parsed(o)
<1>1. o.offset - 1 = k
  OBVIOUS
<1> QED BY <1>1 DEF Parsed

\* Where the text has been parsed so far, it still is.
LEMMA TakeParsed ==
  ASSUME TypeOK, TextInv, NEW r \in ReadState, Len(r.lines) < MaxLines, r.left > 0,
         NEW f \in Files, f = r.open.file, NEW k \in Nat, k = r.open.offset,
         k + 1 \in DOMAIN text[f], NEW p \in Piece, p = text[f][k + 1],
         NEW q, q = Take(r, p), Parsed(r.open), SoundLines(r.lines)
  PROVE  Parsed(q.open) /\ SoundLines(q.lines)
<1>0. /\ text[f] \in Seq(Piece) /\ DOMAIN text[f] = 1..Len(text[f]) /\ Len(text[f]) \in Nat
      /\ \A i \in DOMAIN text[f] : text[f][i] \in Piece
  BY DEF TypeOK
<1>a. Advanced(r, q)
  BY TakeCases
<1>1. q.open.file = f /\ q.open.offset = k + 1
  BY <1>a DEF Advanced
<1>b. \/ Discards(r, p, q) \/ EndsLine(r, p, q)
      \/ BeginsBody(r, p, q) \/ BecomesLong(r, p, q)
  BY TakeCases
<1>2. k + 1 <= Len(text[f]) /\ k + 1 > 0 /\ k + 1 - 1 = k
  BY <1>0
<1>3. InLine(text[f], k + 1) <=> ~p.end
  BY <1>2 DEF InLine
<1>4. /\ r.open.pending = IF InLine(text[f], k) /\ ~InLine(text[f], k - 1)
                          THEN <<text[f][k]>> ELSE <<>>
      /\ r.open.discarding <=> InLine(text[f], k) /\ InLine(text[f], k - 1)
  BY DEF Parsed
<1>5. p.end => InLine(text[f], k)
  <2> SUFFICES ASSUME p.end PROVE InLine(text[f], k)
    OBVIOUS
  <2>1. PICK j \in DOMAIN text[f] : j = k + 1
    OBVIOUS
  <2>3. text[f][j].end
    BY <2>1
  <2>4. j - 1 \in DOMAIN text[f] /\ ~text[f][j - 1].end
    BY <2>3 DEF TextInv, LinesWhole
  <2>2. k \in DOMAIN text[f] /\ ~text[f][k].end /\ k > 0
    BY <1>0, <1>2, <2>1, <2>4, SMTT(30)
  <2> QED BY <2>2 DEF InLine
<1>6. Parsed(q.open)
  <2> DEFINE now == InLine(text[f], k + 1)
             before == InLine(text[f], k)
             first == InLine(text[f], k - 1)
             Fits == /\ q.open.pending = IF now /\ ~before THEN <<p>> ELSE <<>>
                     /\ q.open.discarding <=> now /\ before
  <2>0. /\ now <=> ~p.end
        /\ r.open.pending = IF before /\ ~first THEN <<text[f][k]>> ELSE <<>>
        /\ r.open.discarding <=> before /\ first
        /\ p.end => before
    BY <1>3, <1>4, <1>5
  <2> HIDE DEF now, before, first
  <2>1. Fits
    <3>1. CASE Discards(r, p, q)
      BY <2>0, <3>1 DEF Discards
    <3>2. CASE EndsLine(r, p, q)
      BY <2>0, <3>2 DEF EndsLine
    <3>3. CASE BeginsBody(r, p, q)
      <4>1. now /\ ~before
        <5>1. <<text[f][k]>> # <<>>
          OBVIOUS
        <5>2. ~r.open.discarding /\ ~p.end /\ r.open.pending = <<>>
          BY <3>3 DEF BeginsBody
        <5>3. ~(before /\ ~first)
          BY <2>0, <5>1, <5>2
        <5> QED BY <2>0, <5>2, <5>3
      <4> QED BY <3>3, <4>1 DEF BeginsBody
    <3>4. CASE BecomesLong(r, p, q)
      <4>1. now /\ before
        BY <2>0, <3>4 DEF BecomesLong
      <4> QED BY <3>4, <4>1 DEF BecomesLong
    <3> HIDE DEF Fits
    <3> QED BY <1>b, <3>1, <3>2, <3>3, <3>4
  <2>2. /\ q.open.pending = IF InLine(text[f], k + 1) /\ ~InLine(text[f], k) THEN <<p>> ELSE <<>>
        /\ q.open.discarding <=> InLine(text[f], k + 1) /\ InLine(text[f], k)
    BY <2>1 DEF now, before
  <2> QED BY <1>1, <1>2, <2>2, ParsedOneOn
<1>7. SoundLines(q.lines)
  <2>1. CASE q.lines = r.lines
    BY <2>1
  <2>2. CASE /\ ~r.open.discarding /\ p.end
             /\ q.lines = Append(r.lines, Append(r.open.pending, p))
    <3>1. InLine(text[f], k) /\ r.open.pending = <<text[f][k]>>
      BY <1>4, <1>5, <2>2
    <3>2. k \in DOMAIN text[f] /\ ~text[f][k].end
      BY <1>0, <1>2, <3>1 DEF InLine
    <3>3. text[f][k + 1].line = text[f][k].line
      BY <3>2 DEF TextInv, LinesWhole
    <3>4. PICK n \in 1..MaxLine : n = p.line
      BY DEF Piece
    <3>5. text[f][k] = Body(n) /\ p = End(n)
      BY <1>0, <2>2, <3>2, <3>3, <3>4 DEF Piece, Body, End
    <3>6. r.open.pending \in Pending
      BY DEF ReadState, OpenFile
    <3>7. WholeLine(Append(r.open.pending, p))
      BY <3>1, <3>5, <3>6, LineMade
    <3>8. PICK l \in Seq(Piece) : l = Append(r.open.pending, p)
      BY <3>6, LineMade
    <3>9. r.lines \in Seq(Seq(Piece))
      BY DEF ReadState
    <3>11. SoundLine(l)
      BY <3>7, <3>8 DEF SoundLine
    <3> QED BY <2>2, <3>8, <3>9, <3>11, OneMoreLine
  <2> QED BY <1>b, <2>1, <2>2 DEF Discards, EndsLine, BeginsBody, BecomesLong
<1> QED BY <1>6, <1>7

\* A poll reads on from the offset, as far as it goes.
Progress(r, q) ==
  /\ q \in ReadState
  /\ q.open.file = r.open.file /\ q.open.gen = r.open.gen /\ q.open.idle = r.open.idle
  /\ r.open.offset <= q.open.offset
  /\ q.open.offset > r.open.offset => q.open.offset <= Len(text[r.open.file])
  /\ q.left = r.left - (q.open.offset - r.open.offset)

\* It goes on reading where nothing is known.
Reads(r, q) ==
  /\ Progress(r, q)
  /\ Once(q.lines) /\ Clean(q.open.file, q.open.offset, q.lines)
  /\ CleanElsewhere(q.open.file, r.lines, q.lines)

Parses(r, q) ==
  Parsed(r.open) /\ SoundLines(r.lines) => Parsed(q.open) /\ SoundLines(q.lines)

\* The pieces ReadOn reads are those behind the offset, at most as many as the poll may
\* read.
LEMMA PiecesOf ==
  ASSUME TypeOK, NEW o \in OpenFile, NEW budget \in Nat
  PROVE  /\ Unread(o) \in Seq(Piece)
         /\ \E m \in Nat :
              /\ m <= budget
              /\ DOMAIN SubSeq(Unread(o), 1, IF budget < Len(Unread(o)) THEN budget ELSE Len(Unread(o))) = 1..m
              /\ \A k \in 1..m :
                   /\ o.offset + k \in DOMAIN text[o.file]
                   /\ SubSeq(Unread(o), 1, IF budget < Len(Unread(o)) THEN budget ELSE Len(Unread(o)))[k]
                        = text[o.file][o.offset + k]
              /\ Unread(o) = <<>> => m = 0
<1>1. PICK f \in Files, n \in Nat, s \in Seq(Piece) : f = o.file /\ n = o.offset /\ s = text[f]
  BY DEF OpenFile, TypeOK
<1>2. PICK l \in Nat : l = Len(s) /\ DOMAIN s = 1..l
  BY <1>1, LenProperties
<1>3. \A i \in 1..l : s[i] \in Piece
  BY <1>2, ElementOfSeq
<1>4. PICK u : u = SubSeq(s, n + 1, l)
  OBVIOUS
<1>5. Unread(o) = u
  BY <1>1, <1>2, <1>4 DEF Unread
<1>6. CASE l <= n
  <2>1. u = <<>>
    BY <1>4, <1>6
  <2>2. u \in Seq(Piece) /\ Len(u) = 0
    BY <2>1
  <2>3. SubSeq(u, 1, IF budget < Len(u) THEN budget ELSE Len(u)) = <<>>
    BY <2>2
  <2>4. DOMAIN SubSeq(u, 1, IF budget < Len(u) THEN budget ELSE Len(u)) = 1..0
    BY <2>3
  <2> QED BY <1>5, <2>2, <2>4
<1>7. CASE ~(l <= n)
  <2>1. \A i \in (n + 1)..l : s[i] \in Piece
    BY <1>3
  <2>2. n + 1 \in 1..(l + 1) /\ l \in n..l
    BY <1>7
  <2>3. u \in Seq(Piece) /\ Len(u) = l - n /\ \A i \in 1..(l - n) : u[i] = s[n + i]
    <3>1. n + 1 \in Int /\ l \in Int
      OBVIOUS
    <3> QED BY <1>2, <1>3, <1>4, <1>7
  <2>0. l - n \in Nat
    BY <1>7
  <2>4. PICK m \in Nat : m = (IF budget < l - n THEN budget ELSE l - n) /\ m <= budget /\ m <= l - n
    <3>1. CASE budget < l - n
      BY <2>0, <3>1
    <3>2. CASE ~(budget < l - n)
      BY <2>0, <3>2
    <3> QED BY <3>1, <3>2
  <2>5. m <= budget /\ m <= l - n
    BY <2>4
  <2>6. PICK p : p = SubSeq(u, 1, m)
    OBVIOUS
  <2>7. DOMAIN p = 1..m /\ \A k \in 1..m : p[k] = u[k]
    BY <2>3, <2>5, <2>6
  <2>8. p = SubSeq(Unread(o), 1, IF budget < Len(Unread(o)) THEN budget ELSE Len(Unread(o)))
    BY <1>5, <2>3, <2>4, <2>6
  <2>9. \A k \in 1..m : n + k \in DOMAIN s /\ p[k] = s[n + k]
    BY <1>2, <2>3, <2>5, <2>7
  <2>10. u # <<>>
    BY <1>7, <2>3
  <2> QED BY <1>1, <1>5, <2>3, <2>5, <2>7, <2>8, <2>9, <2>10
<1> QED BY <1>6, <1>7

\* What the poll may still read becomes one piece less with one piece read.
LEMMA LeftLess ==
  ASSUME NEW b \in Nat, NEW c \in Nat, NEW d \in Nat, NEW n \in Nat, d = c - (n - b)
  PROVE  d - 1 = c - (n + 1 - b)
OBVIOUS

\* One more piece, and the poll has read on where nothing is known.
LEMMA ReadsOne ==
  ASSUME TypeOK, TextInv, NEW r \in ReadState, NEW t, Reads(r, t), Len(t.lines) < MaxLines,
         t.left > 0, NEW n \in Nat, n = t.open.offset, n + 1 \in DOMAIN text[t.open.file],
         NEW q, q = Take(t, text[t.open.file][n + 1])
  PROVE  Reads(r, q) /\ q.open.offset = n + 1
<1>1. t \in ReadState /\ t.open \in OpenFile
  BY DEF Reads, Progress, ReadState
<1>2. PICK f \in Files : f = t.open.file
  BY <1>1 DEF OpenFile
<1>3. text[f] \in Seq(Piece) /\ DOMAIN text[f] = 1..Len(text[f]) /\ Len(text[f]) \in Nat
  BY <1>2, LenProperties DEF TypeOK
<1>4. PICK p \in Piece : p = text[f][n + 1]
  BY <1>2, <1>3
<1>5. Once(t.lines) /\ Clean(f, n, t.lines)
  BY <1>2 DEF Reads
<1>6. /\ Advanced(t, q)
      /\ Once(q.lines) /\ Clean(f, n + 1, q.lines)
      /\ CleanElsewhere(f, t.lines, q.lines)
  BY <1>1, <1>2, <1>4, <1>5, TakeOne
<1>7. q.open.file = f /\ q.open.offset = n + 1
  BY <1>2, <1>6 DEF Advanced
<1>8. CleanElsewhere(f, r.lines, q.lines)
  BY <1>2, <1>6 DEF Reads, CleanElsewhere
<1>9. Progress(r, q)
  <2>1. /\ q \in ReadState /\ q.open.gen = t.open.gen /\ q.open.idle = t.open.idle
        /\ q.left = t.left - 1
    BY <1>6 DEF Advanced
  <2>2. /\ r.open.file = f /\ r.open.gen = t.open.gen /\ r.open.idle = t.open.idle
        /\ r.open.offset <= n /\ t.left = r.left - (n - r.open.offset)
    BY <1>2 DEF Reads, Progress
  <2>3. r.open.offset \in Nat /\ r.left \in Nat /\ t.left \in Nat
    BY <1>1 DEF ReadState, OpenFile
  <2>a. PICK b \in Nat, c \in Nat, d \in Nat : b = r.open.offset /\ c = r.left /\ d = t.left
    BY <2>3
  <2>b. b <= n /\ d = c - (n - b)
    BY <2>2, <2>a
  <2>4. n + 1 <= Len(text[f]) /\ b <= n + 1
    BY <1>2, <1>3, <2>b
  <2>e. PICK e \in Nat : e = n + 1
    OBVIOUS
  <2>c. d - 1 = c - (e - b)
    <3>1. PICK x \in Nat : x = n
      OBVIOUS
    <3>2. d = c - (x - b)
      BY <2>b, <3>1
    <3>3. d - 1 = c - (x + 1 - b)
      BY ONLY <3>2, LeftLess, d \in Nat, c \in Nat, b \in Nat, x \in Nat
    <3>4. e = x + 1
      BY <2>e, <3>1
    <3> QED BY ONLY <3>3, <3>4
  <2>5. q.left = c - (e - b)
    BY <2>1, <2>a, <2>c
  <2>6. q.open.offset > r.open.offset => q.open.offset <= Len(text[r.open.file])
    BY <1>7, <2>2, <2>4
  <2>7. r.open.offset <= q.open.offset
    BY <1>7, <2>4, <2>a
  <2>8. q.left = r.left - (q.open.offset - r.open.offset)
    <3>2. q.open.offset = e /\ r.left = c /\ r.open.offset = b
      BY <1>7, <2>a, <2>e
    <3> QED BY <2>5, <3>2
  <2>9. q.open.file = r.open.file /\ q.open.gen = r.open.gen /\ q.open.idle = r.open.idle
    BY <1>7, <2>1, <2>2
  <2> QED BY <2>1, <2>6, <2>7, <2>8, <2>9 DEF Progress
<1> QED BY <1>6, <1>7, <1>8, <1>9 DEF Reads

\* One more piece, and the text is parsed one piece further.
LEMMA ParsesOne ==
  ASSUME TypeOK, TextInv, NEW t \in ReadState, Len(t.lines) < MaxLines,
         t.left > 0, NEW n \in Nat, n = t.open.offset, n + 1 \in DOMAIN text[t.open.file],
         NEW q, q = Take(t, text[t.open.file][n + 1])
  PROVE  Parses(t, q)
<1>1. PICK f \in Files : f = t.open.file
  BY DEF OpenFile, ReadState
<1>2. text[f] \in Seq(Piece) /\ DOMAIN text[f] = 1..Len(text[f])
  BY <1>1, LenProperties DEF TypeOK
<1>3. PICK p \in Piece : p = text[f][n + 1]
  BY <1>1, <1>2
<1>4. ASSUME Parsed(t.open), SoundLines(t.lines) PROVE Parsed(q.open) /\ SoundLines(q.lines)
  <2>1. q = Take(t, p) /\ n + 1 \in DOMAIN text[f]
    BY <1>1, <1>3
  <2>2. /\ TypeOK /\ TextInv
        /\ t \in ReadState /\ Len(t.lines) < MaxLines /\ t.left > 0
        /\ f \in Files /\ f = t.open.file
        /\ n \in Nat /\ n = t.open.offset
        /\ p \in Piece /\ p = text[f][n + 1]
    BY <1>1, <1>3
  <2> QED BY ONLY <1>4, <2>1, <2>2, TakeParsed, SMTT(30)
<1> QED BY <1>4 DEF Parses

\* A poll reads on in a file.
LEMMA Reading ==
  ASSUME TypeOK, TextInv, NEW o \in OpenFile, NEW lines \in Seq(Seq(Piece)), NEW budget \in Nat,
         Once(lines), Clean(o.file, o.offset, lines),
         NEW r, r = [open |-> o, lines |-> lines, left |-> budget],
         NEW q, q = ReadOn(o, lines, budget)
  PROVE  /\ Reads(r, q)
         /\ Parses(r, q)
         /\ Unread(o) = <<>> => q = r
<1>0. r \in ReadState /\ r.open = o /\ r.lines = lines /\ r.left = budget
  BY DEF ReadState
<1>1. PICK s : s = SubSeq(Unread(o), 1, IF budget < Len(Unread(o)) THEN budget ELSE Len(Unread(o)))
  OBVIOUS
<1>2. PICK m \in Nat :
        /\ m <= budget /\ DOMAIN s = 1..m
        /\ \A k \in 1..m : o.offset + k \in DOMAIN text[o.file] /\ s[k] = text[o.file][o.offset + k]
        /\ Unread(o) = <<>> => m = 0
  BY <1>1, PiecesOf
<1>3. q = FoldLeft(Take, r, s)
  BY <1>1 DEF ReadOn
<1>c. PICK v : TakesUp(v, r, s, m)
  BY <1>2, ReadSteps
<1>4. v[0] = r /\ (\A k \in 1..m : v[k] = Take(v[k - 1], s[k])) /\ q = v[m]
  <2>1. v[0] = r /\ (\A k \in 1..m : v[k] = Take(v[k - 1], s[k])) /\ TakeAll(r, s) = v[m]
    BY <1>c DEF TakesUp
  <2>2. q = TakeAll(r, s)
    BY <1>3 DEF TakeAll
  <2> QED BY <2>1, <2>2
<1>5. PICK f \in Files, n \in Nat : f = o.file /\ n = o.offset
  BY DEF OpenFile
<1>a. Len(lines) \in Nat /\ MaxLines \in Nat
  BY TailerAssumption
<1> DEFINE Fits(k) == /\ Reads(r, v[k]) /\ Parses(r, v[k])
                      /\ v[k].open.offset = n + k \/ Len(v[k].lines) >= MaxLines
           G == {k \in Nat : Fits(k)}
<1>6. Fits(0)
  <2>1. Progress(r, r)
    BY <1>0, <1>5 DEF Progress
  <2>2. Reads(r, r)
    BY <1>0, <2>1 DEF Reads, CleanElsewhere
  <2>3. Parses(r, r)
    BY DEF Parses
  <2> QED BY <1>0, <1>4, <1>5, <2>2, <2>3
<1>7. ASSUME NEW k \in Nat, k < m, Fits(k) PROVE Fits(k + 1)
  <2>1. PICK t : t = v[k]
    OBVIOUS
  <2>2. Reads(r, t) /\ Parses(r, t)
    BY <1>7, <2>1
  <2>3. t \in ReadState /\ t.open.file = f /\ t.open \in OpenFile
    BY <1>0, <1>5, <2>2 DEF Reads, Progress, ReadState
  <2>4. k + 1 \in 1..m /\ k + 1 - 1 = k
    BY <1>7
  <2>5. v[k + 1] = Take(t, s[k + 1])
    <3>1. \A x \in 1..m : v[x] = Take(v[x - 1], s[x])
      BY ONLY <1>4
    <3>2. v[k + 1] = Take(v[k + 1 - 1], s[k + 1])
      BY ONLY <2>4, <3>1
    <3>3. v[k + 1 - 1] = t
      BY ONLY <2>1, <2>4
    <3> QED BY ONLY <3>2, <3>3
  <2>6. Len(t.lines) \in Nat
    BY <2>3 DEF ReadState
  <2>7. CASE Len(t.lines) >= MaxLines
    <3>1. v[k + 1] = t
      <4>1. PICK p : p = s[k + 1]
        OBVIOUS
      <4>2. ~(Len(t.lines) < MaxLines)
        BY <1>a, <2>6, <2>7
      <4>3. Take(t, p) = t
        BY <2>7, <4>2 DEF Take
      <4> QED BY <2>5, <4>1, <4>3
    <3> QED BY <2>2, <2>7, <3>1
  <2>8. CASE ~(Len(t.lines) >= MaxLines)
    <3>1. t.open.offset = n + k
      BY <1>7, <2>1, <2>8
    <3>2. PICK p : p = n + k /\ p \in Nat
      OBVIOUS
    <3>3. p + 1 \in DOMAIN text[f] /\ s[k + 1] = text[f][p + 1]
      <4>1. n + (k + 1) \in DOMAIN text[f] /\ s[k + 1] = text[f][n + (k + 1)]
        BY <1>2, <1>5, <2>4
      <4>2. n + (k + 1) = p + 1
        BY <3>2
      <4> QED BY <4>1, <4>2
    <3>4. t.left > 0
      <4>1. t.left = budget - (t.open.offset - n)
        BY <1>0, <1>5, <2>2 DEF Reads, Progress
      <4> QED BY <1>2, <1>7, <3>1, <4>1
    <3>5. Len(t.lines) < MaxLines
      BY <1>a, <2>6, <2>8
    <3>6. PICK w : w = v[k + 1]
      OBVIOUS
    <3>7. w = Take(t, text[f][p + 1])
      BY <2>5, <3>3, <3>6
    <3>8. Reads(r, w) /\ w.open.offset = p + 1
      BY <1>0, <2>2, <2>3, <3>1, <3>2, <3>3, <3>4, <3>5, <3>7, ReadsOne
    <3>9. Parses(r, w)
      <4>1. Parses(t, w)
        BY <2>3, <3>1, <3>2, <3>3, <3>4, <3>5, <3>7, ParsesOne
      <4> QED BY <2>2, <4>1 DEF Parses
    <3>10. p + 1 = n + (k + 1)
      BY <3>2
    <3> QED BY <3>6, <3>8, <3>9, <3>10
  <2> QED BY <2>7, <2>8
<1>8. m \in G
  <2> HIDE DEF Fits
  <2>1. 0 \in G /\ \A k \in 0..m : k \in G /\ k < m => k + 1 \in G
    BY <1>6, <1>7
  <2> HIDE DEF G
  <2> QED BY <2>1, NatInduct
<1>9. Reads(r, q) /\ Parses(r, q)
  BY <1>4, <1>8
<1>10. Unread(o) = <<>> => q = r
  BY <1>2, <1>4
<1> QED BY <1>9, <1>10

(* ------------------------------ a rotated file ------------------------- *)

\* Where something is unread, the offset is inside the text.
LEMMA UnreadSome ==
  ASSUME TypeOK, NEW o \in OpenFile, Unread(o) # <<>>
  PROVE  o.offset < Len(text[o.file])
<1>1. PICK f \in Files, n \in Nat, s \in Seq(Piece) : f = o.file /\ n = o.offset /\ s = text[f]
  BY DEF OpenFile, TypeOK
<1>2. SubSeq(s, n + 1, Len(s)) # <<>>
  BY <1>1 DEF Unread
<1>3. Len(s) \in Nat
  OBVIOUS
<1>4. ~(Len(s) <= n)
  BY <1>2, <1>3
<1>5. n < Len(s)
  BY <1>3, <1>4
<1> QED BY <1>1, <1>5

\* The anchor of an offset inside the text is a piece, or None at the beginning.
LEMMA AnchorType ==
  ASSUME TypeOK, NEW f \in Files, NEW n \in Nat, n <= Len(text[f])
  PROVE  AnchorAt(f, n) \in Piece \cup {None}
<1>1. text[f] \in Seq(Piece)
  BY DEF TypeOK
<1>2. CASE n = 0
  BY <1>2 DEF AnchorAt
<1>3. CASE n # 0
  <2>1. n \in 1..Len(text[f])
    BY <1>1, <1>3
  <2>2. text[f][n] \in Piece
    BY <1>1, <2>1, ElementOfSeq
  <2> QED BY <1>3, <2>2 DEF AnchorAt
<1> QED BY <1>2, <1>3

\* Noted keeps what was parsed.
Reparsed(o, now) ==
  /\ now \in OpenFile
  /\ now.file = o.file /\ now.offset = o.offset
  /\ now.pending = o.pending /\ now.discarding = o.discarding

\* A file is parsed whatever is noted of its metadata.
LEMMA SameParsed ==
  ASSUME NEW o, NEW now, Reparsed(o, now)
  PROVE  Parsed(o) => Parsed(now)
BY DEF Reparsed, Parsed

\* Noted changes metadata and anchor only, and takes both as they are.
LEMMA NotedFile ==
  ASSUME TypeOK, NEW o \in OpenFile, o.offset <= Len(text[o.file])
  PROVE  /\ Reparsed(o, Noted(o))
         /\ Noted(o).idle = o.idle
         /\ Noted(o).gen = generation[o.file]
         /\ Noted(o).anchor = AnchorAt(o.file, o.offset)
<1>1. PICK f \in Files, n \in Nat : f = o.file /\ n = o.offset
  BY DEF OpenFile
<1>2. PICK l \in Nat : l = Len(text[f])
  <2>1. text[f] \in Seq(Piece)
    BY DEF TypeOK
  <2> QED BY <2>1, LenProperties
<1>3. PICK g \in 0..MaxTruncations : g = generation[f]
  BY DEF TypeOK
<1>4. PICK a \in Piece \cup {None} : a = AnchorAt(f, n)
  BY <1>1, AnchorType
<1>5. Noted(o) = [o EXCEPT !.len = l, !.gen = g, !.anchor = a]
  BY <1>1, <1>2, <1>3, <1>4 DEF Noted
<1>6. [o EXCEPT !.len = l, !.gen = g, !.anchor = a] \in OpenFile
  BY DEF OpenFile
<1>7. Reparsed(o, [o EXCEPT !.len = l, !.gen = g, !.anchor = a])
  BY <1>6 DEF Reparsed, OpenFile
<1>8. /\ [o EXCEPT !.len = l, !.gen = g, !.anchor = a].idle = o.idle
      /\ [o EXCEPT !.len = l, !.gen = g, !.anchor = a].gen = g
      /\ [o EXCEPT !.len = l, !.gen = g, !.anchor = a].anchor = a
  BY DEF OpenFile
<1> QED BY <1>1, <1>3, <1>4, <1>5, <1>7, <1>8

\* An incomplete line, added at the end of its file, makes none known.
LEMMA PendingAdded ==
  ASSUME TypeOK, NEW lines \in Seq(Seq(Piece)), NEW pend \in Pending, pend # <<>>,
         NEW more, more = Append(lines, pend), Once(lines)
  PROVE  /\ more \in Seq(Seq(Piece))
         /\ Once(more)
         /\ \A n \in 1..MaxLine : Known(more, n) => Known(lines, n)
         /\ SoundLines(lines) => SoundLines(more)
<1>1. PICK m \in 1..MaxLine : pend = <<Body(m)>>
  BY DEF Pending
<1>2. Body(m) \in Piece /\ ~Body(m).end
  BY TailerAssumption DEF Body, Piece
<1>3. PICK l \in Seq(Piece) : l = pend
  <2>1. PICK b \in Piece : b = Body(m)
    BY <1>2
  <2>2. <<b>> \in Seq(Piece)
    OBVIOUS
  <2> QED BY <1>1, <2>1, <2>2
<1>4. more \in Seq(Seq(Piece)) /\ more = Append(lines, l)
  BY <1>3
<1>5. ~WholeLine(l)
  <2>1. \A n \in 1..MaxLine : <<Body(m)>> # <<Body(n), End(n)>>
    OBVIOUS
  <2> QED BY <1>1, <1>3, <2>1 DEF WholeLine
<1>6. \A n \in 1..MaxLine : ~Counted(l, n)
  BY <1>5 DEF Counted
<1>7. Once(more)
  BY <1>4, <1>6, OnceAdded
<1>8. \A n \in 1..MaxLine : Known(more, n) => Known(lines, n)
  BY <1>4, <1>6, KnownBefore
<1>9. SoundLine(l)
  <2>1. Last(<<Body(m)>>) = Body(m)
    BY DEF Last
  <2> QED BY <1>1, <1>2, <1>3, <2>1 DEF SoundLine
<1>10. ASSUME SoundLines(lines) PROVE SoundLines(more)
  <2>1. /\ DOMAIN lines = 1..Len(lines) /\ DOMAIN more = 1..(Len(lines) + 1)
        /\ more[Len(lines) + 1] = l /\ \A i \in 1..Len(lines) : more[i] = lines[i]
        /\ Len(lines) \in Nat
    BY <1>4, AppendProperties, LenProperties
  <2>2. \A i \in 1..(Len(lines) + 1) : i \in 1..Len(lines) \/ i = Len(lines) + 1
    BY <2>1
  <2> QED BY <1>9, <1>10, <2>1, <2>2 DEF SoundLines
<1> QED BY <1>4, <1>7, <1>8, <1>10

DrainState == [lines : Seq(Seq(Piece)), left : Nat, kept : Seq(OpenFile)]

\* The file is kept, as far as it was read.
Keeps(r, o, q) ==
  \E now \in OpenFile :
    /\ q.kept = Append(r.kept, now)
    /\ now.file = o.file /\ now.idle < RetiredIdlePolls
    /\ Clean(now.file, now.offset, q.lines)
    /\ Parsed(o) /\ SoundLines(r.lines) => Parsed(now)

Drains(r, o, q) ==
  /\ q \in DrainState
  /\ Once(q.lines)
  /\ CleanElsewhere(o.file, r.lines, q.lines)
  /\ Parsed(o) /\ SoundLines(r.lines) => SoundLines(q.lines)
  /\ q.kept = r.kept \/ Keeps(r, o, q)

\* What Drain does with one rotated file.
LEMMA DrainOne ==
  ASSUME TypeOK, TextInv, NEW o \in OpenFile, o.idle < RetiredIdlePolls,
         NEW r \in DrainState, Once(r.lines), Clean(o.file, o.offset, r.lines),
         NEW q, q = Drain(r, o)
  PROVE  Drains(r, o, q)
<1>1. r.lines \in Seq(Seq(Piece)) /\ r.left \in Nat /\ r.kept \in Seq(OpenFile)
  BY DEF DrainState
<1>2. CleanElsewhere(o.file, r.lines, r.lines)
  BY DEF CleanElsewhere
<1>3. CASE r.left = 0 \/ Len(r.lines) >= MaxLines
  <2>1. q = [r EXCEPT !.kept = Append(@, o)]
    BY <1>3 DEF Drain
  <2>2. q.lines = r.lines /\ q.left = r.left /\ q.kept = Append(r.kept, o)
    BY <2>1 DEF DrainState
  <2>3. q \in DrainState
    <3>1. Append(r.kept, o) \in Seq(OpenFile)
      BY <1>1
    <3> QED BY <2>1, <3>1 DEF DrainState
  <2>4. Keeps(r, o, q)
    BY <2>2 DEF Keeps
  <2> QED BY <1>2, <2>2, <2>3, <2>4 DEF Drains
<1>4. CASE ~(r.left = 0 \/ Len(r.lines) >= MaxLines)
  <2>1. PICK r0 : r0 = [open |-> o, lines |-> r.lines, left |-> r.left]
    OBVIOUS
  <2>2. PICK read : read = ReadOn(o, r.lines, r.left)
    OBVIOUS
  <2>3. Reads(r0, read) /\ Parses(r0, read) /\ (Unread(o) = <<>> => read = r0)
    BY <1>1, <2>1, <2>2, Reading
  <2>4. r0.open = o /\ r0.lines = r.lines /\ r0.left = r.left
    BY <2>1
  <2>5. /\ read \in ReadState /\ read.open \in OpenFile /\ read.open.file = o.file
        /\ read.lines \in Seq(Seq(Piece)) /\ read.left \in Nat
    BY <2>3, <2>4 DEF Reads, Progress, ReadState
  <2>6. CleanElsewhere(o.file, r.lines, read.lines) /\ Once(read.lines)
    BY <2>3, <2>4, <2>5 DEF Reads
  <2>7. CASE Unread(o) # <<>>
    <3>1. PICK now : now = [Noted(read.open) EXCEPT !.idle = 0]
      OBVIOUS
    <3>2. ~GivenUp(now)
      <4>1. read.open.offset <= Len(text[o.file])
        <5>1. o.offset < Len(text[o.file]) /\ o.offset \in Nat
          BY <2>7, UnreadSome DEF OpenFile
        <5>2. Len(text[o.file]) \in Nat
          BY LenProperties DEF TypeOK, OpenFile
        <5>3. /\ o.offset <= read.open.offset
              /\ read.open.offset > o.offset => read.open.offset <= Len(text[o.file])
          BY <2>3, <2>4 DEF Reads, Progress
        <5>4. read.open.offset \in Nat
          BY <2>5 DEF OpenFile
        <5> QED BY <5>1, <5>2, <5>3, <5>4
      <4>2. Noted(read.open) \in OpenFile
        BY <2>5, <4>1, NotedFile DEF Reparsed
      <4>3. now.idle = 0
        BY <3>1, <4>2 DEF OpenFile
      <4> QED BY <4>3 DEF GivenUp, RetiredIdlePolls
    <3>3. q = [lines |-> read.lines, left |-> read.left, kept |-> Append(r.kept, now)]
      BY <1>4, <2>2, <2>7, <3>1, <3>2 DEF Drain
    <3>4. read.open.offset <= Len(text[o.file])
      <4>1. o.offset < Len(text[o.file]) /\ o.offset \in Nat
        BY <2>7, UnreadSome DEF OpenFile
      <4>2. Len(text[o.file]) \in Nat
        BY LenProperties DEF TypeOK, OpenFile
      <4>3. /\ o.offset <= read.open.offset
            /\ read.open.offset > o.offset => read.open.offset <= Len(text[o.file])
        BY <2>3, <2>4 DEF Reads, Progress
      <4>4. read.open.offset \in Nat
        BY <2>5 DEF OpenFile
      <4> QED BY <4>1, <4>2, <4>3, <4>4
    <3>5. Reparsed(read.open, Noted(read.open))
      BY <2>5, <3>4, NotedFile
    <3>6. Reparsed(read.open, now) /\ now.idle = 0
      <4>1. PICK n0 \in OpenFile : n0 = Noted(read.open)
        BY <3>5 DEF Reparsed
      <4>2. now = [n0 EXCEPT !.idle = 0]
        BY <3>1, <4>1
      <4>3. now \in OpenFile /\ now.idle = 0
        BY <4>2 DEF OpenFile, RetiredIdlePolls
      <4>4. /\ now.file = n0.file /\ now.offset = n0.offset
            /\ now.pending = n0.pending /\ now.discarding = n0.discarding
        BY <4>2 DEF OpenFile
      <4> QED BY <3>5, <4>1, <4>3, <4>4 DEF Reparsed
    <3>7. q.lines = read.lines /\ q.left = read.left /\ q.kept = Append(r.kept, now)
      BY <3>3
    <3>8. now \in OpenFile
      BY <3>6 DEF Reparsed
    <3>9. q \in DrainState
      <4>1. Append(r.kept, now) \in Seq(OpenFile)
        BY <1>1, <3>8
      <4> QED BY <2>5, <3>3, <4>1 DEF DrainState
    <3>10. Clean(now.file, now.offset, q.lines)
      BY <2>3, <3>6, <3>7 DEF Reads, Reparsed
    <3>11. Parsed(o) /\ SoundLines(r.lines) => Parsed(now) /\ SoundLines(q.lines)
      BY <2>3, <2>4, <3>6, <3>7, SameParsed DEF Parses
    <3>12. now.file = o.file /\ now.idle < RetiredIdlePolls
      BY <2>5, <3>6 DEF Reparsed, RetiredIdlePolls
    <3>13. Keeps(r, o, q)
      BY <3>7, <3>8, <3>10, <3>11, <3>12 DEF Keeps
    <3> QED BY <2>6, <3>7, <3>9, <3>11, <3>13 DEF Drains
  <2>8. CASE Unread(o) = <<>>
    <3>0. read = r0 /\ read.lines = r.lines /\ read.left = r.left
      BY <2>3, <2>4, <2>8
    <3>1. PICK now : now = [o EXCEPT !.idle = @ + 1]
      OBVIOUS
    <3>2. now \in OpenFile /\ now.idle = o.idle + 1
      <4>1. o.idle \in 0..2 /\ o.idle < 2
        BY DEF OpenFile, RetiredIdlePolls
      <4>2. PICK k \in 0..2 : k = o.idle + 1
        BY <4>1
      <4>3. now = [o EXCEPT !.idle = k]
        BY <3>1, <4>2
      <4> QED BY <4>2, <4>3 DEF OpenFile, RetiredIdlePolls
    <3>3. Reparsed(o, now)
      BY <3>1, <3>2 DEF Reparsed, OpenFile
    <3>4. CASE ~GivenUp(now)
      <4>1. q = [lines |-> r.lines, left |-> r.left, kept |-> Append(r.kept, now)]
        BY <1>4, <2>2, <2>8, <3>0, <3>1, <3>4 DEF Drain
      <4>2. q \in DrainState
        <5>1. Append(r.kept, now) \in Seq(OpenFile)
          BY <1>1, <3>2
        <5> QED BY <1>1, <4>1, <5>1 DEF DrainState
      <4>3. q.lines = r.lines /\ q.kept = Append(r.kept, now)
        BY <4>1
      <4>4. Clean(now.file, now.offset, q.lines)
        BY <3>3, <4>3 DEF Reparsed
      <4>5. now.idle < RetiredIdlePolls
        BY <3>2, <3>4 DEF GivenUp, OpenFile, RetiredIdlePolls
      <4>6. now.file = o.file
        BY <3>3 DEF Reparsed
      <4>7. Keeps(r, o, q)
        BY <3>2, <3>3, <4>3, <4>4, <4>5, <4>6, SameParsed DEF Keeps
      <4> QED BY <1>2, <4>2, <4>3, <4>7 DEF Drains
    <3>5. CASE GivenUp(now)
      <4>0. o.pending \in Pending /\ now.pending = o.pending
        BY <3>3 DEF OpenFile, Reparsed
      <4>1. CASE o.pending = <<>>
        <5>1. q = [lines |-> r.lines, left |-> r.left, kept |-> r.kept]
          BY <1>4, <2>2, <2>8, <3>0, <3>1, <3>5, <4>0, <4>1 DEF Drain
        <5>2. q \in DrainState /\ q.lines = r.lines /\ q.kept = r.kept
          BY <1>1, <5>1 DEF DrainState
        <5> QED BY <1>2, <5>2 DEF Drains
      <4>2. CASE o.pending # <<>>
        <5>1. q = [lines |-> Append(r.lines, o.pending), left |-> r.left, kept |-> r.kept]
          BY <1>4, <2>2, <2>8, <3>0, <3>1, <3>5, <4>0, <4>2 DEF Drain
        <5>2. PICK more : more = Append(r.lines, o.pending)
          OBVIOUS
        <5>3. /\ more \in Seq(Seq(Piece)) /\ Once(more)
              /\ \A n \in 1..MaxLine : Known(more, n) => Known(r.lines, n)
              /\ SoundLines(r.lines) => SoundLines(more)
          <6>1. PICK ls \in Seq(Seq(Piece)), pend \in Pending : ls = r.lines /\ pend = o.pending
            BY <1>1, <4>0
          <6>2. /\ TypeOK /\ ls \in Seq(Seq(Piece)) /\ pend \in Pending /\ pend # <<>>
                /\ more = Append(ls, pend) /\ Once(ls)
            BY <4>2, <5>2, <6>1
          <6>3. /\ more \in Seq(Seq(Piece)) /\ Once(more)
                /\ \A n \in 1..MaxLine : Known(more, n) => Known(ls, n)
                /\ SoundLines(ls) => SoundLines(more)
            BY ONLY <6>2, PendingAdded
          <6> QED BY <6>1, <6>3
        <5>4. q \in DrainState /\ q.lines = more /\ q.kept = r.kept
          BY <1>1, <5>1, <5>2, <5>3 DEF DrainState
        <5>5. CleanElsewhere(o.file, r.lines, more)
          <6> SUFFICES ASSUME NEW g \in Files, NEW k \in Nat, Clean(g, k, r.lines),
                              NEW i \in DOMAIN text[g], i > k, text[g][i].end,
                              Known(more, text[g][i].line)
                       PROVE  FALSE
            BY DEF CleanElsewhere, Clean
          <6>1. text[g][i].line \in 1..MaxLine
            <7>1. text[g] \in Seq(Piece)
              BY DEF TypeOK
            <7>2. text[g][i] \in Piece
              BY <7>1
            <7> QED BY <7>2 DEF Piece
          <6> QED BY <5>3, <6>1 DEF Clean
        <5> QED BY <5>3, <5>4, <5>5 DEF Drains
      <4> QED BY <4>1, <4>2
    <3> QED BY <3>4, <3>5
  <2> QED BY <2>7, <2>8
<1> QED BY <1>3, <1>4

\* What holds of the lines and of the files kept when the first k are drained.
KeptFiles(k, r) ==
  /\ \A i \in DOMAIN r.kept : r.kept[i].idle < RetiredIdlePolls
  /\ \A i \in DOMAIN r.kept : \E j \in DOMAIN retired : j <= k /\ retired[j].file = r.kept[i].file
  /\ \A i, j \in DOMAIN r.kept : r.kept[i].file = r.kept[j].file => i = j

DrainedClean(k, r) ==
  /\ \A i \in DOMAIN r.kept : Clean(r.kept[i].file, r.kept[i].offset, r.lines)
  /\ \A i \in DOMAIN retired : i > k => Clean(retired[i].file, retired[i].offset, r.lines)

OthersClean(r) ==
  \A g \in Files, n \in Nat :
    (\A i \in DOMAIN retired : retired[i].file # g) /\ Clean(g, n, poll.lines)
      => Clean(g, n, r.lines)

DrainedParsed(r) ==
  (\A i \in DOMAIN retired : Parsed(retired[i])) /\ SoundLines(poll.lines)
    => SoundLines(r.lines) /\ \A i \in DOMAIN r.kept : Parsed(r.kept[i])

Drained(k, r) ==
  /\ r \in DrainState /\ Once(r.lines)
  /\ KeptFiles(k, r) /\ DrainedClean(k, r) /\ OthersClean(r) /\ DrainedParsed(r)

\* One more rotated file drained.
LEMMA DrainedOne ==
  ASSUME TypeOK, TextInv, NEW k \in Nat, k + 1 \in DOMAIN retired,
         NEW r, Drained(k, r), NEW q, q = Drain(r, retired[k + 1])
  PROVE  Drained(k + 1, q)
<1>1. PICK x \in DOMAIN retired : x = k + 1
  OBVIOUS
<1>2. DOMAIN retired = 1..Len(retired) /\ Len(retired) \in Nat /\ x \in Nat
  BY LenProperties DEF TypeOK
<1>3. PICK o \in OpenFile : o = retired[x]
  BY ElementOfSeq, <1>2 DEF TypeOK
<1>4. o.idle < RetiredIdlePolls
  BY <1>3 DEF TypeOK
<1>5. r \in DrainState /\ Once(r.lines) /\ r.kept \in Seq(OpenFile)
  BY DEF Drained, DrainState
<1>6. Clean(o.file, o.offset, r.lines)
  BY <1>1, <1>2, <1>3 DEF Drained, DrainedClean
<1>7. Drains(r, o, q)
  BY <1>1, <1>3, <1>4, <1>5, <1>6, DrainOne
<1>8. /\ q \in DrainState /\ Once(q.lines) /\ CleanElsewhere(o.file, r.lines, q.lines)
      /\ Parsed(o) /\ SoundLines(r.lines) => SoundLines(q.lines)
      /\ q.kept = r.kept \/ Keeps(r, o, q)
  BY <1>7 DEF Drains
<1>9. \A i \in DOMAIN retired : i # x => retired[i].file # o.file
  BY <1>3 DEF TypeOK
<1>10. \A i \in DOMAIN r.kept : /\ r.kept[i] \in OpenFile /\ r.kept[i].file \in Files
                                /\ r.kept[i].offset \in Nat /\ r.kept[i].file # o.file
  <2> TAKE i \in DOMAIN r.kept
  <2>1. r.kept[i] \in OpenFile
    BY <1>5
  <2>2. PICK j \in DOMAIN retired : j <= k /\ retired[j].file = r.kept[i].file
    BY DEF Drained, KeptFiles
  <2>3. j # x
    BY <1>1, <1>2, <2>2
  <2> QED BY <1>9, <2>1, <2>2, <2>3 DEF OpenFile
<1>11. \A i \in DOMAIN r.kept : Clean(r.kept[i].file, r.kept[i].offset, q.lines)
  BY <1>8, <1>10 DEF Drained, DrainedClean, CleanElsewhere
<1>12. \A i \in DOMAIN retired : i > k + 1 => Clean(retired[i].file, retired[i].offset, q.lines)
  <2> TAKE i \in DOMAIN retired
  <2> HAVE i > k + 1
  <2>1. i > k /\ i # x
    BY <1>1, <1>2
  <2>2. Clean(retired[i].file, retired[i].offset, r.lines)
    BY <2>1 DEF Drained, DrainedClean
  <2>3. retired[i] \in OpenFile
    BY ElementOfSeq, <1>2 DEF TypeOK
  <2>4. retired[i].file \in Files /\ retired[i].offset \in Nat
    BY <2>3 DEF OpenFile
  <2> QED BY <1>8, <1>9, <2>1, <2>2, <2>4 DEF CleanElsewhere
<1>13. OthersClean(q)
  <2> SUFFICES ASSUME NEW g \in Files, NEW n \in Nat, \A i \in DOMAIN retired : retired[i].file # g,
                      Clean(g, n, poll.lines)
               PROVE  Clean(g, n, q.lines)
    BY DEF OthersClean
  <2>1. Clean(g, n, r.lines)
    BY DEF Drained, OthersClean
  <2>2. g # o.file
    BY <1>3
  <2> QED BY <1>8, <2>1, <2>2 DEF CleanElsewhere
<1>a. \A i \in DOMAIN r.kept : \E j \in DOMAIN retired : j <= k + 1 /\ retired[j].file = r.kept[i].file
  <2> TAKE i \in DOMAIN r.kept
  <2>1. PICK j \in DOMAIN retired : j <= k /\ retired[j].file = r.kept[i].file
    BY DEF Drained, KeptFiles
  <2>2. j <= k + 1
    BY <1>2, <2>1
  <2> QED BY <2>1, <2>2
<1>b. /\ \A i \in DOMAIN r.kept : r.kept[i].idle < RetiredIdlePolls
      /\ \A i, j \in DOMAIN r.kept : r.kept[i].file = r.kept[j].file => i = j
  BY DEF Drained, KeptFiles
<1>14. CASE q.kept = r.kept
  <2>1. KeptFiles(k + 1, q)
    BY <1>14, <1>a, <1>b DEF KeptFiles
  <2>2. DrainedClean(k + 1, q)
    BY <1>11, <1>12, <1>14 DEF DrainedClean
  <2>3. DrainedParsed(q)
    BY <1>3, <1>8, <1>14 DEF Drained, DrainedParsed
  <2> QED BY <1>8, <1>13, <2>1, <2>2, <2>3 DEF Drained
<1>15. CASE Keeps(r, o, q)
  <2>1. PICK now \in OpenFile :
           /\ q.kept = Append(r.kept, now)
           /\ now.file = o.file /\ now.idle < RetiredIdlePolls
           /\ Clean(now.file, now.offset, q.lines)
           /\ Parsed(o) /\ SoundLines(r.lines) => Parsed(now)
    BY <1>15 DEF Keeps
  <2>2. PICK l \in Nat : l = Len(r.kept) /\ DOMAIN r.kept = 1..l
    BY <1>5, LenProperties
  <2>3. /\ DOMAIN q.kept = 1..(l + 1) /\ q.kept[l + 1] = now
        /\ \A i \in 1..l : q.kept[i] = r.kept[i]
    <3> DEFINE s == r.kept
    <3>1. s \in Seq(OpenFile) /\ q.kept = Append(s, now) /\ l = Len(s)
      BY <1>5, <2>1, <2>2
    <3> HIDE DEF s
    <3>2. /\ DOMAIN q.kept = 1..(l + 1) /\ q.kept[l + 1] = now
          /\ \A i \in 1..l : q.kept[i] = s[i]
      BY <3>1, AppendProperties, LenProperties
    <3> QED BY <3>2 DEF s
  <2>4. \A i \in DOMAIN q.kept : \/ i \in DOMAIN r.kept /\ q.kept[i] = r.kept[i]
                                 \/ i = l + 1 /\ q.kept[i] = now
    <3>1. \A i \in 1..(l + 1) : i \in 1..l \/ i = l + 1
      OBVIOUS
    <3> QED BY <2>2, <2>3, <3>1
  <2>5. KeptFiles(k + 1, q)
    <3>1. \A i \in DOMAIN q.kept : q.kept[i].idle < RetiredIdlePolls
      BY <1>b, <2>1, <2>4
    <3>2. \A i \in DOMAIN q.kept : \E j \in DOMAIN retired : j <= k + 1 /\ retired[j].file = q.kept[i].file
      <4>1. x <= k + 1 /\ retired[x].file = now.file
        BY <1>1, <1>2, <1>3, <2>1
      <4> QED BY <1>a, <2>4, <4>1
    <3>3. \A i, j \in DOMAIN q.kept : q.kept[i].file = q.kept[j].file => i = j
      <4> TAKE i, j \in DOMAIN q.kept
      <4>1. CASE i \in DOMAIN r.kept /\ q.kept[i] = r.kept[i] /\ j \in DOMAIN r.kept /\ q.kept[j] = r.kept[j]
        BY <1>b, <4>1
      <4>2. CASE i \in DOMAIN r.kept /\ q.kept[i] = r.kept[i] /\ j = l + 1 /\ q.kept[j] = now
        BY <1>10, <2>1, <4>2
      <4>3. CASE i = l + 1 /\ q.kept[i] = now /\ j \in DOMAIN r.kept /\ q.kept[j] = r.kept[j]
        BY <1>10, <2>1, <4>3
      <4>4. CASE i = l + 1 /\ j = l + 1
        BY <4>4
      <4> QED BY <2>4, <4>1, <4>2, <4>3, <4>4
    <3> QED BY <3>1, <3>2, <3>3 DEF KeptFiles
  <2>6. DrainedClean(k + 1, q)
    <3>1. \A i \in DOMAIN q.kept : Clean(q.kept[i].file, q.kept[i].offset, q.lines)
      BY <1>11, <2>1, <2>4
    <3> QED BY <1>12, <3>1 DEF DrainedClean
  <2>7. DrainedParsed(q)
    <3>1. ASSUME \A i \in DOMAIN retired : Parsed(retired[i]), SoundLines(poll.lines)
          PROVE  SoundLines(q.lines) /\ \A i \in DOMAIN q.kept : Parsed(q.kept[i])
      <4>1. SoundLines(r.lines) /\ \A i \in DOMAIN r.kept : Parsed(r.kept[i])
        BY <3>1 DEF Drained, DrainedParsed
      <4>2. Parsed(o)
        BY <1>3, <3>1
      <4> QED BY <1>8, <2>1, <2>4, <4>1, <4>2
    <3> QED BY <3>1 DEF DrainedParsed
  <2> QED BY <1>8, <1>13, <2>5, <2>6, <2>7 DEF Drained
<1> QED BY <1>8, <1>14, <1>15

\* So all of them are drained.
LEMMA Draining ==
  ASSUME TypeOK, TextInv, NEW r, Drained(0, r), NEW q, q = FoldLeft(Drain, r, retired)
  PROVE  Drained(Len(retired), q)
<1>1. PICK m \in Nat : m = Len(retired) /\ DOMAIN retired = 1..m
  BY LenProperties DEF TypeOK
<1>2. PICK v : DrainsUp(v, r, retired, m)
  BY <1>1, DrainSteps
<1>3. q = DrainAll(r, retired)
  BY DEF DrainAll
<1>4. v[0] = r /\ (\A k \in 1..m : v[k] = Drain(v[k - 1], retired[k])) /\ q = v[m]
  BY <1>2, <1>3 DEF DrainsUp
<1> DEFINE G == {k \in Nat : Drained(k, v[k])}
<1>5. 0 \in G
  BY <1>4
<1>6. ASSUME NEW k \in Nat, k < m, k \in G PROVE k + 1 \in G
  <2>1. k + 1 \in 1..m /\ k + 1 - 1 = k
    BY <1>6
  <2>2. v[k + 1] = Drain(v[k], retired[k + 1])
    BY <1>4, <2>1
  <2>3. Drained(k, v[k])
    BY <1>6
  <2>4. PICK a, b : a = v[k] /\ b = v[k + 1]
    OBVIOUS
  <2>5. Drained(k + 1, b)
    BY <1>1, <2>1, <2>2, <2>3, <2>4, DrainedOne
  <2> QED BY <2>4, <2>5
<1>7. m \in G
  <2>1. \A k \in 0..m : k \in G /\ k < m => k + 1 \in G
    BY <1>6
  <2> HIDE DEF G
  <2> QED BY <1>5, <2>1, NatInduct
<1> QED BY <1>1, <1>4, <1>7

(* ------------------------------ the log writes ------------------------- *)

\* The types of the text, as the prover needs them.
LEMMA TextTypes ==
  ASSUME TypeOK
  PROVE  /\ \A f \in Files : /\ text[f] \in Seq(Piece) /\ DOMAIN text[f] = 1..Len(text[f])
                             /\ Len(text[f]) \in Nat
                             /\ \A i \in DOMAIN text[f] :
                                  /\ text[f][i] \in Piece /\ text[f][i].line \in Nat
                                  /\ text[f][i].line \in 1..MaxLine
         /\ writer \in Files /\ Files \subseteq Nat /\ line \in Nat
<1>1. ASSUME NEW f \in Files
      PROVE  /\ text[f] \in Seq(Piece) /\ DOMAIN text[f] = 1..Len(text[f])
             /\ Len(text[f]) \in Nat
             /\ \A i \in DOMAIN text[f] :
                  /\ text[f][i] \in Piece /\ text[f][i].line \in Nat
                  /\ text[f][i].line \in 1..MaxLine
  <2>1. text[f] \in Seq(Piece)
    BY DEF TypeOK
  <2>2. DOMAIN text[f] = 1..Len(text[f]) /\ Len(text[f]) \in Nat
    BY <2>1, LenProperties
  <2>3. ASSUME NEW i \in DOMAIN text[f]
        PROVE  /\ text[f][i] \in Piece /\ text[f][i].line \in Nat
               /\ text[f][i].line \in 1..MaxLine
    <3>1. text[f][i] \in Piece
      BY <2>1, <2>2
    <3>2. 1..MaxLine \subseteq Nat
      OBVIOUS
    <3> QED BY <3>1, <3>2 DEF Piece
  <2> QED BY <2>1, <2>2, <2>3
<1>2. writer \in Files /\ line \in Nat
  BY TailerAssumption DEF TypeOK
<1>3. Files \subseteq Nat
  BY TailerAssumption DEF Files
<1> QED BY <1>1, <1>2, <1>3

\* The writer is in the middle of a line when its last piece is no end.
LEMMA MidLineIs ==
  TypeOK => (MidLine <=> Len(text[writer]) > 0 /\ ~text[writer][Len(text[writer])].end)
<1> SUFFICES ASSUME TypeOK PROVE MidLine <=> Len(text[writer]) > 0 /\ ~text[writer][Len(text[writer])].end
  OBVIOUS
<1>1. PICK s \in Seq(Piece) : s = text[writer]
  BY TextTypes
<1>2. s # <<>> <=> Len(s) > 0
  BY LenProperties
<1> QED BY <1>1, <1>2 DEF MidLine, Last

\* A piece is added where the writer writes.
Grown(p) ==
  /\ text' \in [Files -> Seq(Piece)]
  /\ Len(text'[writer]) = Len(text[writer]) + 1
  /\ text'[writer][Len(text[writer]) + 1] = p
  /\ \A f \in Files : f # writer => text'[f] = text[f]
  /\ \A f \in Files : \A i \in DOMAIN text[f] :
       i \in DOMAIN text'[f] /\ text'[f][i] = text[f][i]
  /\ \A f \in Files : \A i \in DOMAIN text'[f] :
       \/ i \in DOMAIN text[f] /\ text'[f][i] = text[f][i]
       \/ f = writer /\ i = Len(text[writer]) + 1 /\ text'[f][i] = p

\* A piece is appended to the text of the writer's file, and to no other.
LEMMA Growing ==
  ASSUME TypeOK, NEW p \in Piece, Append1(p)
  PROVE  Grown(p)
<1>1. PICK s \in Seq(Piece), w \in Files : s = text[writer] /\ w = writer
  BY TextTypes
<1>2. text' = [text EXCEPT ![w] = Append(s, p)]
  BY <1>1 DEF Append1
<1>3. /\ Append(s, p) \in Seq(Piece) /\ Len(Append(s, p)) = Len(s) + 1 /\ Len(s) \in Nat
      /\ DOMAIN s = 1..Len(s) /\ DOMAIN Append(s, p) = 1..(Len(s) + 1)
      /\ Append(s, p)[Len(s) + 1] = p
      /\ \A i \in 1..Len(s) : Append(s, p)[i] = s[i]
  BY AppendProperties, LenProperties
<1>4. text \in [Files -> Seq(Piece)]
  BY DEF TypeOK
<1>5. /\ text' \in [Files -> Seq(Piece)] /\ text'[w] = Append(s, p)
      /\ \A f \in Files : f # w => text'[f] = text[f]
  BY <1>2, <1>3, <1>4
<1>6. \A i \in DOMAIN s : i \in DOMAIN Append(s, p) /\ Append(s, p)[i] = s[i]
  BY <1>3
<1>7. \A i \in DOMAIN Append(s, p) : \/ i \in DOMAIN s /\ Append(s, p)[i] = s[i]
                                     \/ i = Len(s) + 1 /\ Append(s, p)[i] = p
  <2>1. \A i \in 1..(Len(s) + 1) : i \in 1..Len(s) \/ i = Len(s) + 1
    BY <1>3
  <2> QED BY <1>3, <2>1
<1>8. /\ Len(text'[writer]) = Len(text[writer]) + 1
      /\ text'[writer][Len(text[writer]) + 1] = p
  BY <1>1, <1>3, <1>5
<1>9. \A f \in Files : \A i \in DOMAIN text[f] : i \in DOMAIN text'[f] /\ text'[f][i] = text[f][i]
  BY <1>1, <1>5, <1>6
<1>10. \A f \in Files : \A i \in DOMAIN text'[f] :
         \/ i \in DOMAIN text[f] /\ text'[f][i] = text[f][i]
         \/ f = writer /\ i = Len(text[writer]) + 1 /\ text'[f][i] = p
  BY <1>1, <1>5, <1>7
<1> QED BY <1>1, <1>5, <1>8, <1>9, <1>10 DEF Grown

\* It is a new line's body, or goes on with the line that was begun.
Writing(p) ==
  /\ Grown(p) /\ p \in Piece /\ p.line = line' /\ line' \in 0..MaxLine
  /\ \/ ~MidLine /\ line' = line + 1 /\ ~p.end
     \/ MidLine /\ line' = line
  /\ UNCHANGED <<generation, path, writer>> /\ UNCHANGED tailerVars
  /\ disorder \subseteq disorder' /\ disorder' \subseteq Disorders

\* Body and End are pieces.
LEMMA MadePieces ==
  \A n \in 1..MaxLine : /\ Body(n) \in Piece /\ Body(n).line = n /\ ~Body(n).end
                        /\ End(n) \in Piece /\ End(n).line = n /\ End(n).end
BY DEF Body, End, Piece

\* Each step of the writer appends a piece that may follow.
LEMMA WritingSteps ==
  ASSUME TailInv, BeginLine \/ MoreOfLine \/ EndLine
  PROVE  \E p : Writing(p)
<1>1. TypeOK /\ line \in Nat /\ MaxLine \in Nat /\ line \in 0..MaxLine /\ disorder \subseteq Disorders
  BY TailerAssumption DEF TailInv, TypeOK
<1>2. WriterOutruns => disorder \subseteq disorder' /\ disorder' \subseteq Disorders
  BY <1>1 DEF WriterOutruns, Happens, Disorders
<1>a. MidLine => line \in 1..MaxLine
  <2> SUFFICES ASSUME MidLine PROVE line \in 1..MaxLine
    OBVIOUS
  <2>1. Len(text[writer]) > 0
    BY <1>1, MidLineIs
  <2>2. Len(text[writer]) \in DOMAIN text[writer]
    BY <1>1, <2>1, TextTypes
  <2>3. text[writer][Len(text[writer])].line = line
    BY DEF TailInv, TextInv, LinesUpTo
  <2> QED BY <1>1, <2>2, <2>3, TextTypes
<1>3. CASE BeginLine
  <2>0. line < MaxLine /\ ~MidLine /\ line' = line + 1 /\ Append1(Body(line + 1)) /\ WriterOutruns
    BY <1>3 DEF BeginLine
  <2>1. PICK n \in 1..MaxLine : n = line + 1
    BY <1>1, <2>0
  <2>2. PICK p \in Piece : p = Body(n) /\ p.line = n /\ ~p.end
    BY MadePieces
  <2>3. Grown(p)
    BY <1>1, <2>0, <2>1, <2>2, Growing
  <2>4. line' = n /\ n \in 0..MaxLine
    BY <2>0, <2>1
  <2> QED BY <1>2, <1>3, <2>0, <2>2, <2>3, <2>4 DEF BeginLine, Writing
<1>4. CASE MoreOfLine
  <2>0. MidLine /\ line' = line /\ Append1(Body(line)) /\ WriterOutruns
    BY <1>4 DEF MoreOfLine
  <2>1. PICK n \in 1..MaxLine : n = line
    BY <1>a, <2>0
  <2>2. PICK p \in Piece : p = Body(n) /\ p.line = n
    BY MadePieces
  <2>3. Grown(p)
    BY <1>1, <2>0, <2>1, <2>2, Growing
  <2>4. line' = n /\ n \in 0..MaxLine
    BY <2>0, <2>1
  <2> QED BY <1>2, <1>4, <2>0, <2>2, <2>3, <2>4 DEF MoreOfLine, Writing
<1>5. CASE EndLine
  <2>0. MidLine /\ line' = line /\ Append1(End(line)) /\ WriterOutruns
    BY <1>5 DEF EndLine
  <2>1. PICK n \in 1..MaxLine : n = line
    BY <1>a, <2>0
  <2>2. PICK p \in Piece : p = End(n) /\ p.line = n
    BY MadePieces
  <2>3. Grown(p)
    BY <1>1, <2>0, <2>1, <2>2, Growing
  <2>4. line' = n /\ n \in 0..MaxLine
    BY <2>0, <2>1
  <2> QED BY <1>2, <1>5, <2>0, <2>2, <2>3, <2>4 DEF EndLine, Writing
<1> QED BY <1>3, <1>4, <1>5

\* Writing keeps the types.
LEMMA WritingTypes ==
  ASSUME TypeOK, NEW p, Writing(p)
  PROVE  TypeOK'
<1>1. text' \in [Files -> Seq(Piece)] /\ line' \in 0..MaxLine
  BY DEF Writing, Grown
<1>2. /\ generation' = generation /\ path' = path /\ writer' = writer /\ active' = active
      /\ retired' = retired /\ poll' = poll /\ delivered' = delivered /\ torn' = torn
      /\ disorder' \subseteq Disorders
  BY DEF Writing, tailerVars
<1> QED BY <1>1, <1>2 DEF TypeOK

\* Writing keeps the lines in order and whole.
LEMMA WritingText ==
  ASSUME TypeOK, TextInv, NEW p, Writing(p)
  PROVE  TextInv'
<1> DEFINE l == Len(text[writer])
<1>0. TypeOK'
  BY WritingTypes
<1>1. /\ Grown(p) /\ p \in Piece /\ p.line = line'
      /\ path' = path /\ writer' = writer
      /\ \/ ~MidLine /\ line' = line + 1 /\ ~p.end
         \/ MidLine /\ line' = line
  BY DEF Writing
<1>2. /\ \A f \in Files : \A i \in DOMAIN text[f] : text[f][i].line \in Nat /\ text[f][i].line <= line
      /\ \A f \in Files : DOMAIN text[f] = 1..Len(text[f])
      /\ l \in Nat /\ line \in Nat /\ writer \in Files /\ Files \subseteq Nat /\ line' \in Nat
  <2>1. line' \in Nat
    BY <1>0 DEF TypeOK
  <2> QED BY <2>1, TextTypes DEF TextInv, LinesUpTo
<1>3. /\ MidLine => l \in DOMAIN text[writer] /\ ~text[writer][l].end /\ text[writer][l].line = line
      /\ ~MidLine => l = 0 \/ (l \in DOMAIN text[writer] /\ text[writer][l].end)
  <2>1. MidLine <=> l > 0 /\ ~text[writer][l].end
    BY MidLineIs
  <2>2. MidLine => text[writer][l].line = line
    BY DEF TextInv, LinesUpTo
  <2>3. l > 0 => l \in DOMAIN text[writer]
    BY <1>2
  <2>4. l = 0 \/ l > 0
    BY <1>2
  <2> HIDE DEF l
  <2> QED BY <2>1, <2>2, <2>3, <2>4
<1>4. \A f \in Files : \A i \in DOMAIN text'[f] :
        \/ i \in DOMAIN text[f] /\ text'[f][i] = text[f][i]
        \/ f = writer /\ i = l + 1 /\ text'[f][i] = p
  BY <1>1 DEF Grown
<1>a. line <= line' /\ p.line = line'
  BY <1>1, <1>2
<1>5. line <= line' /\ \A f \in Files : \A i \in DOMAIN text[f] : text[f][i].line <= p.line
  <2> PICK a \in Nat, b \in Nat : a = line /\ b = line'
    BY <1>2
  <2>1. a <= b /\ p.line = b
    BY <1>a
  <2>2. \A f \in Files : \A i \in DOMAIN text[f] : text[f][i].line \in Nat /\ text[f][i].line <= a
    BY <1>2
  <2>3. \A f \in Files : \A i \in DOMAIN text[f] : text[f][i].line <= b
    BY <2>1, <2>2
  <2> QED BY <2>1, <2>3
<1> HIDE DEF l
<1>6. LogPlace'
  <2> SUFFICES ASSUME NEW f \in Files, f > writer PROVE text'[f] = <<>>
    BY <1>1 DEF TextInv, LogPlace
  <2>1. f # writer
    BY <1>2
  <2> QED BY <1>1, <2>1 DEF TextInv, LogPlace, Grown
<1>7. LinesUpTo'
  <2>1. ASSUME NEW f \in Files, NEW i \in DOMAIN text'[f] PROVE text'[f][i].line <= line'
    BY <1>1, <1>2, <1>4, <1>5
  <2>2. text'[writer'][Len(text'[writer'])].line = line'
    BY <1>1 DEF Grown
  <2> QED BY <2>1, <2>2 DEF LinesUpTo
<1>8. FilesApart'
  <2> SUFFICES ASSUME NEW f \in Files, NEW g \in Files, f < g,
                      NEW i \in DOMAIN text'[f], NEW j \in DOMAIN text'[g]
               PROVE  text'[f][i].line < text'[g][j].line
    BY DEF FilesApart
  <2>1. CASE i \in DOMAIN text[f] /\ text'[f][i] = text[f][i] /\ j \in DOMAIN text[g] /\ text'[g][j] = text[g][j]
    BY <2>1 DEF TextInv, FilesApart
  <2>2. CASE f = writer
    <3>1. g # writer /\ text[g] = <<>>
      BY <1>2, <2>2 DEF TextInv, LogPlace
    <3>2. text'[g] = text[g]
      BY <1>1, <3>1 DEF Grown
    <3>3. DOMAIN text'[g] = {}
      BY <3>1, <3>2
    <3> QED BY <3>3
  <2>3. CASE i \in DOMAIN text[f] /\ text'[f][i] = text[f][i] /\ g = writer /\ text'[g][j] = p
    <3>1. CASE MidLine
      BY <1>1, <1>3, <2>3, <3>1 DEF TextInv, FilesApart
    <3>2. CASE ~MidLine
      <4>1. text[f][i].line <= line /\ text[f][i].line \in Nat /\ p.line = line + 1
        BY <1>1, <1>2, <2>3, <3>2
      <4>2. text[f][i].line < p.line
        BY <1>2, <4>1
      <4> QED BY <2>3, <4>2
    <3> QED BY <3>1, <3>2
  <2> QED BY <1>2, <1>4, <2>1, <2>2, <2>3
<1>9. ASSUME NEW f \in Files, NEW i \in DOMAIN text'[f], NEW j \in DOMAIN text'[f]
      PROVE  \/ /\ i \in DOMAIN text[f] /\ j \in DOMAIN text[f]
                /\ text'[f][i] = text[f][i] /\ text'[f][j] = text[f][j]
             \/ f = writer /\ i \in DOMAIN text[f] /\ text'[f][i] = text[f][i] /\ j = l + 1 /\ text'[f][j] = p
             \/ ~(i < j) /\ j # i + 1
  <2>1. DOMAIN text[f] = 1..Len(text[f]) /\ Len(text[f]) \in Nat
    BY TextTypes
  <2>2. CASE f = writer /\ i = l + 1
    <3>1. j \in 1..l \/ j = l + 1
      BY <1>4, <2>1, <2>2 DEF l
    <3>2. ~(i < j) /\ j # i + 1
      BY <1>2, <2>2, <3>1
    <3> QED BY <3>2
  <2>3. CASE i \in DOMAIN text[f] /\ text'[f][i] = text[f][i]
    BY <1>4, <2>3
  <2> QED BY <1>4, <2>2, <2>3
<1>10. LinesInOrder'
  <2> SUFFICES ASSUME NEW f \in Files, NEW i \in DOMAIN text'[f], NEW j \in DOMAIN text'[f], i < j
               PROVE  /\ text'[f][i].line <= text'[f][j].line
                      /\ text'[f][i].end => text'[f][i].line < text'[f][j].line
    BY DEF LinesInOrder
  <2>1. CASE /\ i \in DOMAIN text[f] /\ j \in DOMAIN text[f]
             /\ text'[f][i] = text[f][i] /\ text'[f][j] = text[f][j]
    BY <2>1 DEF TextInv, LinesInOrder
  <2>2. CASE f = writer /\ i \in DOMAIN text[f] /\ text'[f][i] = text[f][i] /\ j = l + 1 /\ text'[f][j] = p
    <3>1. text[f][i].line <= p.line
      BY <1>5, <2>2
    <3>2. ASSUME text[f][i].end PROVE text[f][i].line < p.line
      <4>1. CASE MidLine
        <5>1. i # l
          BY <1>3, <2>2, <3>2, <4>1
        <5>2. i < l
          BY <1>2, <2>2, <5>1
        <5>3. text[f][i].line < text[f][l].line
          BY <1>3, <2>2, <3>2, <4>1, <5>2 DEF TextInv, LinesInOrder
        <5> QED BY <1>1, <1>3, <2>2, <4>1, <5>3
      <4>2. CASE ~MidLine
        <5>1. text[f][i].line <= line /\ text[f][i].line \in Nat /\ p.line = line + 1
          BY <1>1, <1>2, <2>2, <4>2
        <5> QED BY <1>2, <5>1
      <4> QED BY <4>1, <4>2
    <3> QED BY <2>2, <3>1, <3>2
  <2> QED BY <1>9, <2>1, <2>2
<1>11. LinesWhole'
  <2>1. ASSUME NEW f \in Files, NEW i \in DOMAIN text'[f], NEW j \in DOMAIN text'[f], j = i + 1, ~text'[f][i].end
        PROVE  text'[f][j].line = text'[f][i].line
    <3>1. CASE /\ i \in DOMAIN text[f] /\ j \in DOMAIN text[f]
               /\ text'[f][i] = text[f][i] /\ text'[f][j] = text[f][j]
      BY <2>1, <3>1 DEF TextInv, LinesWhole
    <3>2. CASE f = writer /\ i \in DOMAIN text[f] /\ text'[f][i] = text[f][i] /\ j = l + 1 /\ text'[f][j] = p
      <4>1. i = l
        BY <1>2, <2>1, <3>2
      <4>2. MidLine
        BY <1>2, <1>3, <2>1, <3>2, <4>1
      <4> QED BY <1>1, <1>3, <3>2, <4>1, <4>2
    <3> QED BY <1>9, <2>1, <3>1, <3>2
  <2>2. ASSUME NEW f \in Files, NEW j \in DOMAIN text'[f], text'[f][j].end
        PROVE  j - 1 \in DOMAIN text'[f] /\ ~text'[f][j - 1].end
    <3>0. \A i \in DOMAIN text[f] : i \in DOMAIN text'[f] /\ text'[f][i] = text[f][i]
      BY <1>1 DEF Grown
    <3>1. CASE j \in DOMAIN text[f] /\ text'[f][j] = text[f][j]
      <4>1. j - 1 \in DOMAIN text[f] /\ ~text[f][j - 1].end
        BY <2>2, <3>1 DEF TextInv, LinesWhole
      <4> QED BY <3>0, <4>1
    <3>2. CASE f = writer /\ j = l + 1 /\ text'[f][j] = p
      <4>1. MidLine
        BY <1>1, <2>2, <3>2
      <4>2. j - 1 = l
        BY <1>2, <3>2
      <4> QED BY <1>3, <3>0, <3>2, <4>1, <4>2
    <3> QED BY <1>4, <3>1, <3>2
  <2> QED BY <2>1, <2>2 DEF LinesWhole
<1> QED BY <1>6, <1>7, <1>8, <1>10, <1>11 DEF TextInv

\* What the tailer has read stays as it is.
LEMMA GrownKeeps ==
  ASSUME TypeOK, NEW p, Writing(p), NEW f \in Files, NEW k \in Nat, k <= Len(text[f])
  PROVE  /\ k <= Len(text'[f]) /\ AnchorAt(f, k)' = AnchorAt(f, k)
         /\ \A j \in Int : j <= k => (InLine(text'[f], j) <=> InLine(text[f], j))
         /\ k > 0 => k \in DOMAIN text[f] /\ text'[f][k] = text[f][k]
<1>1. text[f] \in Seq(Piece) /\ DOMAIN text[f] = 1..Len(text[f]) /\ Len(text[f]) \in Nat
  BY TextTypes
<1>2. \A i \in 1..k : text'[f][i] = text[f][i]
  BY <1>1 DEF Writing, Grown
<1>3. k <= Len(text'[f])
  <2>1. CASE f = writer
    BY <1>1, <2>1 DEF Writing, Grown
  <2>2. CASE f # writer
    BY <2>2 DEF Writing, Grown
  <2> QED BY <2>1, <2>2
<1>4. k > 0 => k \in 1..k /\ k \in DOMAIN text[f]
  BY <1>1
<1>5. AnchorAt(f, k)' = AnchorAt(f, k)
  BY <1>2, <1>4 DEF AnchorAt
<1>6. ASSUME NEW j \in Int, j <= k PROVE InLine(text'[f], j) <=> InLine(text[f], j)
  <2>1. j > 0 => j \in 1..k
    BY <1>6
  <2> QED BY <1>2, <2>1 DEF InLine
<1> QED BY <1>2, <1>3, <1>4, <1>5, <1>6

\* Writing changes nothing of the files the tailer has open.
LEMMA WritingFiles ==
  ASSUME FilesInv, NEW p, Writing(p)
  PROVE  FilesInv'
<1>1. /\ path' = path /\ writer' = writer /\ active' = active /\ generation' = generation
      /\ retired' = retired /\ poll' = poll
  BY DEF Writing, tailerVars
<1> QED BY <1>1 DEF FilesInv, At

\* A line that is known has ended, and nothing more of it is written.
LEMMA WritingClean ==
  ASSUME TypeOK, TextInv, NEW p, Writing(p), NEW lines, Once(lines)
  PROVE  /\ Once(lines)'
         /\ \A f \in Files, k \in Nat : Clean(f, k, lines) => Clean(f, k, lines)'
<1>1. /\ Grown(p) /\ p \in Piece /\ p.line = line' /\ delivered' = delivered
      /\ \/ ~MidLine /\ line' = line + 1 /\ ~p.end
         \/ MidLine /\ line' = line
  BY DEF Writing, tailerVars
<1>2. \A n : Known(lines, n)' <=> Known(lines, n)
  BY <1>1 DEF Known
<1>3. line \in Nat /\ p.line \in 1..MaxLine
  BY <1>1, TextTypes DEF Piece
<1>4. \A n \in 1..MaxLine : Known(lines, n) => n < line'
  <2> SUFFICES ASSUME NEW n \in 1..MaxLine, Known(lines, n) PROVE n < line'
    OBVIOUS
  <2>1. n < line \/ (n = line /\ ~MidLine)
    BY DEF Once, Ended
  <2> QED BY <1>1, <1>3, <2>1
<1>5. Once(lines)'
  <2> SUFFICES ASSUME NEW n \in 1..MaxLine
               PROVE  /\ delivered'[n] <= 1
                      /\ \A i, j \in DOMAIN lines :
                           Counted(lines[i], n) /\ Counted(lines[j], n) => i = j /\ delivered'[n] = 0
                      /\ Known(lines, n)' => Ended(n)'
    BY DEF Once
  <2>1. Known(lines, n)' => Ended(n)'
    BY <1>2, <1>4 DEF Ended
  <2> QED BY <1>1, <2>1 DEF Once
<1>6. ASSUME NEW f \in Files, NEW k \in Nat, Clean(f, k, lines) PROVE Clean(f, k, lines)'
  <2> SUFFICES ASSUME NEW i \in DOMAIN text'[f], i > k, text'[f][i].end, Known(lines, text'[f][i].line)
               PROVE  FALSE
    BY <1>2 DEF Clean
  <2>1. CASE i \in DOMAIN text[f] /\ text'[f][i] = text[f][i]
    BY <1>6, <2>1 DEF Clean
  <2>2. CASE text'[f][i] = p
    <3>1. Known(lines, p.line) /\ p.line \in 1..MaxLine
      BY <1>3, <2>2
    <3>2. p.line < line'
      BY <1>4, <3>1
    <3>3. p.line \in Nat /\ p.line = line'
      BY <1>1, <1>3
    <3> QED BY <3>2, <3>3
  <2> QED BY <1>1, <2>1, <2>2 DEF Grown
<1> QED BY <1>5, <1>6

\* The types of the open files and of the lines of a poll.
LEMMA FileTypes ==
  ASSUME TypeOK
  PROVE  /\ active # None => /\ active \in OpenFile /\ active.file \in Files /\ active.offset \in Nat
         /\ \A i \in DOMAIN retired : /\ retired[i] \in OpenFile /\ retired[i].file \in Files
                                      /\ retired[i].offset \in Nat
         /\ poll # None => /\ poll \in PollState /\ poll.lines \in Seq(Seq(Piece)) /\ poll.left \in Nat
         /\ Lines \in Seq(Seq(Piece))
         /\ DOMAIN retired = 1..Len(retired) /\ Len(retired) \in Nat
<1>1. active # None => active \in OpenFile
  BY DEF TypeOK
<1>2. retired \in Seq(OpenFile)
  BY DEF TypeOK
<1>3. DOMAIN retired = 1..Len(retired) /\ Len(retired) \in Nat
  BY <1>2, LenProperties
<1>4. \A i \in DOMAIN retired : retired[i] \in OpenFile
  BY <1>2, <1>3, ElementOfSeq
<1>5. poll # None => poll \in PollState
  BY DEF TypeOK
<1>6. poll # None => poll.lines \in Seq(Seq(Piece)) /\ poll.left \in Nat
  BY <1>5 DEF PollState
<1>7. Lines \in Seq(Seq(Piece))
  BY <1>6 DEF Lines
<1> QED BY <1>1, <1>3, <1>4, <1>5, <1>6, <1>7 DEF OpenFile

\* Writing makes nothing known, and what it writes is of no line that is known.
LEMMA WritingOnce ==
  ASSUME TypeOK, TextInv, OnceInv, NEW p, Writing(p)
  PROVE  OnceInv'
<1>1. /\ path' = path /\ active' = active /\ retired' = retired /\ poll' = poll
  BY DEF Writing, tailerVars
<1>2. PICK lines : lines = Lines
  OBVIOUS
<1>3. Lines' = lines
  BY <1>1, <1>2 DEF Lines
<1>4. /\ Once(lines)'
      /\ \A f \in Files, k \in Nat : Clean(f, k, lines) => Clean(f, k, lines)'
  BY <1>2, WritingClean DEF OnceInv
<1>5. Once(Lines)'
  BY <1>3, <1>4 DEF Once, Known
<1>6. \A f \in Files, k \in Nat : Clean(f, k, Lines) => Clean(f, k, Lines)'
  BY <1>2, <1>3, <1>4 DEF Clean, Known
<1>7. (\A i \in DOMAIN retired : Clean(retired[i].file, retired[i].offset, Lines))'
  BY <1>1, <1>6, FileTypes DEF OnceInv
<1>8. ASSUME active # None
      PROVE  /\ Clean(active.file, active.offset, Lines)'
             /\ Clean(active.file, 0, Lines)' \/ Followed(active)'
  <2>1. active.file \in Files /\ active.offset \in Nat
    BY <1>8, FileTypes
  <2>2. Clean(active.file, active.offset, Lines)'
    BY <1>1, <1>6, <1>8, <2>1 DEF OnceInv
  <2>3. CASE Clean(active.file, 0, Lines)
    BY <1>1, <1>6, <2>1, <2>2, <2>3
  <2>4. CASE Followed(active)
    <3>1. active.offset <= Len(text[active.file])
      BY <2>4 DEF Followed
    <3>2. PICK f \in Files, k \in Nat : f = active.file /\ k = active.offset
      BY <2>1
    <3>3. k <= Len(text'[f]) /\ AnchorAt(f, k)' = AnchorAt(f, k)
      BY <3>1, <3>2, GrownKeeps
    <3>4. /\ ~At("anchor") => active.anchor = AnchorAt(f, k)
          /\ At("follow") /\ poll.file = active.file => active.offset <= poll.meta.len
      BY <2>4, <3>2 DEF Followed
    <3>5. active'.file = f /\ active'.offset = k
      BY <1>1, <3>2
    <3>6. AnchorAt(active.file, active.offset)' = AnchorAt(f, k)
      BY <3>3, <3>5 DEF AnchorAt
    <3>7. Followed(active)'
      BY <1>1, <3>2, <3>3, <3>4, <3>5, <3>6 DEF Followed, At
    <3> QED BY <2>2, <3>7
  <2> QED BY <1>8, <2>3, <2>4 DEF OnceInv
<1>9. (path # None /\ (active # None => active.file # path) => Clean(path, 0, Lines))'
  <2>1. path # None => path \in Files
    BY DEF TypeOK
  <2> QED BY <1>1, <1>6, <2>1 DEF OnceInv
<1> QED BY <1>1, <1>5, <1>7, <1>8, <1>9 DEF OnceInv

\* What was parsed is parsed as before when the text has grown.
LEMMA WritingParsed ==
  ASSUME TypeOK, NEW p, Writing(p), NEW o \in OpenFile, Parsed(o)
  PROVE  Parsed(o)'
<1>1. PICK f \in Files, k \in Nat : f = o.file /\ k = o.offset
  BY DEF OpenFile
<1>2. /\ k <= Len(text[f])
      /\ o.pending = IF InLine(text[f], k) /\ ~InLine(text[f], k - 1) THEN <<text[f][k]>> ELSE <<>>
      /\ o.discarding <=> InLine(text[f], k) /\ InLine(text[f], k - 1)
  BY <1>1 DEF Parsed
<1>3. /\ k <= Len(text'[f])
      /\ \A j \in Int : j <= k => (InLine(text'[f], j) <=> InLine(text[f], j))
      /\ k > 0 => text'[f][k] = text[f][k]
  BY <1>2, GrownKeeps
<1>4. (InLine(text'[f], k) <=> InLine(text[f], k)) /\ (InLine(text'[f], k - 1) <=> InLine(text[f], k - 1))
  <2>1. k \in Int /\ k - 1 \in Int /\ k <= k /\ k - 1 <= k
    OBVIOUS
  <2> QED BY <1>3, <2>1
<1>5. o.pending = IF InLine(text'[f], k) /\ ~InLine(text'[f], k - 1) THEN <<text'[f][k]>> ELSE <<>>
  <2>1. CASE k > 0
    BY <1>2, <1>3, <1>4, <2>1
  <2>2. CASE ~(k > 0)
    <3>1. ~InLine(text[f], k)
      BY <2>2 DEF InLine
    <3> QED BY <1>2, <1>4, <3>1
  <2> QED BY <2>1, <2>2
<1>6. o.discarding <=> InLine(text'[f], k) /\ InLine(text'[f], k - 1)
  BY <1>2, <1>4
<1> QED BY <1>1, <1>3, <1>5, <1>6 DEF Parsed

\* Writing tears no line, and a truncated file stays one that the next poll notices.
LEMMA WritingCalm ==
  ASSUME TypeOK, TextInv, CalmInv, NEW p, Writing(p)
  PROVE  CalmInv'
<1>1. /\ path' = path /\ active' = active /\ retired' = retired /\ poll' = poll /\ torn' = torn
      /\ generation' = generation /\ disorder \subseteq disorder'
  BY DEF Writing, tailerVars
<1> SUFFICES ASSUME Calm'
             PROVE  /\ ~torn'
                    /\ SoundLines(Lines)'
                    /\ (\A i \in DOMAIN retired : Parsed(retired[i]))'
                    /\ active' # None => /\ (active.gen <= generation[active.file])'
                                         /\ Noticed(active)' \/ Stale(active)'
  BY DEF CalmInv
<1>2. Calm
  BY <1>1 DEF Calm
<1>3. ~torn' /\ SoundLines(Lines)'
  BY <1>1, <1>2 DEF CalmInv, SoundLines, Lines
<1>4. ASSUME NEW i \in DOMAIN retired' PROVE Parsed(retired[i])'
  <2>1. PICK o \in OpenFile : o = retired[i] /\ Parsed(o)
    BY <1>1, <1>2, FileTypes DEF CalmInv
  <2>2. Parsed(o)'
    BY <2>1, WritingParsed
  <2> QED BY <1>1, <2>1, <2>2 DEF Parsed
<1>5. ASSUME active' # None
      PROVE  (active.gen <= generation[active.file])' /\ (Noticed(active)' \/ Stale(active)')
  <2>0. active # None /\ active \in OpenFile /\ active.file \in Files
    BY <1>1, <1>5, FileTypes
  <2>1. PICK o \in OpenFile : o = active
    BY <2>0
  <2>2. (active.gen <= generation[active.file])'
    BY <1>1, <1>2, <2>0 DEF CalmInv
  <2>3. CASE Noticed(active)
    <3>1. Parsed(o) /\ (~At("anchor") => o.anchor = AnchorAt(o.file, o.offset))
      BY <2>1, <2>3 DEF Noticed
    <3>2. Parsed(o)'
      BY <3>1, WritingParsed
    <3>3. PICK f \in Files, k \in Nat : f = o.file /\ k = o.offset
      BY DEF OpenFile
    <3>4. k <= Len(text[f])
      BY <3>1, <3>3 DEF Parsed
    <3>5. AnchorAt(f, k)' = AnchorAt(f, k)
      BY <3>4, GrownKeeps
    <3>6. AnchorAt(o.file, o.offset)' = AnchorAt(o.file, o.offset)
      BY <3>3, <3>5 DEF AnchorAt
    <3>7. Noticed(o)'
      BY <1>1, <3>1, <3>2, <3>6 DEF Noticed, At
    <3>8. Noticed(active)'
      BY <1>1, <2>1, <3>7 DEF Noticed, Parsed, AnchorAt
    <3> QED BY <2>2, <3>8
  <2>4. CASE Stale(active)
    <3>1. /\ o.file = path /\ o.gen < generation[o.file]
          /\ poll = None \/ (At("follow") /\ poll.file = o.file /\ o.gen < poll.meta.gen)
          /\ o.offset > 0 /\ o.anchor # None /\ o.anchor.line <= line
          /\ \A i \in DOMAIN text[o.file] : o.anchor.line < text[o.file][i].line
      BY <2>1, <2>4 DEF Stale
    <3>2. PICK f \in Files, a \in Nat : f = o.file /\ a = o.anchor.line
      <4>1. o.file \in Files /\ o.anchor \in Piece
        BY <3>1 DEF OpenFile
      <4>2. o.anchor.line \in Nat
        <5>1. 1..MaxLine \subseteq Nat
          OBVIOUS
        <5> QED BY <4>1, <5>1 DEF Piece
      <4> QED BY <4>1, <4>2
    <3>3. a <= line /\ \A i \in DOMAIN text[f] : a < text[f][i].line
      BY <3>1, <3>2
    <3>4. /\ Grown(p) /\ p.line = line'
          /\ \/ ~MidLine /\ line' = line + 1
             \/ MidLine /\ line' = line
      BY DEF Writing
    <3>5. line \in Nat
      BY TextTypes
    <3>6. a <= line'
      BY <3>3, <3>4, <3>5
    <3>7. \A i \in DOMAIN text'[f] : a < text'[f][i].line
      <4> TAKE i \in DOMAIN text'[f]
      <4>1. CASE i \in DOMAIN text[f] /\ text'[f][i] = text[f][i]
        BY <3>3, <4>1
      <4>2. CASE f = writer /\ text'[f][i] = p
        <5>1. CASE ~MidLine /\ line' = line + 1
          <6>1. a < line + 1
            BY <3>3, <3>5
          <6> QED BY <3>4, <4>2, <5>1, <6>1
        <5>2. CASE MidLine /\ line' = line
          <6>1. Len(text[f]) \in DOMAIN text[f]
            <7>1. Len(text[f]) > 0
              BY <4>2, <5>2, MidLineIs
            <7> QED BY <7>1, TextTypes
          <6>2. text[f][Len(text[f])].line = line
            BY <4>2, <5>2 DEF TextInv, LinesUpTo
          <6>3. a < line
            BY <3>3, <6>1, <6>2
          <6> QED BY <3>4, <4>2, <5>2, <6>3
        <5> QED BY <3>4, <5>1, <5>2
      <4> QED BY <3>4, <4>1, <4>2 DEF Grown
    <3>8. Stale(o)'
      BY <1>1, <3>1, <3>2, <3>6, <3>7 DEF Stale, At
    <3>9. Stale(active)'
      BY <1>1, <2>1, <3>8 DEF Stale
    <3> QED BY <2>2, <3>9
  <2> QED BY <1>2, <2>0, <2>3, <2>4 DEF CalmInv
<1> QED BY <1>3, <1>4, <1>5

\* A step of the writer keeps the invariant.
LEMMA WriterStep ==
  ASSUME TailInv, BeginLine \/ MoreOfLine \/ EndLine
  PROVE  TailInv'
<1>1. PICK p : Writing(p)
  BY WritingSteps
<1>2. TypeOK /\ TextInv /\ FilesInv /\ OnceInv /\ CalmInv
  BY DEF TailInv
<1>3. TypeOK' /\ TextInv' /\ FilesInv' /\ OnceInv' /\ CalmInv'
  BY <1>1, <1>2, WritingTypes, WritingText, WritingFiles, WritingOnce, WritingCalm
<1> QED BY <1>3 DEF TailInv

(* ------------------------ the log is moved or cut ---------------------- *)

\* The types of path and writer.
LEMMA PlaceTypes ==
  ASSUME TypeOK
  PROVE  /\ path # None => path \in Files /\ path \in Nat
         /\ writer \in Files /\ writer \in Nat
         /\ None \notin Files
BY TailerAssumption DEF TypeOK, Files

\* What is said of the text alone stays when the text does.
LEMMA SameText ==
  ASSUME UNCHANGED <<text, delivered, poll>>
  PROVE  /\ \A f, k : Clean(f, k, Lines)' <=> Clean(f, k, Lines)
         /\ \A n : Known(Lines, n)' <=> Known(Lines, n)
         /\ \A o : Parsed(o)' <=> Parsed(o)
         /\ \A o : Followed(o)' <=> Followed(o)
         /\ \A o : Noticed(o)' <=> Noticed(o)
         /\ Lines' = Lines
<1>1. text' = text /\ delivered' = delivered /\ poll' = poll
  OBVIOUS
<1>2. Lines' = Lines
  BY <1>1 DEF Lines
<1>3. \A n : Known(Lines, n)' <=> Known(Lines, n)
  BY <1>1, <1>2 DEF Known
<1>4. \A f, k : Clean(f, k, Lines)' <=> Clean(f, k, Lines)
  BY <1>1, <1>2 DEF Clean, Known
<1>5. \A o : Parsed(o)' <=> Parsed(o)
  BY <1>1 DEF Parsed
<1>6. \A o : Followed(o)' <=> Followed(o)
  BY <1>1 DEF Followed, At, AnchorAt
<1>7. \A o : Noticed(o)' <=> Noticed(o)
  BY <1>1, <1>5 DEF Noticed, At, AnchorAt
<1> QED BY <1>2, <1>3, <1>4, <1>5, <1>6, <1>7

\* The writer or the path moves on, and nothing is written.
LEMMA MovesText ==
  ASSUME TypeOK, TextInv, UNCHANGED <<text, line>>,
         LogPlace', writer' = writer \/ text[writer'] = <<>>
  PROVE  TextInv' /\ (MidLine' => MidLine)
<1>1. text' = text /\ line' = line
  OBVIOUS
<1>2. FilesApart' /\ LinesInOrder' /\ LinesWhole'
  BY <1>1 DEF TextInv, FilesApart, LinesInOrder, LinesWhole
<1>3. MidLine' => writer' = writer /\ MidLine
  BY <1>1 DEF MidLine
<1>4. LinesUpTo'
  BY <1>1, <1>3 DEF TextInv, LinesUpTo
<1> QED BY <1>2, <1>3, <1>4 DEF TextInv

\* Nothing becomes known when the log is only moved.
LEMMA MovesOnce ==
  ASSUME OnceInv, UNCHANGED <<text, line, delivered, poll, active, retired>>,
         MidLine' => MidLine,
         path' # None /\ path' # path => text[path'] = <<>>
  PROVE  OnceInv'
<1>1. /\ text' = text /\ line' = line /\ delivered' = delivered /\ poll' = poll
      /\ active' = active /\ retired' = retired
  OBVIOUS
<1>2. /\ \A f, k : Clean(f, k, Lines)' <=> Clean(f, k, Lines)
      /\ \A n : Known(Lines, n)' <=> Known(Lines, n)
      /\ \A o : Followed(o)' <=> Followed(o)
      /\ Lines' = Lines
  BY SameText
<1>3. \A n : Ended(n) => Ended(n)'
  BY <1>1 DEF Ended
<1>4. Once(Lines)'
  <2>1. Once(Lines)
    BY DEF OnceInv
  <2> SUFFICES ASSUME NEW n \in 1..MaxLine
               PROVE  /\ delivered'[n] <= 1
                      /\ \A i, j \in DOMAIN Lines' :
                           Counted(Lines'[i], n) /\ Counted(Lines'[j], n) => i = j /\ delivered'[n] = 0
                      /\ Known(Lines, n)' => Ended(n)'
    BY DEF Once
  <2>2. Known(Lines, n)' => Ended(n)'
    BY <1>2, <1>3, <2>1 DEF Once
  <2> QED BY <1>1, <1>2, <2>1, <2>2 DEF Once
<1>5. (\A i \in DOMAIN retired : Clean(retired[i].file, retired[i].offset, Lines))'
  BY <1>1, <1>2 DEF OnceInv
<1>6. (active # None => /\ Clean(active.file, active.offset, Lines)
                        /\ Clean(active.file, 0, Lines) \/ Followed(active))'
  <2>1. active # None => /\ Clean(active.file, active.offset, Lines)'
                         /\ Clean(active.file, 0, Lines)' \/ Followed(active)'
    BY <1>2 DEF OnceInv
  <2> QED BY <1>1, <2>1
<1>7. (path # None /\ (active # None => active.file # path) => Clean(path, 0, Lines))'
  <2>1. CASE path' = path
    BY <1>1, <1>2, <2>1 DEF OnceInv
  <2>2. CASE path' # None /\ path' # path
    <3>1. text'[path'] = <<>>
      BY <1>1, <2>2
    <3>2. DOMAIN text'[path'] = {}
      BY <3>1
    <3>3. Clean(path, 0, Lines)'
      BY <3>2 DEF Clean
    <3> QED BY <3>3
  <2> QED BY <2>1, <2>2
<1> QED BY <1>4, <1>5, <1>6, <1>7 DEF OnceInv

\* Nothing is torn when the log is only moved, unless the log raced with the poll.
LEMMA MovesCalm ==
  ASSUME CalmInv, UNCHANGED <<text, line, generation, delivered, torn, poll, active, retired>>,
         disorder \subseteq disorder',
         active # None /\ Calm' => ~Stale(active) \/ path' = path
  PROVE  CalmInv'
<1>1. /\ text' = text /\ line' = line /\ delivered' = delivered /\ poll' = poll
      /\ active' = active /\ retired' = retired /\ torn' = torn /\ generation' = generation
  OBVIOUS
<1> SUFFICES ASSUME Calm'
             PROVE  /\ ~torn'
                    /\ SoundLines(Lines)'
                    /\ (\A i \in DOMAIN retired : Parsed(retired[i]))'
                    /\ active' # None => /\ (active.gen <= generation[active.file])'
                                         /\ Noticed(active)' \/ Stale(active)'
  BY DEF CalmInv
<1>2. Calm
  BY DEF Calm
<1>3. /\ \A o : Parsed(o)' <=> Parsed(o)
      /\ \A o : Noticed(o)' <=> Noticed(o)
      /\ Lines' = Lines
  BY SameText
<1>4. ~torn' /\ SoundLines(Lines)'
  BY <1>1, <1>2, <1>3 DEF CalmInv, SoundLines
<1>5. (\A i \in DOMAIN retired : Parsed(retired[i]))'
  BY <1>1, <1>2, <1>3 DEF CalmInv
<1>6. ASSUME active # None, Noticed(active) PROVE Noticed(active)'
  BY <1>3, <1>6
<1>7. ASSUME active # None, Stale(active), path' = path PROVE Stale(active)'
  BY <1>1, <1>7 DEF Stale, At
<1>8. active # None => active.gen <= generation[active.file] /\ (Noticed(active) \/ Stale(active))
  BY <1>2 DEF CalmInv
<1> QED BY <1>1, <1>4, <1>5, <1>6, <1>7, <1>8

\* A rotation keeps the invariant.
LEMMA Rotates ==
  ASSUME TailInv, Rotate
  PROVE  TailInv'
<1>1. /\ TypeOK /\ TextInv /\ FilesInv /\ OnceInv /\ CalmInv
      /\ path # None /\ path = writer /\ path + 1 \in Files /\ path' = None
      /\ text' = text /\ generation' = generation /\ writer' = writer /\ line' = line
      /\ active' = active /\ retired' = retired /\ poll' = poll /\ delivered' = delivered /\ torn' = torn
  BY DEF TailInv, Rotate, tailerVars
<1>2. disorder \subseteq disorder' /\ disorder' \subseteq Disorders
  BY <1>1 DEF Rotate, TypeOK, Disorders
<1>3. TypeOK'
  BY <1>1, <1>2 DEF TypeOK
<1>4. TextInv' /\ (MidLine' => MidLine)
  <2>1. LogPlace'
    BY <1>1 DEF LogPlace, TextInv
  <2> QED BY <1>1, <2>1, MovesText
<1>5. FilesInv'
  BY <1>1 DEF FilesInv, At
<1>6. OnceInv'
  BY <1>1, <1>4, MovesOnce
<1>7. active # None /\ Calm' => ~Stale(active)
  <2> SUFFICES ASSUME active # None, Stale(active) PROVE ~Calm'
    OBVIOUS
  <2>1. HasOpen(path) /\ active.file = path /\ active.gen < generation[path]
    BY DEF Stale, HasOpen
  <2>2. active.gen # generation[path]
    <3>1. active.gen \in Nat /\ generation[path] \in Nat
      <4>1. active \in OpenFile /\ path \in Files
        BY <1>1, FileTypes, PlaceTypes
      <4>2. 0..MaxTruncations \subseteq Nat
        OBVIOUS
      <4> QED BY <1>1, <4>1, <4>2 DEF OpenFile, TypeOK
    <3> QED BY <2>1, <3>1
  <2>3. "raced" \in disorder'
    BY <2>1, <2>2 DEF Rotate
  <2>4. "raced" # "cut"
    OBVIOUS
  <2> QED BY <2>3, <2>4 DEF Calm
<1>8. CalmInv'
  BY <1>1, <1>2, <1>7, MovesCalm
<1> QED BY <1>3, <1>4, <1>5, <1>6, <1>8 DEF TailInv

\* So does the creation of the next file.
LEMMA CreatesLog ==
  ASSUME TailInv, CreateLog
  PROVE  TailInv'
<1>1. /\ TypeOK /\ TextInv /\ FilesInv /\ OnceInv /\ CalmInv
      /\ path = None /\ path' = writer + 1
      /\ text' = text /\ generation' = generation /\ writer' = writer /\ line' = line
      /\ active' = active /\ retired' = retired /\ poll' = poll /\ delivered' = delivered
      /\ torn' = torn /\ disorder' = disorder
  BY DEF TailInv, CreateLog, tailerVars
<1>2. writer + 1 \in Files /\ writer + 1 # None /\ writer \in Nat /\ writer \in Files /\ Files \subseteq Nat
  BY <1>1, PlaceTypes, TextTypes DEF TextInv, LogPlace
<1>3. TypeOK'
  BY <1>1, <1>2 DEF TypeOK
<1>4. TextInv' /\ (MidLine' => MidLine)
  <2>1. LogPlace'
    BY <1>1, <1>2 DEF LogPlace, TextInv
  <2> QED BY <1>1, <2>1, MovesText
<1>5. FilesInv'
  <2>1. active # None => active.idle = 0 /\ active.file \in Nat /\ active.file <= writer
    BY <1>1, <1>2, FileTypes DEF FilesInv
  <2>2. \A i \in DOMAIN retired : retired[i].file \in Nat /\ retired[i].file <= writer
    BY <1>1, <1>2, FileTypes DEF FilesInv
  <2>3. active # None => active.file <= writer + 1 /\ active.file < writer + 1
    BY <1>2, <2>1
  <2>4. \A i \in DOMAIN retired : retired[i].file < writer + 1
    BY <1>2, <2>2
  <2>5. /\ At("anchor")' \/ At("stat")' => active' # None
        /\ At("follow")' => /\ poll'.meta # None
                            /\ poll'.file # None => poll'.meta.gen <= generation'[poll'.file]
    BY <1>1 DEF FilesInv, At
  <2>6. active' # None => /\ active'.idle = 0
                          /\ active'.file <= IF path' = None THEN writer' ELSE path'
    BY <1>1, <1>2, <2>1, <2>3
  <2>7. \A i \in DOMAIN retired' : retired'[i].file <= writer' /\ (path' # None => retired'[i].file < path')
    BY <1>1, <2>2, <2>4
  <2>8. active' # None => active'.file <= writer' /\ (path' # None => active'.file < path')
    BY <1>1, <2>1, <2>3
  <2> QED BY <2>5, <2>6, <2>7, <2>8 DEF FilesInv
<1>6. OnceInv'
  <2>1. text[writer + 1] = <<>>
    BY <1>1, <1>2 DEF TextInv, LogPlace
  <2> QED BY <1>1, <1>4, <2>1, MovesOnce
<1>7. active # None => ~Stale(active)
  BY <1>1, PlaceTypes, FileTypes DEF Stale
<1>8. CalmInv'
  BY <1>1, <1>7, MovesCalm
<1> QED BY <1>3, <1>4, <1>5, <1>6, <1>8 DEF TailInv

\* So does the writer that goes on there.
LEMMA Reopens ==
  ASSUME TailInv, Reopen
  PROVE  TailInv'
<1>1. /\ TypeOK /\ TextInv /\ FilesInv /\ OnceInv /\ CalmInv
      /\ path # None /\ path # writer /\ ~MidLine /\ writer' = path
      /\ text' = text /\ generation' = generation /\ path' = path /\ line' = line
      /\ active' = active /\ retired' = retired /\ poll' = poll /\ delivered' = delivered
      /\ torn' = torn /\ disorder' = disorder
  BY DEF TailInv, Reopen, tailerVars
<1>2. /\ path \in Files /\ path = writer + 1 /\ writer \in Nat /\ path > writer
      /\ Files \subseteq Nat
  <2>1. path \in Files /\ writer \in Nat /\ Files \subseteq Nat /\ path = writer + 1
    BY <1>1, PlaceTypes, TextTypes DEF TextInv, LogPlace
  <2> QED BY <2>1
<1>3. TypeOK'
  BY <1>1, <1>2 DEF TypeOK
<1>4. text[path] = <<>>
  BY <1>1, <1>2 DEF TextInv, LogPlace
<1>5. TextInv' /\ (MidLine' => MidLine)
  <2>1. \A f \in Files : f > path => text[f] = <<>>
    <3>1. \A f \in Files : f > path => f > writer
      BY <1>2
    <3> QED BY <1>1, <3>1 DEF TextInv, LogPlace
  <2>2. LogPlace'
    BY <1>1, <2>1 DEF LogPlace
  <2> QED BY <1>1, <1>4, <2>2, MovesText
<1>6. FilesInv'
  <2>1. active' # None => /\ active'.idle = 0
                          /\ active'.file <= IF path' = None THEN writer' ELSE path'
    BY <1>1 DEF FilesInv
  <2>2. \A i \in DOMAIN retired : retired[i].file <= path /\ retired[i].file < path
    <3>1. \A i \in DOMAIN retired : retired[i].file < path /\ retired[i].file \in Nat
      BY <1>1, <1>2, FileTypes DEF FilesInv
    <3> QED BY <1>2, <3>1
  <2>3. At("follow") /\ active # None /\ poll.file # active.file => active.file <= path /\ active.file < path
    <3>1. At("follow") /\ active # None /\ poll.file # active.file => active.file < path /\ active.file \in Nat
      BY <1>1, <1>2, FileTypes DEF FilesInv
    <3> QED BY <1>2, <3>1
  <2>4. /\ At("anchor")' \/ At("stat")' => active' # None
        /\ At("follow")' => /\ poll'.meta # None
                            /\ poll'.file # None => poll'.meta.gen <= generation'[poll'.file]
    BY <1>1 DEF FilesInv, At
  <2>5. At("follow")' => At("follow")
    BY <1>1 DEF At
  <2> QED BY <1>1, <2>1, <2>2, <2>3, <2>4, <2>5 DEF FilesInv
<1>7. OnceInv'
  BY <1>1, <1>5, MovesOnce
<1>8. CalmInv'
  BY <1>1, MovesCalm
<1> QED BY <1>3, <1>5, <1>6, <1>7, <1>8 DEF TailInv

\* So does a truncation: no piece that the file has afterwards is known, and it is either
\* noticed by the next poll, or in a race with this one.
LEMMA Truncates ==
  ASSUME TailInv, Truncate
  PROVE  TailInv'
<1>1. /\ TypeOK /\ TextInv /\ FilesInv /\ OnceInv /\ CalmInv
      /\ path = writer /\ text[path] # <<>> /\ ~MidLine /\ generation[path] < MaxTruncations
      /\ path' = path /\ writer' = writer /\ line' = line
      /\ active' = active /\ retired' = retired /\ poll' = poll /\ delivered' = delivered
      /\ torn' = torn
      /\ disorder' = disorder \cup {IF poll = None THEN "cut" ELSE "raced"}
  BY DEF TailInv, Truncate, tailerVars
<1>2. PICK w \in Files : w = writer /\ w = path /\ w \in Nat /\ w # None
  BY <1>1, PlaceTypes
<1>3. /\ text' \in [Files -> Seq(Piece)] /\ text'[w] = <<>>
      /\ \A f \in Files : f # w => text'[f] = text[f]
  <2>1. text' = [text EXCEPT ![w] = <<>>]
    BY <1>2 DEF Truncate
  <2> QED BY <1>1, <2>1 DEF TypeOK
<1>4. /\ generation' \in [Files -> 0..MaxTruncations] /\ generation'[w] = generation[w] + 1
      /\ \A f \in Files : f # w => generation'[f] = generation[f]
      /\ \A f \in Files : generation[f] \in Nat
  <2>1. generation' = [generation EXCEPT ![w] = @ + 1]
    BY <1>2 DEF Truncate
  <2>2. generation \in [Files -> 0..MaxTruncations]
    BY <1>1 DEF TypeOK
  <2>3. generation[w] + 1 \in 0..MaxTruncations
    BY <1>1, <1>2, <2>2, TailerAssumption
  <2>4. \A f \in Files : generation[f] \in Nat
    BY <2>2
  <2> QED BY <2>1, <2>2, <2>3, <2>4
<1>5. disorder \subseteq disorder' /\ disorder' \subseteq Disorders
  BY <1>1 DEF TypeOK, Disorders
<1>6. TypeOK'
  BY <1>1, <1>3, <1>4, <1>5 DEF TypeOK
<1>7. \A f \in Files : \A i \in DOMAIN text'[f] : f # w /\ i \in DOMAIN text[f] /\ text'[f] = text[f]
  BY <1>3
<1>8. ~MidLine'
  BY <1>1, <1>2, <1>3 DEF MidLine
<1>9. TextInv'
  <2>1. LogPlace'
    BY <1>1, <1>2, <1>3 DEF TextInv, LogPlace
  <2>2. LinesUpTo'
    BY <1>1, <1>7, <1>8 DEF TextInv, LinesUpTo
  <2>3. FilesApart'
    BY <1>1, <1>7 DEF TextInv, FilesApart
  <2>4. LinesInOrder'
    BY <1>1, <1>7 DEF TextInv, LinesInOrder
  <2>5. LinesWhole'
    BY <1>1, <1>7 DEF TextInv, LinesWhole
  <2> QED BY <2>1, <2>2, <2>3, <2>4, <2>5 DEF TextInv
<1>10. FilesInv'
  <2>1. At("follow")' /\ poll'.file # None => poll'.meta.gen <= generation'[poll'.file]
    <3> SUFFICES ASSUME At("follow")', poll.file # None PROVE poll.meta.gen <= generation'[poll.file]
      BY <1>1
    <3>1. At("follow")
      BY <1>1 DEF At
    <3>2. poll \in PollState /\ poll.meta # None /\ poll.meta.gen <= generation[poll.file]
      BY <1>1, <3>1, FileTypes DEF At, FilesInv
    <3>3. poll.file \in Files /\ poll.meta.gen \in Nat
      <4>1. 0..MaxTruncations \subseteq Nat
        OBVIOUS
      <4>2. poll.file \in Files /\ poll.meta \in Metadata
        BY <3>2 DEF PollState
      <4> QED BY <4>1, <4>2 DEF Metadata
    <3>4. PICK g \in Files, a \in Nat : g = poll.file /\ a = poll.meta.gen
      BY <3>3
    <3>5. a <= generation[g] /\ generation[g] \in Nat
      BY <1>4, <3>2, <3>4
    <3>6. a <= generation'[g]
      <4>1. CASE g = w
        BY <1>4, <3>5, <4>1
      <4>2. CASE g # w
        BY <1>4, <3>5, <4>2
      <4> QED BY <4>1, <4>2
    <3> QED BY <3>4, <3>6
  <2>2. At("follow")' => poll'.meta # None
    BY <1>1 DEF At, FilesInv
  <2>3. /\ active' # None => /\ active'.idle = 0
                             /\ active'.file <= IF path' = None THEN writer' ELSE path'
        /\ \A i \in DOMAIN retired' : retired'[i].file <= writer' /\ (path' # None => retired'[i].file < path')
        /\ At("anchor")' \/ At("stat")' => active' # None
    BY <1>1 DEF FilesInv, At
  <2>4. At("follow")' /\ active' # None /\ poll'.file # active'.file =>
          active'.file <= writer' /\ (path' # None => active'.file < path')
    BY <1>1 DEF FilesInv, At
  <2> QED BY <2>1, <2>2, <2>3, <2>4 DEF FilesInv
<1>11. Lines' = Lines /\ (\A n : Known(Lines, n)' <=> Known(Lines, n))
  BY <1>1 DEF Lines, Known
<1>12. \A f \in Files, k \in Nat : Clean(f, k, Lines) => Clean(f, k, Lines)'
  <2> SUFFICES ASSUME NEW f \in Files, NEW k \in Nat, Clean(f, k, Lines),
                      NEW i \in DOMAIN text'[f], i > k, text'[f][i].end, Known(Lines, text'[f][i].line)
               PROVE  FALSE
    BY <1>11 DEF Clean
  <2>1. i \in DOMAIN text[f] /\ text'[f] = text[f]
    BY <1>7
  <2> QED BY <2>1 DEF Clean
<1>13. Clean(w, 0, Lines)'
  <2>1. DOMAIN text'[w] = {}
    BY <1>3
  <2> QED BY <2>1 DEF Clean
<1>14. OnceInv'
  <2>1. Once(Lines)'
    <3>1. \A n : Ended(n) => Ended(n)'
      BY <1>1, <1>8 DEF Ended
    <3>2. Once(Lines)
      BY <1>1 DEF OnceInv
    <3> SUFFICES ASSUME NEW n \in 1..MaxLine
                 PROVE  /\ delivered'[n] <= 1
                        /\ \A i, j \in DOMAIN Lines' :
                             Counted(Lines'[i], n) /\ Counted(Lines'[j], n) => i = j /\ delivered'[n] = 0
                        /\ Known(Lines, n)' => Ended(n)'
      BY DEF Once
    <3>3. Known(Lines, n)' => Ended(n)'
      BY <1>11, <3>1, <3>2 DEF Once
    <3> QED BY <1>1, <1>11, <3>2, <3>3 DEF Once
  <2>2. (\A i \in DOMAIN retired : Clean(retired[i].file, retired[i].offset, Lines))'
    BY <1>1, <1>12, FileTypes DEF OnceInv
  <2>3. ASSUME active # None
        PROVE  /\ Clean(active.file, active.offset, Lines)'
               /\ Clean(active.file, 0, Lines)' \/ Followed(active)'
    <3>0. active.file \in Files /\ active.offset \in Nat
      BY <1>1, <2>3, FileTypes
    <3>1. Clean(active.file, active.offset, Lines)'
      BY <1>1, <1>12, <2>3, <3>0 DEF OnceInv
    <3>2. CASE active.file = w
      <4>1. Clean(active.file, 0, Lines)'
        BY <1>1, <1>13, <3>2 DEF Clean
      <4> QED BY <3>1, <4>1
    <3>3. CASE active.file # w /\ Clean(active.file, 0, Lines)
      BY <1>1, <1>12, <3>0, <3>1, <3>3
    <3>4. CASE active.file # w /\ Followed(active)
      <4>1. text'[active.file] = text[active.file]
        BY <1>3, <3>0, <3>4
      <4>2. Followed(active)'
        BY <1>1, <3>4, <4>1 DEF Followed, At, AnchorAt
      <4> QED BY <3>1, <4>2
    <3> QED BY <1>1, <2>3, <3>2, <3>3, <3>4 DEF OnceInv
  <2>4. (path # None /\ (active # None => active.file # path) => Clean(path, 0, Lines))'
    <3>1. Clean(path, 0, Lines)'
      BY <1>1, <1>2, <1>13 DEF Clean
    <3> QED BY <3>1
  <2> QED BY <1>1, <2>1, <2>2, <2>3, <2>4 DEF OnceInv
<1>15. CalmInv'
  <2> SUFFICES ASSUME Calm'
               PROVE  /\ ~torn'
                      /\ SoundLines(Lines)'
                      /\ (\A i \in DOMAIN retired : Parsed(retired[i]))'
                      /\ active' # None => /\ (active.gen <= generation[active.file])'
                                           /\ Noticed(active)' \/ Stale(active)'
    BY DEF CalmInv
  <2>1. Calm /\ poll = None
    <3>1. "raced" # "cut"
      OBVIOUS
    <3> QED BY <1>1, <1>5, <3>1 DEF Calm
  <2>2. ~torn' /\ SoundLines(Lines)'
    BY <1>1, <1>11, <2>1 DEF CalmInv, SoundLines
  <2>3. ASSUME NEW f \in Files, f # w, NEW o, o.file = f, Parsed(o) PROVE Parsed(o)'
    BY <1>3, <2>3 DEF Parsed
  <2>4. (\A i \in DOMAIN retired : Parsed(retired[i]))'
    <3> SUFFICES ASSUME NEW i \in DOMAIN retired PROVE Parsed(retired[i])'
      BY <1>1
    <3>1. PICK o \in OpenFile : o = retired[i] /\ Parsed(o) /\ o.file \in Files
      BY <1>1, <2>1, FileTypes DEF CalmInv
    <3>2. o.file < path /\ o.file \in Nat
      BY <1>1, <1>2, <3>1, TextTypes DEF FilesInv
    <3>3. o.file # w
      BY <1>2, <3>2
    <3>4. Parsed(o)'
      BY <2>3, <3>1, <3>3
    <3> QED BY <1>1, <3>1, <3>4 DEF Parsed
  <2>5. ASSUME active # None
        PROVE  (active.gen <= generation[active.file])' /\ (Noticed(active)' \/ Stale(active)')
    <3>1. PICK o \in OpenFile : o = active /\ o.file \in Files /\ o.offset \in Nat /\ o.gen \in Nat
      <4>1. 0..MaxTruncations \subseteq Nat
        OBVIOUS
      <4> QED BY <1>1, <2>5, <4>1, FileTypes DEF OpenFile
    <3>2. /\ o.gen <= generation[o.file] /\ generation[o.file] \in Nat
          /\ Noticed(o) \/ Stale(o)
      BY <1>1, <1>4, <2>1, <2>5, <3>1 DEF CalmInv
    <3>3. CASE o.file # w
      <4>1. ~Stale(o)
        BY <1>2, <3>3 DEF Stale
      <4>2. Parsed(o)'
        BY <2>3, <3>1, <3>2, <3>3, <4>1 DEF Noticed
      <4>3. text'[o.file] = text[o.file] /\ generation'[o.file] = generation[o.file]
        BY <1>3, <1>4, <3>1, <3>3
      <4>4. Noticed(o)'
        BY <1>1, <3>2, <4>1, <4>2, <4>3 DEF Noticed, At, AnchorAt
      <4>5. Noticed(active)'
        BY <1>1, <3>1, <4>4 DEF Noticed, Parsed, AnchorAt
      <4> QED BY <1>1, <3>1, <3>2, <4>3, <4>5
    <3>4. CASE o.file = w
      <4>1. o.gen < generation'[w] /\ o.gen <= generation'[w]
        BY <1>4, <3>1, <3>2, <3>4
      <4>2. ~At("anchor")
        BY <2>1 DEF At
      <4>3. CASE o.offset = 0
        <5>1. Noticed(o)
          BY <3>2, <4>3 DEF Stale
        <5>2. o.pending = <<>> /\ ~o.discarding /\ o.anchor = None
          BY <4>2, <4>3, <5>1 DEF Noticed, Parsed, InLine, AnchorAt
        <5>3. 0 <= Len(text'[w])
          BY <1>3
        <5>4. Noticed(o)'
          BY <3>4, <4>3, <5>2, <5>3 DEF Noticed, Parsed, InLine, AnchorAt
        <5>5. Noticed(active)'
          BY <1>1, <3>1, <5>4 DEF Noticed, Parsed, AnchorAt
        <5> QED BY <1>1, <3>1, <3>4, <4>1, <5>5
      <4>4. CASE o.offset # 0
        <5>1. o.offset > 0
          BY <3>1, <4>4
        <5>2. o.anchor # None /\ o.anchor.line <= line
          <6>1. CASE Noticed(o)
            <7>1. PICK k \in Nat : k = o.offset
              BY <3>1
            <7>2. k <= Len(text[w]) /\ o.anchor = text[w][k]
              BY <3>4, <4>2, <4>4, <6>1, <7>1 DEF Noticed, Parsed, AnchorAt
            <7>3. k \in DOMAIN text[w]
              BY <1>1, <5>1, <7>1, <7>2, TextTypes
            <7>4. text[w][k] \in Piece /\ text[w][k].line <= line
              BY <1>1, <7>3, TextTypes DEF TextInv, LinesUpTo
            <7> QED BY <7>2, <7>4, NoneAssumption
          <6>2. CASE Stale(o)
            BY <6>2 DEF Stale
          <6> QED BY <3>2, <6>1, <6>2
        <5>3. DOMAIN text'[w] = {}
          BY <1>3
        <5>4. Stale(o)'
          BY <1>1, <1>2, <2>1, <3>4, <4>1, <5>1, <5>2, <5>3 DEF Stale
        <5>5. Stale(active)'
          BY <1>1, <3>1, <5>4 DEF Stale
        <5> QED BY <1>1, <3>1, <3>4, <4>1, <5>5
      <4> QED BY <4>3, <4>4
    <3> QED BY <3>3, <3>4
  <2> QED BY <1>1, <2>2, <2>4, <2>5
<1> QED BY <1>6, <1>9, <1>10, <1>14, <1>15 DEF TailInv

(* ------------------------- the tailer's own steps ---------------------- *)

\* What is said of the log stays when the tailer steps.
LEMMA LogKept ==
  ASSUME UNCHANGED logVars
  PROVE  /\ text' = text /\ generation' = generation /\ path' = path /\ writer' = writer
         /\ line' = line
         /\ TextInv => TextInv'
         /\ \A n : Ended(n)' <=> Ended(n)
         /\ \A o : Parsed(o)' <=> Parsed(o)
         /\ \A f, k : AnchorAt(f, k)' = AnchorAt(f, k)
<1>1. text' = text /\ generation' = generation /\ path' = path /\ writer' = writer /\ line' = line
  BY DEF logVars
<1>2. TextInv => TextInv'
  BY <1>1 DEF TextInv, LogPlace, LinesUpTo, FilesApart, LinesInOrder, LinesWhole, MidLine
<1>3. \A n : Ended(n)' <=> Ended(n)
  BY <1>1 DEF Ended, MidLine
<1>4. \A o : Parsed(o)' <=> Parsed(o)
  BY <1>1 DEF Parsed
<1>5. \A f, k : AnchorAt(f, k)' = AnchorAt(f, k)
  BY <1>1 DEF AnchorAt
<1> QED BY <1>1, <1>2, <1>3, <1>4, <1>5

\* What is said of the lines stays when the tailer reads nothing.
LEMMA LinesKept ==
  ASSUME UNCHANGED logVars, UNCHANGED delivered
  PROVE  /\ \A f, k, lines : Clean(f, k, lines)' <=> Clean(f, k, lines)
         /\ \A lines : Once(lines)' <=> Once(lines)
<1>1. text' = text /\ delivered' = delivered /\ \A n : Ended(n)' <=> Ended(n)
  BY LogKept
<1>2. \A lines, n : Known(lines, n)' <=> Known(lines, n)
  BY <1>1 DEF Known
<1>3. \A f, k, lines : Clean(f, k, lines)' <=> Clean(f, k, lines)
  BY <1>1, <1>2 DEF Clean
<1>4. ASSUME NEW lines PROVE Once(lines)' <=> Once(lines)
  <2>1. \A n \in 1..MaxLine : (Known(lines, n)' => Ended(n)') <=> (Known(lines, n) => Ended(n))
    BY <1>1, <1>2
  <2>2. Once(lines)' <=>
          \A n \in 1..MaxLine :
            /\ delivered'[n] <= 1
            /\ \A i, j \in DOMAIN lines :
                 Counted(lines[i], n) /\ Counted(lines[j], n) => i = j /\ delivered'[n] = 0
            /\ Known(lines, n)' => Ended(n)'
    BY DEF Once
  <2>3. Once(lines) <=>
          \A n \in 1..MaxLine :
            /\ delivered[n] <= 1
            /\ \A i, j \in DOMAIN lines :
                 Counted(lines[i], n) /\ Counted(lines[j], n) => i = j /\ delivered[n] = 0
            /\ Known(lines, n) => Ended(n)
    BY DEF Once
  <2> QED BY <1>1, <2>1, <2>2, <2>3
<1> QED BY <1>3, <1>4

\* What has to be shown of the lines in the next state.
LEMMA OnceNext ==
  ASSUME NEW lines, Lines' = lines, NEW o, active' = o, NEW files, retired' = files,
         NEW at, path' = at, Once(lines)',
         \A i \in DOMAIN files : Clean(files[i].file, files[i].offset, lines)',
         o # None => /\ Clean(o.file, o.offset, lines)'
                     /\ Clean(o.file, 0, lines)' \/ Followed(o)',
         at # None /\ (o # None => o.file # at) => Clean(at, 0, lines)'
  PROVE  OnceInv'
<1>1. Once(Lines)'
  BY DEF Once, Known
<1>2. (\A i \in DOMAIN retired : Clean(retired[i].file, retired[i].offset, Lines))'
  BY DEF Clean, Known
<1>3. (active # None => /\ Clean(active.file, active.offset, Lines)
                        /\ Clean(active.file, 0, Lines) \/ Followed(active))'
  BY DEF Clean, Known, Followed, AnchorAt
<1>4. (path # None /\ (active # None => active.file # path) => Clean(path, 0, Lines))'
  BY DEF Clean, Known
<1> QED BY <1>1, <1>2, <1>3, <1>4 DEF OnceInv

\* The beginning of a poll keeps the invariant.
LEMMA Stats ==
  ASSUME TailInv, Stat
  PROVE  TailInv'
<1>1. /\ TypeOK /\ TextInv /\ FilesInv /\ OnceInv /\ CalmInv
      /\ poll = None
      /\ active' = active /\ retired' = retired /\ delivered' = delivered /\ torn' = torn
      /\ disorder' = disorder /\ UNCHANGED logVars
  BY DEF TailInv, Stat
<1>2. PICK m : /\ m = IF path = None THEN [len |-> 0, gen |-> 0]
                      ELSE [len |-> Len(text[path]), gen |-> generation[path]]
               /\ poll' = [step |-> "follow", file |-> path, lines |-> <<>>, left |-> MaxBytes, meta |-> m]
  BY DEF Stat
<1>3. m \in Metadata
  <2>1. CASE path = None
    BY <1>2, <2>1, TailerAssumption DEF Metadata
  <2>2. CASE path # None
    <3>1. path \in Files /\ generation[path] \in 0..MaxTruncations /\ Len(text[path]) \in Nat
      BY <1>1, <2>2, TextTypes DEF TypeOK
    <3> QED BY <1>2, <2>2, <3>1 DEF Metadata
  <2> QED BY <2>1, <2>2
<1>4. poll' \in PollState
  <2>1. <<>> \in Seq(Seq(Piece)) /\ path \in Files \cup {None} /\ MaxBytes \in Nat
    BY <1>1, TailerAssumption DEF TypeOK
  <2> QED BY <1>2, <1>3, <2>1 DEF PollState
<1>5. poll' # None
  BY <1>4, NoneAssumption
<1>6. /\ text' = text /\ generation' = generation /\ path' = path /\ writer' = writer /\ line' = line
      /\ TextInv' /\ \A o : Parsed(o)' <=> Parsed(o)
      /\ \A f, k : AnchorAt(f, k)' = AnchorAt(f, k)
  BY <1>1, LogKept
<1>7. TypeOK'
  BY <1>1, <1>4, <1>6 DEF TypeOK
<1>8. /\ At("follow")' /\ ~At("anchor")' /\ ~At("stat")' /\ poll'.file = path /\ poll'.meta = m
      /\ poll'.lines = <<>>
  BY <1>2, <1>5 DEF At
<1>9. Lines = <<>> /\ Lines' = <<>>
  BY <1>1, <1>5, <1>8 DEF Lines
<1>10. ~At("anchor") /\ ~At("follow")
  BY <1>1 DEF At
<1>11. m # None
  BY <1>3, NoneAssumption
<1>12. FilesInv'
  <2>1. /\ active # None => /\ active.idle = 0
                            /\ active.file <= IF path = None THEN writer ELSE path
        /\ \A i \in DOMAIN retired : retired[i].file <= writer /\ (path # None => retired[i].file < path)
    BY <1>1 DEF FilesInv
  <2>2. path # None => m.gen <= generation[path]
    <3> SUFFICES ASSUME path # None PROVE m.gen <= generation[path]
      OBVIOUS
    <3>1. m.gen = generation[path] /\ m.gen \in 0..MaxTruncations
      BY <1>2, <1>3 DEF Metadata
    <3> QED BY <3>1
  <2>3. ASSUME active # None, path # active.file
        PROVE  active.file <= writer /\ (path # None => active.file < path)
    <3>1. active.file \in Nat /\ writer \in Nat
      BY <1>1, <2>3, FileTypes, TextTypes
    <3>2. CASE path = None
      BY <2>1, <2>3, <3>2
    <3>3. CASE path # None
      <4>1. path \in Nat /\ (path = writer \/ path = writer + 1) /\ active.file <= path
        BY <1>1, <2>1, <2>3, <3>3, PlaceTypes DEF TextInv, LogPlace
      <4> QED BY <2>3, <3>1, <4>1
    <3> QED BY <3>2, <3>3
  <2> QED BY <1>1, <1>6, <1>8, <1>11, <2>1, <2>2, <2>3 DEF FilesInv
<1>13. OnceInv'
  <2>1. PICK lines : lines = <<>>
    OBVIOUS
  <2>2. /\ \A f, k : Clean(f, k, lines)' <=> Clean(f, k, lines)
        /\ Once(lines)' <=> Once(lines)
    BY <1>1, LinesKept
  <2>3. /\ Once(lines)
        /\ \A i \in DOMAIN retired : Clean(retired[i].file, retired[i].offset, lines)
        /\ active # None => /\ Clean(active.file, active.offset, lines)
                            /\ Clean(active.file, 0, lines) \/ Followed(active)
        /\ path # None /\ (active # None => active.file # path) => Clean(path, 0, lines)
    BY <1>1, <1>9, <2>1 DEF OnceInv
  <2>4. ASSUME active # None, Followed(active) PROVE Followed(active)'
    <3>1. active.offset <= Len(text[active.file]) /\ active.anchor = AnchorAt(active.file, active.offset)
      BY <1>10, <2>4 DEF Followed
    <3>2. path = active.file => active.offset <= m.len
      <4> SUFFICES ASSUME path = active.file PROVE active.offset <= m.len
        OBVIOUS
      <4>1. path # None
        BY <1>1, <2>4, PlaceTypes, FileTypes
      <4>2. m.len = Len(text[active.file])
        BY <1>2, <4>1
      <4> QED BY <3>1, <4>2
    <3>3. AnchorAt(active.file, active.offset)' = AnchorAt(active.file, active.offset)
      BY <1>1, <1>6 DEF AnchorAt
    <3> QED BY <1>1, <1>6, <1>8, <3>1, <3>2, <3>3 DEF Followed
  <2>5. Once(lines)'
    BY <2>2, <2>3
  <2>a. PICK o, files, at : o = active /\ files = retired /\ at = path
    OBVIOUS
  <2>6. \A i \in DOMAIN files : Clean(files[i].file, files[i].offset, lines)'
    BY <2>2, <2>3, <2>a
  <2>b. o # None /\ Followed(o) => Followed(o)'
    BY <1>1, <2>4, <2>a DEF Followed, AnchorAt
  <2>7. o # None => /\ Clean(o.file, o.offset, lines)'
                    /\ Clean(o.file, 0, lines)' \/ Followed(o)'
    BY <2>2, <2>3, <2>a, <2>b
  <2>8. at # None /\ (o # None => o.file # at) => Clean(at, 0, lines)'
    BY <2>2, <2>3, <2>a
  <2>9. Lines' = lines /\ active' = o /\ retired' = files /\ path' = at
    BY <1>1, <1>6, <1>9, <2>1, <2>a
  <2> QED BY <2>5, <2>6, <2>7, <2>8, <2>9, OnceNext
<1>14. CalmInv'
  <2> SUFFICES ASSUME Calm'
               PROVE  /\ ~torn'
                      /\ SoundLines(Lines)'
                      /\ (\A i \in DOMAIN retired : Parsed(retired[i]))'
                      /\ active' # None => /\ (active.gen <= generation[active.file])'
                                           /\ Noticed(active)' \/ Stale(active)'
    BY DEF CalmInv
  <2>1. Calm
    BY <1>1 DEF Calm
  <2>2. ~torn' /\ SoundLines(Lines)'
    BY <1>1, <1>9, <2>1 DEF CalmInv, SoundLines
  <2>3. (\A i \in DOMAIN retired : Parsed(retired[i]))'
    BY <1>1, <1>6, <2>1 DEF CalmInv
  <2>4. ASSUME active # None
        PROVE  (active.gen <= generation[active.file])' /\ (Noticed(active)' \/ Stale(active)')
    <3>1. PICK o : o = active
      OBVIOUS
    <3>2. active.gen <= generation[active.file] /\ (Noticed(o) \/ Stale(o))
      BY <1>1, <2>1, <2>4, <3>1 DEF CalmInv
    <3>3. ASSUME Noticed(o) PROVE Noticed(o)'
      <4>1. o.anchor = AnchorAt(o.file, o.offset) /\ Parsed(o)
        BY <1>10, <3>3 DEF Noticed
      <4>2. Parsed(o)' /\ AnchorAt(o.file, o.offset)' = AnchorAt(o.file, o.offset)
        BY <1>6, <4>1
      <4> QED BY <4>1, <4>2 DEF Noticed
    <3>4. ASSUME Stale(o) PROVE Stale(o)'
      <4>1. /\ o.file = path /\ o.gen < generation[o.file]
            /\ o.offset > 0 /\ o.anchor # None /\ o.anchor.line <= line
            /\ \A i \in DOMAIN text[o.file] : o.anchor.line < text[o.file][i].line
        BY <3>4 DEF Stale
      <4>2. path # None
        BY <1>1, <2>4, <3>1, <4>1, PlaceTypes, FileTypes
      <4>3. m.gen = generation[path]
        BY <1>2, <4>2
      <4> QED BY <1>6, <1>8, <4>1, <4>3 DEF Stale
    <3>5. Noticed(o)' \/ Stale(o)'
      BY <3>2, <3>3, <3>4
    <3>6. Noticed(active)' \/ Stale(active)'
      BY <1>1, <3>1, <3>5 DEF Noticed, Stale, Parsed, AnchorAt
    <3> QED BY <1>1, <1>6, <3>2, <3>6
  <2> QED BY <1>1, <2>2, <2>3, <2>4
<1> QED BY <1>6, <1>7, <1>12, <1>13, <1>14 DEF TailInv

\* A file as it is opened: at its beginning, or at its end, where nothing is left to read.
LEMMA OpenedFile ==
  ASSUME TypeOK, NEW f \in Files, NEW start, NEW o, o = Opened(f, start)
  PROVE  /\ o \in OpenFile /\ o.file = f /\ o.idle = 0 /\ o.gen = generation[f]
         /\ o.offset = IF start = "end" THEN Len(text[f]) ELSE 0
         /\ o.pending = <<>> /\ o.anchor = AnchorAt(f, o.offset) /\ ~o.discarding
         /\ o.offset <= Len(text[f])
<1>1. PICK l \in Nat : l = Len(text[f])
  BY TextTypes
<1>2. PICK at \in Nat : at = IF start = "end" THEN l ELSE 0
  OBVIOUS
<1>3. at <= l
  BY <1>2
<1>4. PICK a \in Piece \cup {None} : a = AnchorAt(f, at)
  BY <1>1, <1>3, AnchorType
<1>5. PICK g \in 0..MaxTruncations : g = generation[f]
  BY DEF TypeOK
<1>6. o = [file |-> f, offset |-> at, pending |-> <<>>, anchor |-> a,
           len |-> l, gen |-> g, idle |-> 0, discarding |-> FALSE]
  BY <1>1, <1>2, <1>4, <1>5 DEF Opened
<1>7. <<>> \in Pending /\ 0 \in 0..RetiredIdlePolls
  BY DEF Pending, RetiredIdlePolls
<1>8. o \in OpenFile
  BY <1>6, <1>7 DEF OpenFile
<1> QED BY <1>1, <1>2, <1>3, <1>4, <1>5, <1>6, <1>8

\* So does a file opened by sync.
LEMMA Syncs ==
  ASSUME TailInv, Sync
  PROVE  TailInv'
<1>1. /\ TypeOK /\ TextInv /\ FilesInv /\ OnceInv /\ CalmInv
      /\ poll = None /\ active = None /\ path # None
      /\ active' = Opened(path, Start) /\ retired' = retired /\ poll' = poll
      /\ delivered' = delivered /\ torn' = torn /\ UNCHANGED logVars
      /\ disorder' = IF Start = "end" /\ text[path] # <<>> THEN disorder \cup {"skipped"} ELSE disorder
  BY DEF TailInv, Sync, Happens
<1>2. PICK at \in Files : at = path /\ at \in Nat /\ at # None
  BY <1>1, PlaceTypes
<1>3. PICK o \in OpenFile :
        /\ o = Opened(at, Start) /\ o.file = at /\ o.idle = 0 /\ o.gen = generation[at]
        /\ o.offset = IF Start = "end" THEN Len(text[at]) ELSE 0
        /\ o.pending = <<>> /\ o.anchor = AnchorAt(at, o.offset) /\ ~o.discarding
        /\ o.offset <= Len(text[at])
  BY <1>1, OpenedFile
<1>4. active' = o /\ o # None /\ o.offset \in Nat
  BY <1>1, <1>2, <1>3, NoneAssumption DEF OpenFile
<1>5. /\ text' = text /\ generation' = generation /\ path' = path /\ writer' = writer /\ line' = line
      /\ TextInv' /\ \A x : Parsed(x)' <=> Parsed(x)
      /\ \A f, k : AnchorAt(f, k)' = AnchorAt(f, k)
  BY <1>1, LogKept
<1>6. disorder \subseteq disorder' /\ disorder' \subseteq Disorders
  BY <1>1 DEF TypeOK, Disorders
<1>7. \A i \in DOMAIN retired : retired[i].file < at /\ retired[i].file \in Nat /\ retired[i].file # at
  <2>1. \A i \in DOMAIN retired : retired[i].file < at /\ retired[i].file \in Nat
    BY <1>1, <1>2, FileTypes, TextTypes DEF FilesInv
  <2> QED BY <1>2, <2>1
<1>8. TypeOK'
  <2>1. active' \in OpenFile \cup {None} /\ \A i \in DOMAIN retired' : retired'[i].file # active'.file
    BY <1>1, <1>3, <1>4, <1>7
  <2> QED BY <1>1, <1>5, <1>6, <2>1 DEF TypeOK
<1>9. FilesInv'
  <2>1. o.file <= at
    BY <1>2, <1>3
  <2>2. \A i \in DOMAIN retired : retired[i].file <= writer /\ (path # None => retired[i].file < path)
    BY <1>1 DEF FilesInv
  <2>3. ~At("follow")' /\ ~At("anchor")' /\ ~At("stat")'
    BY <1>1 DEF At
  <2> QED BY <1>1, <1>2, <1>3, <1>4, <1>5, <2>1, <2>2, <2>3 DEF FilesInv
<1>10. Lines = <<>> /\ Lines' = <<>>
  BY <1>1 DEF Lines
<1>11. OnceInv'
  <2>1. PICK lines, files : lines = <<>> /\ files = retired
    OBVIOUS
  <2>2. /\ \A f, k : Clean(f, k, lines)' <=> Clean(f, k, lines)
        /\ Once(lines)' <=> Once(lines)
    BY <1>1, LinesKept
  <2>3. /\ Once(lines)
        /\ \A i \in DOMAIN files : Clean(files[i].file, files[i].offset, lines)
        /\ Clean(at, 0, lines)
    BY <1>1, <1>2, <1>10, <2>1 DEF OnceInv
  <2>4. Clean(at, o.offset, lines)
    <3> SUFFICES ASSUME NEW i \in DOMAIN text[at], i > o.offset, text[at][i].end
                 PROVE  ~Known(lines, text[at][i].line)
      BY DEF Clean
    <3>1. DOMAIN text[at] = 1..Len(text[at]) /\ Len(text[at]) \in Nat
      BY <1>1, TextTypes
    <3>2. i > 0
      BY <3>1
    <3> QED BY <2>3, <3>2 DEF Clean
  <2>5. Once(lines)'
    BY <2>2, <2>3
  <2>6. \A i \in DOMAIN files : Clean(files[i].file, files[i].offset, lines)'
    BY <2>2, <2>3
  <2>7. /\ Clean(o.file, o.offset, lines)'
        /\ Clean(o.file, 0, lines)' \/ Followed(o)'
    BY <1>3, <2>2, <2>3, <2>4
  <2>8. Clean(at, 0, lines)'
    BY <2>2, <2>3
  <2>9. Lines' = lines /\ active' = o /\ retired' = files /\ path' = at
    BY <1>1, <1>2, <1>4, <1>5, <1>10, <2>1
  <2> QED BY <2>5, <2>6, <2>7, <2>8, <2>9, OnceNext
<1>12. CalmInv'
  <2> SUFFICES ASSUME Calm'
               PROVE  /\ ~torn'
                      /\ SoundLines(Lines)'
                      /\ (\A i \in DOMAIN retired : Parsed(retired[i]))'
                      /\ (active.gen <= generation[active.file])'
                      /\ Noticed(active)'
    BY DEF CalmInv
  <2>1. Calm
    BY <1>6 DEF Calm
  <2>2. ~torn' /\ SoundLines(Lines)'
    BY <1>1, <1>10, <2>1 DEF CalmInv, SoundLines
  <2>3. (\A i \in DOMAIN retired : Parsed(retired[i]))'
    BY <1>1, <1>5, <2>1 DEF CalmInv
  <2>4. o.offset = 0
    <3>1. CASE Start = "end"
      <4>1. "skipped" # "cut"
        OBVIOUS
      <4>2. text[path] = <<>>
        BY <1>1, <3>1, <4>1 DEF Calm
      <4>3. Len(text[at]) = 0
        BY <1>2, <4>2
      <4> QED BY <1>3, <3>1, <4>3
    <3>2. CASE Start # "end"
      BY <1>3, <3>2
    <3> QED BY <3>1, <3>2
  <2>5. o.anchor = None
    BY <1>3, <2>4 DEF AnchorAt
  <2>6. Noticed(o)'
    <3>1. 0 <= Len(text[at])
      BY <1>3, <2>4
    <3>2. Parsed(o)
      BY <1>3, <2>4, <3>1 DEF Parsed, InLine
    <3>3. AnchorAt(o.file, o.offset)' = None
      BY <2>4 DEF AnchorAt
    <3> QED BY <1>5, <2>5, <3>2, <3>3 DEF Noticed
  <2>7. Noticed(active)'
    BY <1>4, <2>6 DEF Noticed, Parsed, AnchorAt
  <2>8. (active.gen <= generation[active.file])'
    <3>1. generation[at] \in Nat
      <4>1. 0..MaxTruncations \subseteq Nat
        OBVIOUS
      <4> QED BY <1>1, <4>1 DEF TypeOK
    <3> QED BY <1>3, <1>4, <1>5, <3>1
  <2> QED BY <2>2, <2>3, <2>7, <2>8
<1> QED BY <1>5, <1>8, <1>9, <1>11, <1>12 DEF TailInv

\* No line is known without the lines of a poll that was not before.
LEMMA FewerLines ==
  /\ \A lines : Once(lines) => Once(<<>>)
  /\ \A lines, f, k : Clean(f, k, lines) => Clean(f, k, <<>>)
  /\ SoundLines(<<>>)
<1>1. \A lines, n : Known(<<>>, n) => Known(lines, n)
  BY DEF Known
<1>2. ASSUME NEW lines, Once(lines) PROVE Once(<<>>)
  BY <1>1, <1>2 DEF Once
<1>3. ASSUME NEW lines, NEW f, NEW k, Clean(f, k, lines) PROVE Clean(f, k, <<>>)
  BY <1>1, <1>3 DEF Clean
<1>4. SoundLines(<<>>)
  BY DEF SoundLines
<1> QED BY <1>2, <1>3, <1>4

\* A file that the path no longer leads to is retired.
LEMMA Retiring ==
  ASSUME TailInv, At("follow"), active # None => poll.file # active.file, NEW files, files = Retire
  PROVE  /\ files \in Seq(OpenFile)
         /\ \A i \in DOMAIN files : files[i].idle < RetiredIdlePolls
         /\ \A i, j \in DOMAIN files : files[i].file = files[j].file => i = j
         /\ \A i \in DOMAIN files : files[i].file <= writer /\ (path # None => files[i].file < path)
         /\ \A i \in DOMAIN files : files[i].file \in Nat
         /\ \A i \in DOMAIN files : Clean(files[i].file, files[i].offset, Lines)
         /\ Calm => \A i \in DOMAIN files : Parsed(files[i])
         /\ path # None => Clean(path, 0, Lines)
<1>1. TypeOK /\ TextInv /\ FilesInv /\ OnceInv /\ CalmInv
  BY DEF TailInv
<1>2. /\ retired \in Seq(OpenFile)
      /\ \A i \in DOMAIN retired : retired[i].idle < RetiredIdlePolls
      /\ \A i, j \in DOMAIN retired : retired[i].file = retired[j].file => i = j
      /\ \A i \in DOMAIN retired : retired[i].file <= writer /\ (path # None => retired[i].file < path)
      /\ \A i \in DOMAIN retired : retired[i].file \in Nat
      /\ \A i \in DOMAIN retired : Clean(retired[i].file, retired[i].offset, Lines)
      /\ Calm => \A i \in DOMAIN retired : Parsed(retired[i])
  <2>1. \A i \in DOMAIN retired : retired[i].file \in Nat
    BY <1>1, FileTypes, TextTypes
  <2> QED BY <1>1, <2>1 DEF TypeOK, FilesInv, OnceInv, CalmInv
<1>3. CASE active = None
  <2>1. files = retired
    BY <1>3 DEF Retire
  <2>2. path # None => Clean(path, 0, Lines)
    BY <1>1, <1>3 DEF OnceInv
  <2> QED BY <1>2, <2>1, <2>2
<1>4. CASE active # None
  <2>1. PICK o \in OpenFile : o = active /\ o.file \in Nat
    BY <1>1, <1>4, FileTypes, TextTypes
  <2>2. files = Append(retired, o)
    BY <1>4, <2>1 DEF Retire
  <2>3. o.file <= writer /\ (path # None => o.file < path) /\ o.idle = 0
    BY <1>1, <1>4, <2>1 DEF FilesInv
  <2>4. PICK l \in Nat : l = Len(retired) /\ DOMAIN retired = 1..l
    BY <1>1, FileTypes
  <2>5. /\ files \in Seq(OpenFile) /\ DOMAIN files = 1..(l + 1) /\ files[l + 1] = o
        /\ \A i \in 1..l : files[i] = retired[i]
    BY <1>2, <2>2, <2>4, AppendProperties, LenProperties
  <2>6. \A i \in DOMAIN files : \/ i \in DOMAIN retired /\ files[i] = retired[i]
                                \/ i = l + 1 /\ files[i] = o
    <3>1. \A i \in 1..(l + 1) : i \in 1..l \/ i = l + 1
      OBVIOUS
    <3> QED BY <2>4, <2>5, <3>1
  <2>7. \A i \in DOMAIN retired : retired[i].file # o.file
    BY <1>1, <1>4, <2>1 DEF TypeOK
  <2>8. \A i, j \in DOMAIN files : files[i].file = files[j].file => i = j
    <3> TAKE i, j \in DOMAIN files
    <3>1. CASE i \in DOMAIN retired /\ files[i] = retired[i] /\ j \in DOMAIN retired /\ files[j] = retired[j]
      BY <1>2, <3>1
    <3>2. CASE i \in DOMAIN retired /\ files[i] = retired[i] /\ j = l + 1 /\ files[j] = o
      BY <2>7, <3>2
    <3>3. CASE i = l + 1 /\ files[i] = o /\ j \in DOMAIN retired /\ files[j] = retired[j]
      BY <2>7, <3>3
    <3>4. CASE i = l + 1 /\ j = l + 1
      BY <3>4
    <3> QED BY <2>6, <3>1, <3>2, <3>3, <3>4
  <2>9. Clean(o.file, o.offset, Lines)
    BY <1>1, <1>4, <2>1 DEF OnceInv
  <2>10. \A i \in DOMAIN files : Clean(files[i].file, files[i].offset, Lines)
    BY <1>2, <2>6, <2>9
  <2>11. path # None => o.file # path
    <3>1. path # None => path \in Nat
      BY <1>1, PlaceTypes
    <3> QED BY <2>1, <2>3, <3>1
  <2>12. path # None => Clean(path, 0, Lines)
    BY <1>1, <2>1, <2>11 DEF OnceInv
  <2>13. Calm => Parsed(o)
    <3> SUFFICES ASSUME Calm PROVE Parsed(o)
      OBVIOUS
    <3>1. o.file # path
      BY <1>1, <2>1, <2>11, TailerAssumption
    <3>2. Noticed(o) \/ Stale(o)
      BY <1>1, <1>4, <2>1 DEF CalmInv
    <3> QED BY <3>1, <3>2 DEF Noticed, Stale
  <2>14. Calm => \A i \in DOMAIN files : Parsed(files[i])
    BY <1>2, <2>6, <2>13
  <2>15. \A i \in DOMAIN files : files[i].file <= writer /\ (path # None => files[i].file < path)
    BY <1>2, <2>3, <2>6
  <2>16. \A i \in DOMAIN files : files[i].idle < RetiredIdlePolls /\ files[i].file \in Nat
    BY <1>2, <2>1, <2>3, <2>6 DEF RetiredIdlePolls
  <2> QED BY <2>5, <2>8, <2>10, <2>12, <2>14, <2>15, <2>16
<1> QED BY <1>3, <1>4

\* The poll goes on to drain, or ends with an error.
FollowsOn ==
  poll' = None \/ poll' = [poll EXCEPT !.step = "drain", !.file = None, !.meta = None]

\* Follow goes on to drain, or ends the poll without a line.
LEMMA FollowingOn ==
  ASSUME TypeOK, At("follow"), FollowsOn
  PROVE  /\ poll' \in PollState \cup {None}
         /\ ~At("follow")' /\ ~At("anchor")' /\ ~At("stat")' /\ ~At("anchor")
         /\ Lines' = <<>> \/ Lines' = Lines
<1>1. poll \in PollState /\ poll # None /\ ~At("anchor")
  BY FileTypes DEF At
<1>2. CASE poll' = None
  BY <1>1, <1>2 DEF At, Lines
<1>3. CASE poll' = [poll EXCEPT !.step = "drain", !.file = None, !.meta = None]
  <2>1. poll' \in PollState
    BY <1>1, <1>3 DEF PollState
  <2>2. poll' # None
    BY <2>1, NoneAssumption
  <2>3. poll'.step = "drain" /\ poll'.lines = poll.lines
    BY <1>1, <1>3 DEF PollState
  <2> QED BY <1>1, <2>1, <2>2, <2>3 DEF At, Lines
<1> QED BY <1>2, <1>3 DEF FollowsOn

\* The tailer leaves its file, for another or none: what it was reading is retired, and a
\* new file is read where nothing is known.
LEMMA Leaves ==
  ASSUME TailInv, At("follow"), active # None => poll.file # active.file, FollowsOn,
         UNCHANGED <<delivered, torn, disorder>>, UNCHANGED logVars, retired' = Retire,
         active' = None \/ (path # None /\ active' = Opened(path, "beginning"))
  PROVE  TailInv'
<1>1. /\ TypeOK /\ TextInv /\ FilesInv /\ OnceInv /\ CalmInv
      /\ delivered' = delivered /\ torn' = torn /\ disorder' = disorder
  BY DEF TailInv
<1>2. PICK files : files = Retire
  OBVIOUS
<1>3. /\ files \in Seq(OpenFile)
      /\ \A i \in DOMAIN files : files[i].idle < RetiredIdlePolls
      /\ \A i, j \in DOMAIN files : files[i].file = files[j].file => i = j
      /\ \A i \in DOMAIN files : files[i].file <= writer /\ (path # None => files[i].file < path)
      /\ \A i \in DOMAIN files : files[i].file \in Nat
      /\ \A i \in DOMAIN files : Clean(files[i].file, files[i].offset, Lines)
      /\ Calm => \A i \in DOMAIN files : Parsed(files[i])
      /\ path # None => Clean(path, 0, Lines)
  BY <1>2, Retiring
<1>4. /\ text' = text /\ generation' = generation /\ path' = path /\ writer' = writer /\ line' = line
      /\ TextInv' /\ \A x : Parsed(x)' <=> Parsed(x)
      /\ \A f, k : AnchorAt(f, k)' = AnchorAt(f, k)
  BY <1>1, LogKept
<1>5. /\ poll' \in PollState \cup {None}
      /\ ~At("follow")' /\ ~At("anchor")' /\ ~At("stat")'
      /\ Lines' = <<>> \/ Lines' = Lines
  BY <1>1, FollowingOn
<1>6. PICK lines : lines = Lines'
  OBVIOUS
<1>7. /\ Once(lines) /\ \A f, k : Clean(f, k, Lines) => Clean(f, k, lines)
      /\ SoundLines(Lines) => SoundLines(lines)
  <2>1. PICK before : before = Lines
    OBVIOUS
  <2>2. Once(before)
    BY <1>1, <2>1 DEF OnceInv
  <2>3. lines = <<>> \/ lines = before
    BY <1>5, <1>6, <2>1
  <2>4. Once(lines) /\ \A f, k : Clean(f, k, before) => Clean(f, k, lines)
    BY <2>2, <2>3, FewerLines
  <2>5. SoundLines(before) => SoundLines(lines)
    BY <2>3, FewerLines
  <2> QED BY <2>1, <2>4, <2>5
<1>8. PICK o : o = active'
  OBVIOUS
<1>9. o # None => /\ path # None /\ o \in OpenFile /\ o.file = path /\ o.idle = 0
                  /\ o.gen = generation[path] /\ o.offset = 0 /\ o.pending = <<>>
                  /\ o.anchor = None /\ ~o.discarding /\ 0 <= Len(text[path])
  <2> SUFFICES ASSUME o # None
               PROVE  /\ path # None /\ o \in OpenFile /\ o.file = path /\ o.idle = 0
                      /\ o.gen = generation[path] /\ o.offset = 0 /\ o.pending = <<>>
                      /\ o.anchor = None /\ ~o.discarding /\ 0 <= Len(text[path])
    OBVIOUS
  <2>1. path # None /\ o = Opened(path, "beginning")
    BY <1>8
  <2>2. PICK at \in Files : at = path
    BY <1>1, <2>1, PlaceTypes
  <2>3. o = Opened(at, "beginning")
    BY <2>1, <2>2
  <2>4. /\ o \in OpenFile /\ o.file = at /\ o.idle = 0 /\ o.gen = generation[at]
        /\ o.offset = 0 /\ o.pending = <<>> /\ o.anchor = AnchorAt(at, o.offset) /\ ~o.discarding
        /\ o.offset <= Len(text[at])
    <3>1. "beginning" # "end"
      OBVIOUS
    <3> QED BY <1>1, <2>3, <3>1, OpenedFile
  <2> QED BY <2>1, <2>2, <2>4 DEF AnchorAt
<1>10. path # None => path \in Nat
  BY <1>1, PlaceTypes
<1>11. o # None => \A i \in DOMAIN files : files[i].file # o.file
  BY <1>3, <1>9, <1>10
<1>12. active' = o /\ retired' = files
  BY <1>2, <1>8
<1>13. TypeOK'
  <2>1. active' \in OpenFile \cup {None}
    BY <1>8, <1>9
  <2>2. /\ retired' \in Seq(OpenFile)
        /\ \A i \in DOMAIN retired' : retired'[i].idle < RetiredIdlePolls
        /\ \A i, j \in DOMAIN retired' : retired'[i].file = retired'[j].file => i = j
    BY <1>3, <1>12
  <2>3. active' # None => \A i \in DOMAIN retired' : retired'[i].file # active'.file
    BY <1>11, <1>12
  <2>4. /\ text' \in [Files -> Seq(Piece)] /\ generation' \in [Files -> 0..MaxTruncations]
        /\ path' \in Files \cup {None} /\ writer' \in Files /\ line' \in 0..MaxLine
        /\ delivered' \in [1..MaxLine -> Nat] /\ torn' \in BOOLEAN /\ disorder' \subseteq Disorders
    BY <1>1, <1>4 DEF TypeOK
  <2> QED BY <1>5, <2>1, <2>2, <2>3, <2>4 DEF TypeOK
<1>14. FilesInv'
  <2>1. o # None => o.idle = 0 /\ o.file <= path /\ path # None
    BY <1>9, <1>10
  <2> QED BY <1>3, <1>4, <1>5, <1>12, <2>1 DEF FilesInv
<1>15. OnceInv'
  <2>2. /\ \A f, k : Clean(f, k, lines)' <=> Clean(f, k, lines)
        /\ Once(lines)' <=> Once(lines)
    BY <1>1, LinesKept
  <2>3. Once(lines)'
    BY <1>7, <2>2
  <2>4. \A i \in DOMAIN files : Clean(files[i].file, files[i].offset, lines)'
    BY <1>3, <1>7, <2>2
  <2>5. PICK at : at = path
    OBVIOUS
  <2>6. at # None => Clean(at, 0, lines)'
    BY <1>3, <1>7, <2>2, <2>5
  <2>7. o # None => /\ Clean(o.file, o.offset, lines)'
                    /\ Clean(o.file, 0, lines)' \/ Followed(o)'
    BY <1>9, <2>5, <2>6
  <2> QED BY <1>4, <1>6, <1>12, <2>3, <2>4, <2>5, <2>6, <2>7, OnceNext
<1>16. CalmInv'
  <2> SUFFICES ASSUME Calm'
               PROVE  /\ ~torn'
                      /\ SoundLines(Lines)'
                      /\ (\A i \in DOMAIN retired : Parsed(retired[i]))'
                      /\ active' # None => /\ (active.gen <= generation[active.file])'
                                           /\ Noticed(active)'
    BY DEF CalmInv
  <2>1. Calm
    BY <1>1 DEF Calm
  <2>2. ~torn' /\ SoundLines(Lines)'
    BY <1>1, <1>6, <1>7, <2>1 DEF CalmInv, SoundLines
  <2>3. (\A i \in DOMAIN retired : Parsed(retired[i]))'
    BY <1>3, <1>4, <1>12, <2>1
  <2>4. ASSUME o # None PROVE Noticed(o)' /\ o.gen <= generation'[o.file]
    <3>1. AnchorAt(o.file, o.offset)' = None
      BY <1>9, <2>4 DEF AnchorAt
    <3>2. Parsed(o)
      BY <1>9, <2>4 DEF Parsed, InLine
    <3>3. Noticed(o)'
      BY <1>4, <1>9, <2>4, <3>1, <3>2 DEF Noticed
    <3>4. generation[path] \in Nat
      <4>1. 0..MaxTruncations \subseteq Nat
        OBVIOUS
      <4>2. path \in Files
        BY <1>1, <1>9, <2>4, PlaceTypes
      <4> QED BY <1>1, <4>1, <4>2 DEF TypeOK
    <3> QED BY <1>4, <1>9, <2>4, <3>3, <3>4
  <2>5. active' # None => Noticed(active)' /\ (active.gen <= generation[active.file])'
    BY <1>12, <2>4 DEF Noticed, Parsed, AnchorAt
  <2> QED BY <2>2, <2>3, <2>5
<1> QED BY <1>4, <1>13, <1>14, <1>15, <1>16 DEF TailInv

\* As it is found to be rewritten it is read from the beginning; and it is found whenever
\* it was.
LEMMA LooksAgain ==
  ASSUME TailInv, At("follow"), active # None, active.file = poll.file, FollowsOn,
         UNCHANGED <<delivered, torn, disorder, retired>>, UNCHANGED logVars,
         active' = IF WasRewritten(active, poll.meta) THEN Reset(active, poll.meta) ELSE active
  PROVE  TailInv'
<1>1. /\ TypeOK /\ TextInv /\ FilesInv /\ OnceInv /\ CalmInv
      /\ delivered' = delivered /\ torn' = torn /\ disorder' = disorder /\ retired' = retired
  BY DEF TailInv
<1>2. /\ text' = text /\ generation' = generation /\ path' = path /\ writer' = writer /\ line' = line
      /\ TextInv' /\ \A x : Parsed(x)' <=> Parsed(x)
      /\ \A f, k : AnchorAt(f, k)' = AnchorAt(f, k)
  BY <1>1, LogKept
<1>3. /\ poll' \in PollState \cup {None}
      /\ ~At("follow")' /\ ~At("anchor")' /\ ~At("stat")' /\ ~At("anchor")
      /\ Lines' = <<>> \/ Lines' = Lines
  BY <1>1, FollowingOn
<1>4. PICK lines : lines = Lines'
  OBVIOUS
<1>5. /\ Once(lines) /\ \A f, k : Clean(f, k, Lines) => Clean(f, k, lines)
      /\ SoundLines(Lines) => SoundLines(lines)
  <2>1. PICK before : before = Lines
    OBVIOUS
  <2>2. Once(before)
    BY <1>1, <2>1 DEF OnceInv
  <2>3. lines = <<>> \/ lines = before
    BY <1>3, <1>4, <2>1
  <2>4. Once(lines) /\ \A f, k : Clean(f, k, before) => Clean(f, k, lines)
    BY <2>2, <2>3, FewerLines
  <2>5. SoundLines(before) => SoundLines(lines)
    BY <2>3, FewerLines
  <2> QED BY <2>1, <2>4, <2>5
<1>6. PICK o \in OpenFile : o = active /\ o.file \in Files /\ o.offset \in Nat
  BY <1>1, FileTypes
<1>7. PICK meta \in Metadata : meta = poll.meta /\ meta.gen <= generation[o.file]
  <2>1. poll \in PollState /\ poll.meta # None
    BY <1>1, FileTypes DEF At, FilesInv
  <2>2. poll.meta \in Metadata
    BY <2>1 DEF PollState
  <2>3. poll.file # None
    BY <1>1, <1>6, PlaceTypes
  <2>4. poll.meta.gen <= generation[o.file]
    BY <1>1, <1>6, <2>3 DEF FilesInv
  <2> QED BY <2>2, <2>4
<1>8. PICK new \in OpenFile :
        /\ new = Reset(o, meta) /\ new.file = o.file /\ new.idle = 0 /\ new.gen = meta.gen
        /\ new.offset = 0 /\ new.pending = <<>> /\ new.anchor = None /\ ~new.discarding
  <2>1. PICK new : new = Reset(o, meta)
    OBVIOUS
  <2>2. meta.len \in Nat /\ meta.gen \in 0..MaxTruncations
    BY DEF Metadata
  <2>3. <<>> \in Pending /\ 0 \in 0..RetiredIdlePolls
    BY DEF Pending, RetiredIdlePolls
  <2>4. new \in OpenFile
    BY <2>1, <2>2, <2>3 DEF Reset, OpenFile
  <2>5. /\ new.file = o.file /\ new.idle = 0 /\ new.gen = meta.gen
        /\ new.offset = 0 /\ new.pending = <<>> /\ new.anchor = None /\ ~new.discarding
    BY <2>1 DEF Reset, OpenFile
  <2> QED BY <2>1, <2>4, <2>5
<1>9. /\ WasRewritten(o, meta) => active' = new
      /\ ~WasRewritten(o, meta) => active' = o
  BY <1>6, <1>7, <1>8
<1>10. PICK x \in OpenFile : x = active' /\ x.file = o.file /\ x.idle = 0
  BY <1>1, <1>6, <1>8, <1>9 DEF FilesInv
<1>11. x # None
  BY NoneAssumption
<1>12. TypeOK'
  <2>1. active' \in OpenFile \cup {None}
    BY <1>10
  <2>2. active' # None => \A i \in DOMAIN retired' : retired'[i].file # active'.file
    BY <1>1, <1>6, <1>10 DEF TypeOK
  <2> QED BY <1>1, <1>2, <1>3, <2>1, <2>2 DEF TypeOK
<1>13. FilesInv'
  <2>1. x.idle = 0 /\ x.file <= IF path = None THEN writer ELSE path
    BY <1>1, <1>6, <1>10 DEF FilesInv
  <2>2. \A i \in DOMAIN retired : retired[i].file <= writer /\ (path # None => retired[i].file < path)
    BY <1>1 DEF FilesInv
  <2> QED BY <1>1, <1>2, <1>3, <1>10, <1>11, <2>1, <2>2 DEF FilesInv
<1>14. Followed(o) => ~WasRewritten(o, meta)
  <2> SUFFICES ASSUME Followed(o), WasRewritten(o, meta) PROVE FALSE
    OBVIOUS
  <2>1. /\ o.offset <= Len(text[o.file]) /\ o.anchor = AnchorAt(o.file, o.offset)
        /\ o.offset <= meta.len
    BY <1>3, <1>6, <1>7 DEF Followed
  <2>2. Len(text[o.file]) \in Nat /\ meta.len \in Nat
    BY <1>1, <1>6, TextTypes DEF Metadata
  <2>3. ~(meta.len < o.offset) /\ ~(o.offset > Len(text[o.file]))
    BY <1>6, <2>1, <2>2
  <2> QED BY <2>1, <2>3 DEF WasRewritten
<1>15. OnceInv'
  <2>1. PICK files, at : files = retired /\ at = path
    OBVIOUS
  <2>2. /\ \A f, k : Clean(f, k, lines)' <=> Clean(f, k, lines)
        /\ Once(lines)' <=> Once(lines)
    BY <1>1, LinesKept
  <2>3. Once(lines)'
    BY <1>5, <2>2
  <2>4. \A i \in DOMAIN files : Clean(files[i].file, files[i].offset, lines)'
    BY <1>1, <1>5, <2>1, <2>2 DEF OnceInv
  <2>5. /\ Clean(o.file, o.offset, lines)
        /\ Clean(o.file, 0, lines) \/ Followed(o)
    BY <1>1, <1>5, <1>6 DEF OnceInv
  <2>6. /\ Clean(x.file, x.offset, lines)'
        /\ Clean(x.file, 0, lines)' \/ Followed(x)'
    <3>1. CASE WasRewritten(o, meta)
      <4>1. Clean(o.file, 0, lines)
        BY <1>14, <2>5, <3>1
      <4> QED BY <1>8, <1>9, <1>10, <2>2, <3>1, <4>1
    <3>2. CASE ~WasRewritten(o, meta)
      <4>1. x = o
        BY <1>9, <1>10, <3>2
      <4>2. ASSUME Followed(o) PROVE Followed(o)'
        <5>1. o.offset <= Len(text[o.file]) /\ o.anchor = AnchorAt(o.file, o.offset)
          BY <1>3, <4>2 DEF Followed
        <5>2. AnchorAt(o.file, o.offset)' = AnchorAt(o.file, o.offset)
          BY <1>2
        <5> QED BY <1>2, <1>3, <5>1, <5>2 DEF Followed
      <4> QED BY <2>2, <2>5, <4>1, <4>2
    <3> QED BY <3>1, <3>2
  <2>7. at # None /\ x.file # at => Clean(at, 0, lines)'
    BY <1>1, <1>5, <1>6, <1>10, <2>1, <2>2 DEF OnceInv
  <2>8. Lines' = lines /\ active' = x /\ retired' = files /\ path' = at
    BY <1>1, <1>2, <1>4, <1>10, <2>1
  <2> QED BY <1>11, <2>3, <2>4, <2>6, <2>7, <2>8, OnceNext
<1>16. CalmInv'
  <2> SUFFICES ASSUME Calm'
               PROVE  /\ ~torn'
                      /\ SoundLines(Lines)'
                      /\ (\A i \in DOMAIN retired : Parsed(retired[i]))'
                      /\ active' # None => /\ (active.gen <= generation[active.file])'
                                           /\ Noticed(active)'
    BY DEF CalmInv
  <2>1. Calm
    BY <1>1 DEF Calm
  <2>2. ~torn' /\ SoundLines(Lines)'
    BY <1>1, <1>4, <1>5, <2>1 DEF CalmInv, SoundLines
  <2>3. (\A i \in DOMAIN retired : Parsed(retired[i]))'
    BY <1>1, <1>2, <2>1 DEF CalmInv
  <2>4. o.gen <= generation[o.file] /\ (Noticed(o) \/ Stale(o))
    BY <1>1, <1>6, <2>1 DEF CalmInv
  <2>5. Stale(o) => WasRewritten(o, meta)
    <3> SUFFICES ASSUME Stale(o) PROVE WasRewritten(o, meta)
      OBVIOUS
    <3>1. /\ poll # None /\ o.gen < meta.gen /\ o.offset > 0 /\ o.anchor # None
          /\ \A i \in DOMAIN text[o.file] : o.anchor.line < text[o.file][i].line
      BY <1>7 DEF Stale, At
    <3>2. o.gen \in Nat /\ meta.gen \in Nat /\ o.anchor \in Piece /\ o.anchor.line \in Nat
      <4>1. 0..MaxTruncations \subseteq Nat /\ 1..MaxLine \subseteq Nat
        OBVIOUS
      <4>2. o.gen \in 0..MaxTruncations /\ meta.gen \in 0..MaxTruncations /\ o.anchor \in Piece
        BY <3>1 DEF OpenFile, Metadata
      <4> QED BY <4>1, <4>2 DEF Piece
    <3>3. meta.gen # o.gen
      BY <3>1, <3>2
    <3>4. CASE o.offset > Len(text[o.file])
      BY <3>1, <3>3, <3>4 DEF WasRewritten
    <3>5. CASE ~(o.offset > Len(text[o.file]))
      <4>1. o.offset \in DOMAIN text[o.file]
        BY <1>1, <1>6, <3>1, <3>5, TextTypes
      <4>2. text[o.file][o.offset] # o.anchor
        BY <3>1, <3>2, <4>1
      <4>3. AnchorAt(o.file, o.offset) # o.anchor
        BY <3>1, <4>2 DEF AnchorAt
      <4> QED BY <3>1, <3>3, <4>3 DEF WasRewritten
    <3> QED BY <3>4, <3>5
  <2>6. Noticed(x)' /\ x.gen <= generation'[x.file]
    <3>1. CASE WasRewritten(o, meta)
      <4>1. x = new
        BY <1>9, <1>10, <3>1
      <4>2. AnchorAt(new.file, new.offset)' = None
        BY <1>8 DEF AnchorAt
      <4>3. 0 <= Len(text[new.file])
        BY <1>1, <1>6, <1>8, TextTypes
      <4>4. Parsed(new)
        BY <1>8, <4>3 DEF Parsed, InLine
      <4>5. Noticed(new)'
        BY <1>2, <1>8, <4>2, <4>4 DEF Noticed
      <4> QED BY <1>2, <1>7, <1>8, <4>1, <4>5
    <3>2. CASE ~WasRewritten(o, meta)
      <4>1. x = o /\ Noticed(o)
        BY <1>9, <1>10, <2>4, <2>5, <3>2
      <4>2. Parsed(o) /\ o.anchor = AnchorAt(o.file, o.offset)
        BY <1>3, <4>1 DEF Noticed
      <4>3. AnchorAt(o.file, o.offset)' = AnchorAt(o.file, o.offset)
        BY <1>2
      <4>4. Noticed(o)'
        BY <1>2, <4>2, <4>3 DEF Noticed
      <4> QED BY <1>2, <2>4, <4>1, <4>4
    <3> QED BY <3>1, <3>2
  <2>7. Noticed(active)' /\ (active.gen <= generation[active.file])'
    BY <1>10, <2>6 DEF Noticed, Parsed, AnchorAt
  <2> QED BY <2>2, <2>3, <2>7
<1> QED BY <1>2, <1>12, <1>13, <1>15, <1>16 DEF TailInv

\* So Follow keeps the invariant.
LEMMA Follows ==
  ASSUME TailInv, Follow
  PROVE  TailInv'
<1>1. /\ At("follow") /\ UNCHANGED <<delivered, torn, disorder>> /\ UNCHANGED logVars
      /\ poll' = IF poll.file # None /\ path = None /\ active' = None THEN None
                 ELSE [poll EXCEPT !.step = "drain", !.file = None, !.meta = None]
  BY DEF Follow
<1>2. FollowsOn
  BY <1>1 DEF FollowsOn
<1>a. PICK none, same \in BOOLEAN :
        /\ none <=> poll.file = None
        /\ same <=> active # None /\ active.file = poll.file
  OBVIOUS
<1>b. active # None => active.file # None
  BY PlaceTypes, FileTypes DEF TailInv
<1>3. CASE none
  <2>1. active' = None /\ retired' = Retire
    BY <1>a, <1>3 DEF Follow
  <2>2. active # None => poll.file # active.file
    BY <1>3, <1>a, <1>b
  <2> QED BY <1>1, <1>2, <2>1, <2>2, Leaves
<1>4. CASE ~none /\ same
  <2>1. /\ active' = IF WasRewritten(active, poll.meta) THEN Reset(active, poll.meta) ELSE active
        /\ retired' = retired
    BY <1>a, <1>4 DEF Follow
  <2> QED BY <1>1, <1>2, <1>4, <1>a, <2>1, LooksAgain
<1>5. CASE ~none /\ ~same /\ path # None
  <2>1. active' = Opened(path, "beginning") /\ retired' = Retire
    BY <1>a, <1>5 DEF Follow
  <2> QED BY <1>1, <1>2, <1>5, <1>a, <2>1, Leaves
<1>6. CASE ~none /\ ~same /\ path = None
  <2>1. active' = None /\ retired' = Retire
    BY <1>a, <1>6 DEF Follow
  <2> QED BY <1>1, <1>2, <1>6, <1>a, <2>1, Leaves
<1> QED BY <1>3, <1>4, <1>5, <1>6

\* So does the reading of the rotated files.
LEMMA DrainsAll ==
  ASSUME TailInv, DrainRetired
  PROVE  TailInv'
<1>1. /\ TypeOK /\ TextInv /\ FilesInv /\ OnceInv /\ CalmInv /\ At("drain")
      /\ active' = active /\ delivered' = delivered /\ torn' = torn /\ disorder' = disorder
      /\ UNCHANGED logVars
  BY DEF TailInv, DrainRetired
<1>2. PICK r : r = [lines |-> poll.lines, left |-> poll.left, kept |-> <<>>]
  OBVIOUS
<1>3. PICK q : q = FoldLeft(Drain, r, retired)
  OBVIOUS
<1>4. retired' = q.kept /\ poll' = [poll EXCEPT !.step = "read", !.lines = q.lines, !.left = q.left]
  BY <1>2, <1>3 DEF DrainRetired
<1>5. /\ poll # None /\ poll \in PollState /\ poll.lines \in Seq(Seq(Piece)) /\ poll.left \in Nat
      /\ poll.step = "drain" /\ Lines = poll.lines
      /\ ~At("follow") /\ ~At("anchor") /\ ~At("stat")
  BY <1>1, FileTypes DEF At, Lines
<1>6. /\ \A i \in DOMAIN retired : /\ retired[i] \in OpenFile /\ retired[i].file \in Files
                                   /\ retired[i].offset \in Nat
      /\ DOMAIN retired = 1..Len(retired) /\ Len(retired) \in Nat
  BY <1>1, FileTypes
<1>7. Drained(0, r)
  <2>1. r \in DrainState /\ r.lines = poll.lines /\ r.kept = <<>> /\ DOMAIN r.kept = {}
    <3>1. <<>> \in Seq(OpenFile)
      OBVIOUS
    <3> QED BY <1>2, <1>5, <3>1 DEF DrainState
  <2>2. Once(r.lines)
    BY <1>1, <1>5, <2>1 DEF OnceInv
  <2>3. KeptFiles(0, r)
    BY <2>1 DEF KeptFiles
  <2>4. DrainedClean(0, r)
    BY <1>1, <1>5, <2>1 DEF OnceInv, DrainedClean
  <2>5. OthersClean(r)
    BY <2>1 DEF OthersClean
  <2>6. DrainedParsed(r)
    BY <2>1 DEF DrainedParsed
  <2> QED BY <2>1, <2>2, <2>3, <2>4, <2>5, <2>6 DEF Drained
<1>8. Drained(Len(retired), q)
  BY <1>1, <1>3, <1>7, Draining
<1>9. /\ q.lines \in Seq(Seq(Piece)) /\ q.left \in Nat /\ q.kept \in Seq(OpenFile) /\ Once(q.lines)
      /\ KeptFiles(Len(retired), q) /\ DrainedClean(Len(retired), q)
      /\ OthersClean(q) /\ DrainedParsed(q)
  BY <1>8 DEF Drained, DrainState
<1>10. /\ text' = text /\ generation' = generation /\ path' = path /\ writer' = writer /\ line' = line
       /\ TextInv' /\ \A x : Parsed(x)' <=> Parsed(x)
       /\ \A f, k : AnchorAt(f, k)' = AnchorAt(f, k)
  BY <1>1, LogKept
<1>11. /\ poll' \in PollState /\ poll' # None /\ poll'.step = "read" /\ poll'.lines = q.lines
       /\ ~At("follow")' /\ ~At("anchor")' /\ ~At("stat")' /\ Lines' = q.lines
  <2>1. poll' \in PollState /\ poll'.step = "read" /\ poll'.lines = q.lines
    BY <1>4, <1>5, <1>9 DEF PollState
  <2>2. poll' # None
    BY <2>1, NoneAssumption
  <2> QED BY <2>1, <2>2 DEF At, Lines
<1>12. PICK files, lines, o, at : files = q.kept /\ lines = q.lines /\ o = active /\ at = path
  OBVIOUS
<1>13. \A i \in DOMAIN files : \E j \in DOMAIN retired : retired[j].file = files[i].file
  BY <1>9, <1>12 DEF KeptFiles
<1>14. TypeOK'
  <2>1. /\ retired' \in Seq(OpenFile)
        /\ \A i \in DOMAIN retired' : retired'[i].idle < RetiredIdlePolls
        /\ \A i, j \in DOMAIN retired' : retired'[i].file = retired'[j].file => i = j
    BY <1>4, <1>9 DEF KeptFiles
  <2>2. active' # None => \A i \in DOMAIN retired' : retired'[i].file # active'.file
    BY <1>1, <1>4, <1>12, <1>13 DEF TypeOK
  <2>3. poll' \in PollState \cup {None}
    BY <1>11
  <2> QED BY <1>1, <1>10, <2>1, <2>2, <2>3 DEF TypeOK
<1>15. FilesInv'
  <2>1. \A i \in DOMAIN files : files[i].file <= writer /\ (path # None => files[i].file < path)
    BY <1>1, <1>13 DEF FilesInv
  <2>2. active # None => /\ active.idle = 0
                         /\ active.file <= IF path = None THEN writer ELSE path
    BY <1>1 DEF FilesInv
  <2> QED BY <1>1, <1>4, <1>10, <1>11, <1>12, <2>1, <2>2 DEF FilesInv
<1>16. OnceInv'
  <2>1. /\ \A f, k : Clean(f, k, lines)' <=> Clean(f, k, lines)
        /\ Once(lines)' <=> Once(lines)
    BY <1>1, LinesKept
  <2>2. Once(lines)'
    BY <1>9, <1>12, <2>1
  <2>3. \A i \in DOMAIN files : Clean(files[i].file, files[i].offset, lines)'
    BY <1>9, <1>12, <2>1 DEF DrainedClean
  <2>4. \A g \in Files, n \in Nat :
          (\A i \in DOMAIN retired : retired[i].file # g) /\ Clean(g, n, Lines) => Clean(g, n, lines)
    BY <1>5, <1>9, <1>12 DEF OthersClean
  <2>5. ASSUME o # None
        PROVE  /\ Clean(o.file, o.offset, lines)'
               /\ Clean(o.file, 0, lines)' \/ Followed(o)'
    <3>1. o.file \in Files /\ o.offset \in Nat /\ \A i \in DOMAIN retired : retired[i].file # o.file
      BY <1>1, <1>12, <2>5, FileTypes DEF TypeOK
    <3>2. /\ Clean(o.file, o.offset, Lines)
          /\ Clean(o.file, 0, Lines) \/ Followed(o)
      BY <1>1, <1>12, <2>5 DEF OnceInv
    <3>3. Clean(o.file, o.offset, lines) /\ (Clean(o.file, 0, Lines) => Clean(o.file, 0, lines))
      BY <2>4, <3>1, <3>2
    <3>4. Followed(o) => Followed(o)'
      <4> SUFFICES ASSUME Followed(o) PROVE Followed(o)'
        OBVIOUS
      <4>1. o.offset <= Len(text[o.file]) /\ o.anchor = AnchorAt(o.file, o.offset)
        BY <1>5 DEF Followed
      <4>2. AnchorAt(o.file, o.offset)' = AnchorAt(o.file, o.offset)
        BY <1>10
      <4> QED BY <1>10, <1>11, <4>1, <4>2 DEF Followed
    <3> QED BY <2>1, <3>2, <3>3, <3>4
  <2>6. at # None /\ (o # None => o.file # at) => Clean(at, 0, lines)'
    <3> SUFFICES ASSUME at # None, o # None => o.file # at PROVE Clean(at, 0, lines)'
      OBVIOUS
    <3>1. at \in Files /\ at \in Nat /\ Clean(at, 0, Lines)
      BY <1>1, <1>12, PlaceTypes DEF OnceInv
    <3>2. \A i \in DOMAIN retired : retired[i].file # at
      <4>1. \A i \in DOMAIN retired : retired[i].file < at /\ retired[i].file \in Nat
        BY <1>1, <1>6, <1>12, TextTypes DEF FilesInv
      <4> QED BY <3>1, <4>1
    <3> QED BY <2>1, <2>4, <3>1, <3>2
  <2>7. Lines' = lines /\ active' = o /\ retired' = files /\ path' = at
    BY <1>1, <1>4, <1>10, <1>11, <1>12
  <2> QED BY <2>2, <2>3, <2>5, <2>6, <2>7, OnceNext
<1>17. CalmInv'
  <2> SUFFICES ASSUME Calm'
               PROVE  /\ ~torn'
                      /\ SoundLines(Lines)'
                      /\ (\A i \in DOMAIN retired : Parsed(retired[i]))'
                      /\ active' # None => /\ (active.gen <= generation[active.file])'
                                           /\ Noticed(active)'
    BY DEF CalmInv
  <2>1. Calm
    BY <1>1 DEF Calm
  <2>2. SoundLines(lines) /\ \A i \in DOMAIN files : Parsed(files[i])
    BY <1>1, <1>5, <1>9, <1>12, <2>1 DEF DrainedParsed, CalmInv
  <2>3. ~torn' /\ SoundLines(Lines)'
    BY <1>1, <1>11, <1>12, <2>1, <2>2 DEF CalmInv, SoundLines
  <2>4. (\A i \in DOMAIN retired : Parsed(retired[i]))'
    BY <1>4, <1>10, <1>12, <2>2
  <2>5. ASSUME o # None PROVE Noticed(o)' /\ o.gen <= generation'[o.file]
    <3>1. o.gen <= generation[o.file] /\ (Noticed(o) \/ Stale(o))
      BY <1>1, <1>12, <2>1, <2>5 DEF CalmInv
    <3>2. ~Stale(o)
      BY <1>5 DEF Stale
    <3>3. Parsed(o) /\ o.anchor = AnchorAt(o.file, o.offset)
      BY <1>5, <3>1, <3>2 DEF Noticed
    <3>4. AnchorAt(o.file, o.offset)' = AnchorAt(o.file, o.offset)
      BY <1>10
    <3> QED BY <1>10, <3>1, <3>3, <3>4 DEF Noticed
  <2>6. active' # None => Noticed(active)' /\ (active.gen <= generation[active.file])'
    BY <1>1, <1>12, <2>5 DEF Noticed, Parsed, AnchorAt
  <2> QED BY <2>3, <2>4, <2>6
<1> QED BY <1>10, <1>14, <1>15, <1>16, <1>17 DEF TailInv

\* So does the reading of the file at the path.
LEMMA ReadsActive ==
  ASSUME TailInv, ReadActive
  PROVE  TailInv'
<1>1. /\ TypeOK /\ TextInv /\ FilesInv /\ OnceInv /\ CalmInv /\ At("read") /\ active # None
      /\ retired' = retired /\ delivered' = delivered /\ torn' = torn /\ disorder' = disorder
      /\ UNCHANGED logVars
  BY DEF TailInv, ReadActive, Skips
<1>2. PICK o \in OpenFile : o = active /\ o.file \in Files /\ o.offset \in Nat
  BY <1>1, FileTypes
<1>3. /\ poll # None /\ poll \in PollState /\ poll.lines \in Seq(Seq(Piece)) /\ poll.left \in Nat
      /\ Lines = poll.lines /\ ~At("follow") /\ ~At("anchor") /\ ~At("stat")
  BY <1>1, FileTypes DEF At, Lines
<1>4. PICK r : r = [open |-> o, lines |-> poll.lines, left |-> poll.left]
  OBVIOUS
<1>5. PICK q : q = ReadOn(o, poll.lines, poll.left)
  OBVIOUS
<1>6. /\ active' = q.open
      /\ poll' = [poll EXCEPT !.step = IF Unread(o) = <<>> THEN "stat" ELSE "anchor",
                              !.lines = q.lines, !.left = q.left]
  BY <1>2, <1>5 DEF ReadActive
<1>7. /\ Once(poll.lines) /\ Clean(o.file, o.offset, poll.lines)
      /\ Clean(o.file, 0, poll.lines) \/ Followed(o)
  BY <1>1, <1>2, <1>3 DEF OnceInv
<1>8. Reads(r, q) /\ Parses(r, q) /\ (Unread(o) = <<>> => q = r)
  BY <1>1, <1>3, <1>4, <1>5, <1>7, Reading
<1>9. r.open = o /\ r.lines = poll.lines /\ r.left = poll.left
  BY <1>4
<1>10. PICK x \in OpenFile : x = q.open /\ x.file = o.file /\ x.gen = o.gen /\ x.idle = o.idle
  BY <1>8, <1>9 DEF Reads, Progress, ReadState
<1>11. q.lines \in Seq(Seq(Piece)) /\ q.left \in Nat
  BY <1>8 DEF Reads, Progress, ReadState
<1>12. PICK lines, files, at : lines = q.lines /\ files = retired /\ at = path
  OBVIOUS
<1>13. Once(lines) /\ Clean(x.file, x.offset, lines) /\ CleanElsewhere(o.file, poll.lines, lines)
  BY <1>8, <1>9, <1>10, <1>12 DEF Reads
<1>14. /\ text' = text /\ generation' = generation /\ path' = path /\ writer' = writer /\ line' = line
       /\ TextInv' /\ \A y : Parsed(y)' <=> Parsed(y)
       /\ \A f, k : AnchorAt(f, k)' = AnchorAt(f, k)
  BY <1>1, LogKept
<1>15. /\ poll' \in PollState /\ poll' # None /\ poll'.lines = lines /\ Lines' = lines
       /\ poll'.step = IF Unread(o) = <<>> THEN "stat" ELSE "anchor"
       /\ ~At("follow")'
  <2>1. PICK s : s = IF Unread(o) = <<>> THEN "stat" ELSE "anchor"
    OBVIOUS
  <2>2. s \in {"stat", "anchor"}
    BY <2>1
  <2>3. poll' = [poll EXCEPT !.step = s, !.lines = q.lines, !.left = q.left]
    BY <1>6, <2>1
  <2>4. poll' \in PollState /\ poll'.lines = q.lines /\ poll'.step = s
    BY <1>3, <1>11, <2>2, <2>3 DEF PollState
  <2>5. poll' # None
    BY <2>4, NoneAssumption
  <2> QED BY <1>12, <2>1, <2>2, <2>4, <2>5 DEF At, Lines
<1>16. active' = x /\ x # None
  BY <1>6, <1>10, NoneAssumption
<1>17. TypeOK'
  <2>1. active' \in OpenFile \cup {None} /\ \A i \in DOMAIN retired' : retired'[i].file # active'.file
    BY <1>1, <1>2, <1>10, <1>16 DEF TypeOK
  <2>2. poll' \in PollState \cup {None}
    BY <1>15
  <2> QED BY <1>1, <1>14, <2>1, <2>2 DEF TypeOK
<1>18. FilesInv'
  <2>1. /\ o.idle = 0 /\ o.file <= IF path = None THEN writer ELSE path
        /\ \A i \in DOMAIN retired : retired[i].file <= writer /\ (path # None => retired[i].file < path)
    BY <1>1, <1>2 DEF FilesInv
  <2> QED BY <1>1, <1>10, <1>14, <1>15, <1>16, <2>1 DEF FilesInv
<1>19. Unread(o) # <<>> => x.offset <= Len(text[o.file])
  <2> SUFFICES ASSUME Unread(o) # <<>> PROVE x.offset <= Len(text[o.file])
    OBVIOUS
  <2>1. o.offset < Len(text[o.file])
    BY <1>1, UnreadSome
  <2>2. /\ o.offset <= x.offset
        /\ x.offset > o.offset => x.offset <= Len(text[o.file])
    BY <1>8, <1>9, <1>10 DEF Reads, Progress
  <2>3. x.offset \in Nat /\ Len(text[o.file]) \in Nat
    BY <1>1, <1>2, TextTypes DEF OpenFile
  <2> QED BY <1>2, <2>1, <2>2, <2>3
<1>20. Unread(o) = <<>> => x = o /\ lines = poll.lines
  BY <1>8, <1>9, <1>10, <1>12
<1>21. OnceInv'
  <2>1. /\ \A f, k : Clean(f, k, lines)' <=> Clean(f, k, lines)
        /\ Once(lines)' <=> Once(lines)
    BY <1>1, LinesKept
  <2>2. Once(lines)' /\ Clean(x.file, x.offset, lines)'
    BY <1>13, <2>1
  <2>3. \A i \in DOMAIN files : Clean(files[i].file, files[i].offset, lines)'
    <3> SUFFICES ASSUME NEW i \in DOMAIN files PROVE Clean(files[i].file, files[i].offset, lines)
      BY <2>1
    <3>1. /\ files[i].file \in Files /\ files[i].offset \in Nat /\ files[i].file # o.file
      BY <1>1, <1>2, <1>12, FileTypes DEF TypeOK
    <3>2. Clean(files[i].file, files[i].offset, poll.lines)
      BY <1>1, <1>3, <1>12 DEF OnceInv
    <3> QED BY <1>13, <3>1, <3>2 DEF CleanElsewhere
  <2>4. Clean(x.file, 0, lines)' \/ Followed(x)'
    <3>1. CASE Unread(o) = <<>>
      <4>1. CASE Clean(o.file, 0, poll.lines)
        BY <1>20, <2>1, <3>1, <4>1
      <4>2. CASE Followed(o)
        <5>1. o.offset <= Len(text[o.file]) /\ o.anchor = AnchorAt(o.file, o.offset)
          BY <1>3, <4>2 DEF Followed
        <5>2. AnchorAt(o.file, o.offset)' = AnchorAt(o.file, o.offset)
          BY <1>14
        <5>3. Followed(o)'
          BY <1>14, <1>15, <5>1, <5>2 DEF Followed
        <5> QED BY <1>20, <3>1, <5>3
      <4> QED BY <1>7, <4>1, <4>2
    <3>2. CASE Unread(o) # <<>>
      <4>1. At("anchor")'
        BY <1>15, <3>2 DEF At
      <4>2. x.offset <= Len(text[x.file])
        BY <1>10, <1>19, <3>2
      <4>3. Followed(x)'
        BY <1>14, <1>15, <4>1, <4>2 DEF Followed
      <4> QED BY <4>3
    <3> QED BY <3>1, <3>2
  <2>5. at # None /\ x.file # at => Clean(at, 0, lines)'
    <3> SUFFICES ASSUME at # None, x.file # at PROVE Clean(at, 0, lines)
      BY <2>1
    <3>1. at \in Files /\ Clean(at, 0, poll.lines)
      BY <1>1, <1>2, <1>3, <1>10, <1>12, PlaceTypes DEF OnceInv
    <3> QED BY <1>10, <1>13, <3>1 DEF CleanElsewhere
  <2>6. Lines' = lines /\ active' = x /\ retired' = files /\ path' = at
    BY <1>1, <1>12, <1>14, <1>15, <1>16
  <2> QED BY <1>16, <2>2, <2>3, <2>4, <2>5, <2>6, OnceNext
<1>22. CalmInv'
  <2> SUFFICES ASSUME Calm'
               PROVE  /\ ~torn'
                      /\ SoundLines(Lines)'
                      /\ (\A i \in DOMAIN retired : Parsed(retired[i]))'
                      /\ active' # None => /\ (active.gen <= generation[active.file])'
                                           /\ Noticed(active)'
    BY DEF CalmInv
  <2>1. Calm
    BY <1>1 DEF Calm
  <2>2. o.gen <= generation[o.file] /\ Noticed(o) /\ SoundLines(poll.lines)
    <3>1. ~Stale(o)
      BY <1>3 DEF Stale
    <3> QED BY <1>1, <1>2, <1>3, <2>1, <3>1 DEF CalmInv
  <2>3. Parsed(o) /\ o.anchor = AnchorAt(o.file, o.offset)
    BY <1>3, <2>2 DEF Noticed
  <2>4. Parsed(x) /\ SoundLines(lines)
    BY <1>8, <1>9, <1>10, <1>12, <2>2, <2>3 DEF Parses
  <2>5. ~torn' /\ SoundLines(Lines)'
    BY <1>1, <1>15, <2>1, <2>4 DEF CalmInv, SoundLines
  <2>6. (\A i \in DOMAIN retired : Parsed(retired[i]))'
    BY <1>1, <1>14, <2>1 DEF CalmInv
  <2>7. ~At("anchor")' => x.anchor = AnchorAt(x.file, x.offset)'
    <3> SUFFICES ASSUME ~At("anchor")' PROVE x.anchor = AnchorAt(x.file, x.offset)'
      OBVIOUS
    <3>1. Unread(o) = <<>>
      BY <1>15 DEF At
    <3>2. AnchorAt(o.file, o.offset)' = AnchorAt(o.file, o.offset)
      BY <1>14
    <3> QED BY <1>20, <2>3, <3>1, <3>2
  <2>8. Noticed(x)' /\ x.gen <= generation'[x.file]
    BY <1>10, <1>14, <2>2, <2>4, <2>7 DEF Noticed
  <2>9. Noticed(active)' /\ (active.gen <= generation[active.file])'
    BY <1>16, <2>8 DEF Noticed, Parsed, AnchorAt
  <2> QED BY <2>5, <2>6, <2>9
<1> QED BY <1>14, <1>17, <1>18, <1>21, <1>22 DEF TailInv

\* What is returned was known before, and only that.
LEMMA Returned ==
  ASSUME TypeOK, TextInv, poll # None, Once(poll.lines), Return
  PROVE  /\ poll' = None /\ retired' = retired /\ disorder' = disorder
         /\ UNCHANGED logVars
         /\ delivered' \in [1..MaxLine -> Nat] /\ torn' \in BOOLEAN
         /\ Once(<<>>)'
         /\ \A f \in Files, k \in Nat : Clean(f, k, poll.lines) => Clean(f, k, <<>>)'
         /\ ~torn /\ SoundLines(poll.lines) => ~torn'
<1>1. PICK lines \in Seq(Seq(Piece)) : lines = poll.lines
  BY FileTypes
<1>2. /\ poll' = None /\ retired' = retired /\ disorder' = disorder /\ UNCHANGED logVars
      /\ delivered' = [n \in 1..MaxLine |->
           delivered[n] + Cardinality({i \in DOMAIN lines : Counted(lines[i], n)})]
      /\ torn' = (torn \/ \E i \in DOMAIN lines : ~WholeLine(lines[i]) /\ Last(lines[i]).end)
  BY <1>1 DEF Return
<1>3. \A n \in 1..MaxLine : delivered[n] \in Nat
  BY DEF TypeOK
<1>4. ASSUME NEW n \in 1..MaxLine
      PROVE  /\ delivered'[n] \in Nat /\ delivered'[n] <= 1
             /\ delivered'[n] > 0 => Known(lines, n)
  <2> DEFINE S == {i \in DOMAIN lines : Counted(lines[i], n)}
  <2>1. delivered'[n] = delivered[n] + Cardinality(S)
    BY <1>2
  <2>2. /\ delivered[n] <= 1 /\ delivered[n] \in Nat
        /\ \A i, j \in S : i = j /\ delivered[n] = 0
    BY <1>1, <1>3 DEF Once
  <2>3. CASE S = {}
    <3>1. Cardinality(S) = 0
      BY <2>3, FS_EmptySet
    <3>2. delivered'[n] = delivered[n]
      BY <2>1, <2>2, <3>1
    <3> QED BY <2>2, <3>2 DEF Known
  <2>4. CASE S # {}
    <3>1. PICK i \in S : TRUE
      BY <2>4
    <3>2. S = {i} /\ delivered[n] = 0
      BY <2>2, <3>1
    <3>3. Cardinality(S) = 1
      BY <3>2, FS_Singleton
    <3>4. delivered'[n] = 1
      BY <2>1, <3>2, <3>3
    <3>5. Known(lines, n)
      BY <3>1 DEF Known
    <3> QED BY <3>4, <3>5
  <2> QED BY <2>3, <2>4
<1>5. delivered' \in [1..MaxLine -> Nat]
  <2>1. delivered' = [n \in 1..MaxLine |-> delivered'[n]]
    BY <1>2
  <2> QED BY <1>4, <2>1
<1>6. torn' \in BOOLEAN
  BY <1>2
<1>7. /\ text' = text /\ \A n : Ended(n)' <=> Ended(n)
  BY <1>2, LogKept
<1>8. \A n \in 1..MaxLine : Known(<<>>, n)' => Known(lines, n)
  BY <1>4 DEF Known
<1>9. Once(<<>>)'
  <2> SUFFICES ASSUME NEW n \in 1..MaxLine PROVE delivered'[n] <= 1 /\ (Known(<<>>, n)' => Ended(n)')
    BY DEF Once
  <2>1. Known(lines, n) => Ended(n)
    BY <1>1 DEF Once
  <2> QED BY <1>4, <1>7, <1>8, <2>1
<1>10. ASSUME NEW f \in Files, NEW k \in Nat, Clean(f, k, lines) PROVE Clean(f, k, <<>>)'
  <2>1. ASSUME NEW i \in DOMAIN text[f], i > k, text[f][i].end PROVE ~Known(<<>>, text[f][i].line)'
    <3>1. PICK n \in 1..MaxLine : n = text[f][i].line
      BY TextTypes
    <3>2. ~Known(lines, n)
      BY <1>10, <2>1, <3>1 DEF Clean
    <3>3. ~Known(<<>>, n)'
      BY <1>8, <3>2
    <3>4. ~(delivered'[n] > 0)
      BY <3>3 DEF Known
    <3> QED BY <1>7, <3>1, <3>4 DEF Known
  <2>2. \A i \in DOMAIN text[f] : i > k /\ text[f][i].end => ~(delivered'[text[f][i].line] > 0)
    BY <1>7, <2>1 DEF Known
  <2> QED BY <1>7, <2>2 DEF Clean, Known
<1>11. ~torn /\ SoundLines(lines) => ~torn'
  BY <1>2 DEF SoundLines, SoundLine
<1> QED BY <1>1, <1>2, <1>5, <1>6, <1>9, <1>10, <1>11

\* The end of a poll, with its lines or without, keeps the invariant when the active file
\* is still where it was read to.
LEMMA PollEnds ==
  ASSUME TailInv, poll # None, poll' = None, retired' = retired, disorder' = disorder,
         UNCHANGED logVars, delivered' \in [1..MaxLine -> Nat], torn' \in BOOLEAN, Once(<<>>)',
         \A f \in Files, k \in Nat : Clean(f, k, poll.lines) => Clean(f, k, <<>>)',
         Calm => ~torn',
         NEW x \in OpenFile \cup {None}, active' = x, x # None <=> active # None,
         x # None => /\ x.file = active.file /\ x.offset = active.offset /\ x.idle = active.idle
                     /\ Clean(active.file, 0, poll.lines) \/ Followed(x)'
                     /\ Calm => x.gen <= generation[x.file] /\ Noticed(x)'
  PROVE  TailInv'
<1>1. TypeOK /\ TextInv /\ FilesInv /\ OnceInv /\ CalmInv
  BY DEF TailInv
<1>2. /\ text' = text /\ generation' = generation /\ path' = path /\ writer' = writer /\ line' = line
      /\ TextInv' /\ \A y : Parsed(y)' <=> Parsed(y)
  BY <1>1, LogKept
<1>3. Lines = poll.lines /\ Lines' = <<>> /\ ~At("follow")' /\ ~At("anchor")' /\ ~At("stat")'
  BY DEF Lines, At
<1>4. TypeOK'
  <2>1. active' # None => \A i \in DOMAIN retired' : retired'[i].file # active'.file
    BY <1>1 DEF TypeOK
  <2> QED BY <1>1, <1>2, <2>1 DEF TypeOK
<1>5. FilesInv'
  <2>1. /\ x # None => x.idle = 0 /\ x.file <= IF path = None THEN writer ELSE path
        /\ \A i \in DOMAIN retired : retired[i].file <= writer /\ (path # None => retired[i].file < path)
    BY <1>1 DEF FilesInv
  <2> QED BY <1>2, <1>3, <2>1 DEF FilesInv
<1>6. OnceInv'
  <2>1. PICK lines, files, at : lines = <<>> /\ files = retired /\ at = path
    OBVIOUS
  <2>2. Once(lines)'
    BY <2>1
  <2>3. \A f \in Files, k \in Nat : Clean(f, k, Lines) => Clean(f, k, lines)'
    BY <1>3, <2>1
  <2>4. \A i \in DOMAIN files : Clean(files[i].file, files[i].offset, lines)'
    BY <1>1, <2>1, <2>3, FileTypes DEF OnceInv
  <2>5. x # None => /\ Clean(x.file, x.offset, lines)'
                    /\ Clean(x.file, 0, lines)' \/ Followed(x)'
    <3> SUFFICES ASSUME x # None
                 PROVE  /\ Clean(x.file, x.offset, lines)'
                        /\ Clean(x.file, 0, lines)' \/ Followed(x)'
      OBVIOUS
    <3>1. x.file \in Files /\ x.offset \in Nat
      BY DEF OpenFile
    <3>2. Clean(x.file, x.offset, Lines)
      BY <1>1 DEF OnceInv
    <3>3. Clean(x.file, 0, Lines) \/ Followed(x)'
      BY <1>3
    <3> QED BY <2>3, <3>1, <3>2, <3>3
  <2>6. at # None /\ (x # None => x.file # at) => Clean(at, 0, lines)'
    <3> SUFFICES ASSUME at # None, x # None => x.file # at PROVE Clean(at, 0, lines)'
      OBVIOUS
    <3>1. at \in Files /\ Clean(at, 0, Lines)
      BY <1>1, <2>1, PlaceTypes DEF OnceInv
    <3> QED BY <2>3, <3>1
  <2>7. Lines' = lines /\ retired' = files /\ path' = at
    BY <1>2, <1>3, <2>1
  <2> QED BY <2>2, <2>4, <2>5, <2>6, <2>7, OnceNext
<1>7. CalmInv'
  <2> SUFFICES ASSUME Calm'
               PROVE  /\ ~torn'
                      /\ SoundLines(Lines)'
                      /\ (\A i \in DOMAIN retired : Parsed(retired[i]))'
                      /\ active' # None => /\ (active.gen <= generation[active.file])'
                                           /\ Noticed(active)'
    BY DEF CalmInv
  <2>1. Calm
    BY DEF Calm
  <2>2. ~torn' /\ SoundLines(Lines)'
    BY <1>3, <2>1 DEF SoundLines
  <2>3. (\A i \in DOMAIN retired : Parsed(retired[i]))'
    BY <1>1, <1>2, <2>1 DEF CalmInv
  <2>4. active' # None => Noticed(active)' /\ (active.gen <= generation[active.file])'
    BY <1>2, <2>1 DEF Noticed, Parsed, AnchorAt
  <2> QED BY <2>2, <2>3, <2>4
<1> QED BY <1>2, <1>4, <1>5, <1>6, <1>7 DEF TailInv

\* The file is the one that was read up to the offset, and it stays so.
LEMMA StillFollowed ==
  ASSUME UNCHANGED logVars, poll' = None, NEW o, ~At("anchor"), NEW x,
         x.file = o.file, x.offset = o.offset, x.anchor = o.anchor,
         x.pending = o.pending, x.discarding = o.discarding
  PROVE  /\ Followed(o) => Followed(x)'
         /\ Noticed(o) => Noticed(x)'
<1>1. /\ text' = text /\ ~At("anchor")' /\ ~At("follow")'
      /\ \A f, k : AnchorAt(f, k)' = AnchorAt(f, k)
      /\ \A y : Parsed(y)' <=> Parsed(y)
  BY LogKept DEF At
<1>2. Followed(o) => Followed(x)'
  BY <1>1 DEF Followed
<1>3. Parsed(o) <=> Parsed(x)
  BY DEF Parsed
<1>4. Noticed(o) => Noticed(x)'
  BY <1>1, <1>3 DEF Noticed
<1> QED BY <1>2, <1>4

\* So does a poll that has nothing to read in the file at the path.
LEMMA NothingRead ==
  ASSUME TailInv, NothingToRead
  PROVE  TailInv'
<1>1. /\ TypeOK /\ TextInv /\ OnceInv /\ CalmInv
      /\ At("read") /\ poll # None /\ Return /\ active' = active /\ Lines = poll.lines
      /\ ~At("follow") /\ ~At("anchor")
  BY DEF TailInv, NothingToRead, At, Lines
<1>2. PICK x \in OpenFile \cup {None} : x = active
  BY <1>1 DEF TypeOK
<1>3. Once(poll.lines)
  BY <1>1 DEF OnceInv
<1>4. /\ poll' = None /\ retired' = retired /\ disorder' = disorder
      /\ UNCHANGED logVars
      /\ delivered' \in [1..MaxLine -> Nat] /\ torn' \in BOOLEAN
      /\ Once(<<>>)'
      /\ \A f \in Files, k \in Nat : Clean(f, k, poll.lines) => Clean(f, k, <<>>)'
      /\ ~torn /\ SoundLines(poll.lines) => ~torn'
  BY <1>1, <1>3, Returned
<1>5. Calm => ~torn'
  BY <1>1, <1>4 DEF CalmInv
<1>6. (Followed(x) => Followed(x)') /\ (Noticed(x) => Noticed(x)')
  BY <1>1, <1>4, StillFollowed
<1>7. ASSUME x # None
      PROVE  /\ x.file = active.file /\ x.offset = active.offset /\ x.idle = active.idle
             /\ Clean(active.file, 0, poll.lines) \/ Followed(x)'
             /\ Calm => x.gen <= generation[x.file] /\ Noticed(x)'
  <2>1. Clean(active.file, 0, poll.lines) \/ Followed(x)'
    BY <1>1, <1>2, <1>6, <1>7 DEF OnceInv
  <2>2. ~Stale(x)
    BY <1>1 DEF Stale
  <2>3. Calm => x.gen <= generation[x.file] /\ Noticed(x)
    BY <1>1, <1>2, <1>7, <2>2 DEF CalmInv
  <2> QED BY <1>2, <1>6, <2>1, <2>3
<1> QED BY <1>1, <1>2, <1>4, <1>5, <1>7, PollEnds

\* So does one that found nothing new there.
LEMMA NotesMetadata ==
  ASSUME TailInv, NoteMetadata
  PROVE  TailInv'
<1>1. /\ TypeOK /\ TextInv /\ FilesInv /\ OnceInv /\ CalmInv
      /\ At("stat") /\ poll # None /\ Return /\ Lines = poll.lines
      /\ ~At("follow") /\ ~At("anchor") /\ active # None
  BY DEF TailInv, NoteMetadata, At, Lines, FilesInv
<1>2. PICK o \in OpenFile : o = active /\ o.file \in Files
  BY <1>1, FileTypes
<1>3. Once(poll.lines)
  BY <1>1 DEF OnceInv
<1>4. /\ poll' = None /\ retired' = retired /\ disorder' = disorder
      /\ UNCHANGED logVars
      /\ delivered' \in [1..MaxLine -> Nat] /\ torn' \in BOOLEAN
      /\ Once(<<>>)'
      /\ \A f \in Files, k \in Nat : Clean(f, k, poll.lines) => Clean(f, k, <<>>)'
      /\ ~torn /\ SoundLines(poll.lines) => ~torn'
  BY <1>1, <1>3, Returned
<1>5. Calm => ~torn'
  BY <1>1, <1>4 DEF CalmInv
<1>6. PICK l \in Nat, g \in 0..MaxTruncations : l = Len(text[o.file]) /\ g = generation[o.file]
  BY <1>1, <1>2, TextTypes DEF TypeOK
<1>7. active' = [o EXCEPT !.len = l, !.gen = g]
  BY <1>2, <1>6 DEF NoteMetadata
<1>8. PICK x \in OpenFile :
        /\ x = active' /\ x.file = o.file /\ x.offset = o.offset /\ x.anchor = o.anchor
        /\ x.pending = o.pending /\ x.discarding = o.discarding /\ x.idle = o.idle /\ x.gen = g
  <2>1. PICK x : x = [o EXCEPT !.len = l, !.gen = g]
    OBVIOUS
  <2>2. x \in OpenFile
    BY <2>1 DEF OpenFile
  <2>3. /\ x.file = o.file /\ x.offset = o.offset /\ x.anchor = o.anchor
        /\ x.pending = o.pending /\ x.discarding = o.discarding /\ x.idle = o.idle /\ x.gen = g
    BY <2>1 DEF OpenFile
  <2> QED BY <1>7, <2>1, <2>2, <2>3
<1>9. (Followed(o) => Followed(x)') /\ (Noticed(o) => Noticed(x)')
  BY <1>1, <1>4, <1>8, StillFollowed
<1>10. x # None
  BY NoneAssumption
<1>11. /\ x.file = active.file /\ x.offset = active.offset /\ x.idle = active.idle
       /\ Clean(active.file, 0, poll.lines) \/ Followed(x)'
       /\ Calm => x.gen <= generation[x.file] /\ Noticed(x)'
  <2>1. Clean(active.file, 0, poll.lines) \/ Followed(x)'
    BY <1>1, <1>2, <1>9 DEF OnceInv
  <2>2. ~Stale(o)
    BY <1>1 DEF Stale
  <2>3. Calm => Noticed(o)
    BY <1>1, <1>2, <2>2 DEF CalmInv
  <2>4. x.gen <= generation[x.file]
    BY <1>6, <1>8
  <2> QED BY <1>2, <1>8, <1>9, <2>1, <2>3, <2>4
<1> QED BY <1>1, <1>4, <1>5, <1>8, <1>10, <1>11, PollEnds

\* So does one that has read there, and notes the anchor, or cannot since the file was cut.
LEMMA NotesAnchor ==
  ASSUME TailInv, NoteAnchor
  PROVE  TailInv'
<1>1. /\ TypeOK /\ TextInv /\ FilesInv /\ OnceInv /\ CalmInv
      /\ At("anchor") /\ poll # None /\ Lines = poll.lines
      /\ ~At("follow") /\ active # None
  BY DEF TailInv, NoteAnchor, At, Lines, FilesInv
<1>2. PICK o \in OpenFile : o = active /\ o.file \in Files /\ o.offset \in Nat
  BY <1>1, FileTypes
<1>3. Once(poll.lines)
  BY <1>1 DEF OnceInv
<1>6. PICK l \in Nat, g \in 0..MaxTruncations : l = Len(text[o.file]) /\ g = generation[o.file]
  BY <1>1, <1>2, TextTypes DEF TypeOK
<1>4. CASE o.offset <= l
  <2>1. active' = Noted(o) /\ Return
    BY <1>2, <1>4, <1>6 DEF NoteAnchor
  <2>2. /\ poll' = None /\ retired' = retired /\ disorder' = disorder
        /\ UNCHANGED logVars
        /\ delivered' \in [1..MaxLine -> Nat] /\ torn' \in BOOLEAN
        /\ Once(<<>>)'
        /\ \A f \in Files, k \in Nat : Clean(f, k, poll.lines) => Clean(f, k, <<>>)'
        /\ ~torn /\ SoundLines(poll.lines) => ~torn'
    BY <1>1, <1>3, <2>1, Returned
  <2>3. Calm => ~torn'
    BY <1>1, <2>2 DEF CalmInv
  <2>4. PICK x : x = Noted(o)
    OBVIOUS
  <2>5. /\ Reparsed(o, x) /\ x.idle = o.idle /\ x.gen = generation[o.file]
        /\ x.anchor = AnchorAt(o.file, o.offset)
    BY <1>1, <1>4, <1>6, <2>4, NotedFile
  <2>6. x \in OpenFile /\ x.file = o.file /\ x.offset = o.offset /\ x # None
    BY <2>5, NoneAssumption DEF Reparsed
  <2>7. /\ text' = text /\ ~At("follow")' /\ AnchorAt(o.file, o.offset)' = AnchorAt(o.file, o.offset)
        /\ (Parsed(x)' <=> Parsed(x))
    BY <2>2, LogKept DEF At
  <2>8. Followed(x)'
    BY <1>4, <1>6, <2>5, <2>6, <2>7 DEF Followed
  <2>9. Calm => x.gen <= generation[x.file] /\ Noticed(x)'
    <3> SUFFICES ASSUME Calm PROVE x.gen <= generation[x.file] /\ Noticed(x)'
      OBVIOUS
    <3>1. ~Stale(o)
      BY <1>1 DEF Stale
    <3>2. Parsed(o)
      BY <1>1, <1>2, <3>1 DEF CalmInv, Noticed
    <3>3. Parsed(x)
      BY <2>5, <3>2, SameParsed
    <3>4. x.gen <= generation[x.file]
      BY <1>6, <2>5, <2>6
    <3> QED BY <2>5, <2>6, <2>7, <3>3, <3>4 DEF Noticed
  <2>10. active' = x /\ x \in OpenFile \cup {None}
    BY <2>1, <2>4, <2>6
  <2>11. /\ x.file = active.file /\ x.offset = active.offset /\ x.idle = active.idle
    BY <1>2, <2>5, <2>6
  <2> QED BY <1>1, <2>2, <2>3, <2>6, <2>8, <2>9, <2>10, <2>11, PollEnds
<1>5. CASE ~(o.offset <= l)
  <2>1. /\ active' = [o EXCEPT !.len = l, !.gen = g] /\ poll' = None
        /\ retired' = retired /\ delivered' = delivered /\ torn' = torn /\ disorder' = disorder
        /\ UNCHANGED logVars
    BY <1>2, <1>5, <1>6 DEF NoteAnchor
  <2>2. PICK x \in OpenFile :
          x = active' /\ x.file = o.file /\ x.offset = o.offset /\ x.idle = o.idle
    <3>1. PICK x : x = [o EXCEPT !.len = l, !.gen = g]
      OBVIOUS
    <3>2. x \in OpenFile /\ x.file = o.file /\ x.offset = o.offset /\ x.idle = o.idle
      BY <3>1 DEF OpenFile
    <3> QED BY <2>1, <3>1, <3>2
  <2>3. x # None
    BY NoneAssumption
  <2>4. ~Followed(o) /\ ~Parsed(o)
    BY <1>5, <1>6 DEF Followed, Parsed
  <2>5. ~Calm
    <3>1. ~Stale(o)
      BY <1>1 DEF Stale
    <3> QED BY <1>1, <1>2, <2>4, <3>1 DEF CalmInv, Noticed
  <2>6. Clean(o.file, 0, poll.lines)
    BY <1>1, <1>2, <2>4 DEF OnceInv
  <2>7. PICK lines : lines = poll.lines
    OBVIOUS
  <2>8. Once(<<>>) /\ \A f, k : Clean(f, k, lines) => Clean(f, k, <<>>)
    BY <1>3, <2>7, FewerLines
  <2>9. PICK none : none = <<>>
    OBVIOUS
  <2>10. (Once(none)' <=> Once(none)) /\ \A f, k : Clean(f, k, none)' <=> Clean(f, k, none)
    BY <2>1, LinesKept
  <2>11. Once(<<>>)' /\ \A f \in Files, k \in Nat : Clean(f, k, poll.lines) => Clean(f, k, <<>>)'
    <3>1. Once(none)' /\ \A f, k : Clean(f, k, poll.lines) => Clean(f, k, none)'
      BY <2>7, <2>8, <2>9, <2>10
    <3> QED BY <2>9, <3>1 DEF Once, Clean, Known
  <2>12. delivered' \in [1..MaxLine -> Nat] /\ torn' \in BOOLEAN
    BY <1>1, <2>1 DEF TypeOK
  <2>13. x.file = active.file /\ x.offset = active.offset /\ x.idle = active.idle
    BY <1>2, <2>2
  <2> QED BY <1>1, <1>2, <2>1, <2>2, <2>3, <2>5, <2>6, <2>11, <2>12, <2>13, PollEnds
<1> QED BY <1>4, <1>5, <1>6, <1>2

(* ------------------------------- theorems ------------------------------ *)

\* The invariant holds before anything is written.
LEMMA TailInit ==
  Init => TailInv
<1> SUFFICES ASSUME Init PROVE TailInv
  OBVIOUS
<1>1. /\ text = [f \in Files |-> <<>>] /\ generation = [f \in Files |-> 0]
      /\ path = 1 /\ writer = 1 /\ line = 0
      /\ active \in {None, Opened(1, Start)} /\ retired = <<>> /\ poll = None
      /\ delivered = [n \in 1..MaxLine |-> 0] /\ torn = FALSE /\ disorder = {}
  BY DEF Init
<1>2. /\ 1 \in Files /\ 1 # None /\ 0 \in 0..MaxLine /\ 0 \in 0..MaxTruncations
      /\ \A f \in Files : text[f] = <<>> /\ DOMAIN text[f] = {} /\ Len(text[f]) = 0
  BY <1>1, TailerAssumption DEF Files
<1>3. PICK o : o = Opened(1, Start)
  OBVIOUS
<1>4. o = [file |-> 1, offset |-> 0, pending |-> <<>>, anchor |-> None,
           len |-> 0, gen |-> 0, idle |-> 0, discarding |-> FALSE]
  <2>1. (IF Start = "end" THEN Len(text[1]) ELSE 0) = 0
    BY <1>2
  <2>2. generation[1] = 0
    BY <1>1, <1>2
  <2> QED BY <1>2, <1>3, <2>1, <2>2 DEF Opened, AnchorAt
<1>5. o \in OpenFile
  <2>1. <<>> \in Pending /\ 0 \in 0..RetiredIdlePolls
    BY DEF Pending, RetiredIdlePolls
  <2> QED BY <1>2, <1>4, <2>1 DEF OpenFile
<1>6. active # None => active = o
  BY <1>1, <1>3
<1>7. DOMAIN retired = {}
  BY <1>1
<1>8. TypeOK
  <2>1. active \in OpenFile \cup {None}
    BY <1>5, <1>6
  <2>2. text \in [Files -> Seq(Piece)] /\ generation \in [Files -> 0..MaxTruncations]
    <3>1. <<>> \in Seq(Piece)
      OBVIOUS
    <3> QED BY <1>1, <1>2, <3>1
  <2>3. retired \in Seq(OpenFile)
    BY <1>1
  <2>4. delivered \in [1..MaxLine -> Nat]
    BY <1>1
  <2> QED BY <1>1, <1>2, <1>7, <2>1, <2>2, <2>3, <2>4 DEF TypeOK
<1>9. ~MidLine /\ Lines = <<>> /\ ~At("follow") /\ ~At("anchor") /\ ~At("stat")
  BY <1>1, <1>2 DEF MidLine, Lines, At
<1>10. TextInv
  <2>1. LogPlace
    BY <1>1, <1>2 DEF LogPlace
  <2>2. LinesUpTo /\ FilesApart /\ LinesInOrder /\ LinesWhole
    BY <1>2, <1>9 DEF LinesUpTo, FilesApart, LinesInOrder, LinesWhole
  <2> QED BY <2>1, <2>2 DEF TextInv
<1>11. FilesInv
  <2>1. active # None => active.idle = 0 /\ active.file <= path
    BY <1>1, <1>4, <1>6
  <2> QED BY <1>1, <1>2, <1>7, <1>9, <2>1 DEF FilesInv
<1>12. OnceInv
  <2>1. \A f \in Files : \A k : Clean(f, k, Lines)
    BY <1>2 DEF Clean
  <2>2. Once(Lines)
    <3>1. DOMAIN Lines = {}
      BY <1>9
    <3>2. \A n \in 1..MaxLine : delivered[n] = 0
      BY <1>1
    <3> QED BY <3>1, <3>2 DEF Once, Known
  <2>3. active # None => active.file \in Files
    BY <1>2, <1>4, <1>6
  <2> QED BY <1>1, <1>2, <1>7, <2>1, <2>2, <2>3 DEF OnceInv
<1>13. CalmInv
  <2>1. ASSUME active # None PROVE active.gen <= generation[active.file] /\ Noticed(active)
    <3>1. generation[1] = 0 /\ Len(text[1]) = 0
      BY <1>1, <1>2
    <3>2. o.gen <= generation[o.file]
      BY <1>4, <3>1
    <3>3. Parsed(o)
      BY <1>4, <3>1 DEF Parsed, InLine
    <3>4. Noticed(o)
      BY <1>4, <3>3 DEF Noticed, AnchorAt
    <3> QED BY <1>6, <2>1, <3>2, <3>4
  <2>2. SoundLines(Lines)
    BY <1>9 DEF SoundLines
  <2> QED BY <1>1, <1>7, <2>1, <2>2 DEF CalmInv
<1> QED BY <1>8, <1>10, <1>11, <1>12, <1>13 DEF TailInv

\* Every step keeps it, of the log and of the tailer.
LEMMA TailNext ==
  TailInv /\ [Next]_vars => TailInv'
<1> SUFFICES ASSUME TailInv, [Next]_vars PROVE TailInv'
  OBVIOUS
<1>1. CASE BeginLine \/ MoreOfLine \/ EndLine
  BY <1>1, WriterStep
<1>2. CASE Rotate
  BY <1>2, Rotates
<1>3. CASE CreateLog
  BY <1>3, CreatesLog
<1>4. CASE Reopen
  BY <1>4, Reopens
<1>5. CASE Truncate
  BY <1>5, Truncates
<1>6. CASE Stat
  BY <1>6, Stats
<1>7. CASE Follow
  BY <1>7, Follows
<1>8. CASE DrainRetired
  BY <1>8, DrainsAll
<1>9. CASE ReadActive
  BY <1>9, ReadsActive
<1>10. CASE NothingToRead
  BY <1>10, NothingRead
<1>11. CASE NoteMetadata
  BY <1>11, NotesMetadata
<1>12. CASE NoteAnchor
  BY <1>12, NotesAnchor
<1>13. CASE Sync
  BY <1>13, Syncs
<1>14. CASE UNCHANGED vars
  <2>1. UNCHANGED logVars /\ UNCHANGED <<active, retired, poll, delivered, torn, disorder>>
    BY <1>14 DEF vars, logVars
  <2>2. TypeOK' /\ FilesInv'
    BY <2>1 DEF TailInv, TypeOK, FilesInv, At, logVars
  <2>3. TextInv'
    BY <2>1, LogKept DEF TailInv
  <2>4. OnceInv'
    BY <2>1 DEF TailInv, OnceInv, Once, Clean, Known, Ended, MidLine, Lines, Followed, At, AnchorAt, logVars
  <2>5. CalmInv'
    BY <2>1 DEF TailInv, CalmInv, Calm, SoundLines, Lines, Parsed, Noticed, Stale, At, AnchorAt, logVars
  <2> QED BY <2>2, <2>3, <2>4, <2>5 DEF TailInv
<1> QED BY <1>1, <1>2, <1>3, <1>4, <1>5, <1>6, <1>7, <1>8, <1>9, <1>10, <1>11, <1>12, <1>13, <1>14
     DEF Next, Log, Poll

\* It implies the property.
LEMMA TailOnce ==
  TailInv => LinesReadOnce
BY DEF TailInv, OnceInv, CalmInv, Once, Calm, LinesReadOnce

\* The invariant holds in every reachable state, for any number of files, lines and
\* truncations, and any limits of a poll.
THEOREM TailInvariant == Spec => []TailInv
BY TailInit, TailNext, PTL DEF Spec

\* No line is returned twice, whatever the log does and at whatever moment of a poll; and
\* no
\* line is put together from two unless the log outran a poll (tailer.rs: poll_path,
\* observe_active, drain_retired, read_available).
THEOREM EveryLineOnce == Spec => []LinesReadOnce
BY TailInvariant, TailOnce, PTL

\* Every variable keeps its type, no retired file has been idle too long, and no file is
\* open twice.
THEOREM TailerTypes == Spec => []TypeOK
<1>1. TailInv => TypeOK
  BY DEF TailInv
<1> QED BY <1>1, TailInvariant, PTL

(* ------------------------ certificate operations ------------------------ *)

\* One process works, of the operation's and the administrator's, and has the lock file.
OneWorks ==
  /\ Operations!Works(group) => lock /\ \A o \in Outside : ~Operations!Works(outside[o])
  /\ \A o \in Outside : Operations!Works(outside[o]) => lock
  /\ \A o, other \in Outside : Operations!Works(outside[o])
      /\ Operations!Works(outside[other]) => o = other

\* Only a waiting operation has a process. Nothing is left of an earlier one once the
\* process table was seen empty, and then one process works at a time until Clean. The
\* loop is at a certificate while it holds the guard.
GuardInv ==
  /\ group # Idle => Operations!At("wait")
  /\ (\E step \in {"write", "wait", "clean", "remove"} : Operations!At(step)) => left = {}
  /\ Operations!At("write") \/ Operations!At("wait") => OneWorks
  /\ guard # Idle => (guard.who = "loop" => pass > 0)

OperationsInv == Operations!TypeOK /\ GuardInv

\* At the start there is no operation and no process.
LEMMA OperationsInit ==
  Operations!Init => OperationsInv
<1> SUFFICES ASSUME Operations!Init PROVE OperationsInv
  OBVIOUS
<1> USE CertificatesAssumption DEF Operations!OperationsAssumption, Operations!Init
<1>1. Operations!TypeOK
  <2>1. outside \in [Outside -> {Idle, "new", "works", "hook"}]
    OBVIOUS
  <2>2. pass \in 0..MaxDue /\ cuts \in 0..MaxCuts
    OBVIOUS
  <2> QED BY <2>1, <2>2 DEF Operations!TypeOK
<1>2. GuardInv
  BY DEF GuardInv, Operations!At
<1> QED BY <1>1, <1>2 DEF OperationsInv

\* A step of the processes alone keeps the invariant.
LEMMA ProcessesKeepInv ==
  ASSUME OperationsInv, Operations!GroupLives \/ Operations!LeftLives
      \/ Operations!OutsideLives \/ Operations!OutsideStarts
  PROVE  OperationsInv'
<1> USE CertificatesAssumption
     DEF Operations!OperationsAssumption, OperationsInv, Operations!TypeOK, GuardInv,
         Operations!At
<1>1. CASE Operations!GroupLives
  <2>1. PICK q \in {Idle, "works", "hook"}, l \in BOOLEAN :
          Operations!Lives(group, q, l) /\ group' = q /\ lock' = l
    BY <1>1 DEF Operations!GroupLives
  <2>2. Operations!At("wait") /\ OneWorks
    BY <2>1 DEF Operations!Lives
  <2>3. OneWorks'
    BY <1>1, <2>1, <2>2
       DEF Operations!GroupLives, Operations!Lives, OneWorks, Operations!Works
  <2> QED BY <1>1, <2>1, <2>2, <2>3 DEF Operations!GroupLives
<1>2. CASE Operations!LeftLives
  <2>1. PICK p \in left, q \in {Idle, "works", "hook"}, l \in BOOLEAN :
          /\ Operations!Lives(p, q, l)
          /\ left' = (left \ {p}) \cup ({q} \ {Idle})
          /\ lock' = l
    BY <1>2 DEF Operations!LeftLives
  <2>2. left # {}
    BY <2>1
  <2> QED BY <1>2, <2>1, <2>2 DEF Operations!LeftLives
<1>3. CASE Operations!OutsideLives
  <2>1. PICK o \in Outside, q \in {Idle, "works", "hook"}, l \in BOOLEAN :
          /\ Operations!Lives(outside[o], q, l)
          /\ outside' = [outside EXCEPT ![o] = q]
          /\ lock' = l
    BY <1>3 DEF Operations!OutsideLives
  <2>2. ASSUME OneWorks PROVE OneWorks'
    BY <1>3, <2>1, <2>2
       DEF Operations!OutsideLives, Operations!Lives, OneWorks, Operations!Works
  <2> QED BY <1>3, <2>1, <2>2 DEF Operations!OutsideLives
<1>4. CASE Operations!OutsideStarts
  <2>1. PICK o \in Outside :
          outside[o] = Idle /\ outside' = [outside EXCEPT ![o] = "new"]
    BY <1>4 DEF Operations!OutsideStarts
  <2>2. ASSUME OneWorks PROVE OneWorks'
    BY <1>4, <2>1, <2>2 DEF Operations!OutsideStarts, OneWorks, Operations!Works
  <2> QED BY <1>4, <2>1, <2>2 DEF Operations!OutsideStarts
<1> QED BY <1>1, <1>2, <1>3, <1>4

\* A step of the operation that holds the guard keeps the invariant.
LEMMA OperationKeepsInv ==
  ASSUME OperationsInv, Operations!OperationStep
  PROVE  OperationsInv'
<1> USE CertificatesAssumption
        DEF Operations!OperationsAssumption, OperationsInv, Operations!TypeOK, GuardInv,
            Operations!At, Operations!Go, Operations!Release, Operations!Ends,
                Operations!processVars
<1>1. CASE Operations!Refuse
  BY <1>1 DEF Operations!Refuse
<1>2. CASE Operations!Accept
  <2>1. /\ group = Idle /\ left = {}
        /\ \A o \in Outside : outside[o] = Idle
    BY <1>2 DEF Operations!Accept, Operations!Busy, Operations!ProcessRunning
  <2>2. OneWorks'
    BY <1>2, <2>1 DEF Operations!Accept, OneWorks, Operations!Works
  <2> QED BY <1>2, <2>1, <2>2 DEF Operations!Accept
<1>3. CASE Operations!Spawn
  <2>1. OneWorks'
    BY <1>3 DEF Operations!Spawn, OneWorks, Operations!Works
  <2> QED BY <1>3, <2>1 DEF Operations!Spawn
<1>4. CASE Operations!SpawnFails
  BY <1>4 DEF Operations!SpawnFails
<1>5. CASE Operations!Exited
  BY <1>5 DEF Operations!Exited
<1>6. CASE Operations!Timeout
  BY <1>6 DEF Operations!Timeout
<1>7. CASE Operations!Clean
  <2>1. pass' \in 0..MaxDue
    BY <1>7 DEF Operations!Clean
  <2> QED BY <1>7, <2>1 DEF Operations!Clean
<1>8. CASE Operations!CheckClear
  BY <1>8 DEF Operations!CheckClear, Operations!Busy, Operations!ProcessRunning
<1>9. CASE Operations!Remove
  BY <1>9 DEF Operations!Remove
<1> QED BY <1>1, <1>2, <1>3, <1>4, <1>5, <1>6, <1>7, <1>8, <1>9 DEF Operations!OperationStep

\* So does every step.
LEMMA OperationsNext ==
  OperationsInv /\ [Operations!Next]_(Operations!vars) => OperationsInv'
<1> SUFFICES ASSUME OperationsInv, [Operations!Next]_(Operations!vars) PROVE OperationsInv'
  OBVIOUS
<1> USE CertificatesAssumption
     DEF Operations!OperationsAssumption, OperationsInv, Operations!TypeOK, GuardInv,
         Operations!At, Operations!processVars
<1>1. CASE Operations!GroupLives \/ Operations!LeftLives \/ Operations!OutsideLives
    \/ Operations!OutsideStarts
  BY <1>1, ProcessesKeepInv
<1>2. CASE Operations!OperationStep
  BY <1>2, OperationKeepsInv
<1>3. CASE Operations!Ask
  <2>1. PICK step \in {"check", "clear"} : guard' = [step |-> step, who |-> "request"]
    BY <1>3 DEF Operations!Ask, Operations!TakeGuard
  <2> QED BY <1>3, <2>1 DEF Operations!Ask, Operations!TakeGuard
<1>4. CASE Operations!StartPass
  <2>1. OneWorks' <=> OneWorks
    BY <1>4 DEF Operations!StartPass, OneWorks
  <2> QED BY <1>4, <2>1 DEF Operations!StartPass
<1>5. CASE Operations!RenewNext
  <2>1. CASE guard = Idle
    BY <1>5, <2>1 DEF Operations!RenewNext, Operations!TakeGuard
  <2>2. CASE guard # Idle
    <3>1. pass' = pass - 1 /\ guard' = guard /\ guard.who = "request"
      BY <1>5, <2>2 DEF Operations!RenewNext
    <3>2. OneWorks' <=> OneWorks
      BY <1>5 DEF Operations!RenewNext, OneWorks
    <3> QED BY <1>5, <2>2, <3>1, <3>2 DEF Operations!RenewNext
  <2> QED BY <2>1, <2>2
<1>6. CASE Operations!HangUp
  <2>1. cuts' \in 0..MaxCuts
    BY <1>6 DEF Operations!HangUp
  <2>2. lock' = lock \/ lock' = FALSE
    BY <1>6 DEF Operations!HangUp
  <2>3. lock' \in BOOLEAN
    BY <2>2
  <2>4. left' \subseteq {"new", "works", "hook", "stray"}
    BY <1>6 DEF Operations!HangUp, Operations!Killed
  <2> QED BY <1>6, <2>1, <2>3, <2>4 DEF Operations!HangUp, Operations!Release
<1>7. CASE Operations!Restart
  <2>1. cuts' \in 0..MaxCuts /\ pass' \in 0..MaxDue
    BY <1>7 DEF Operations!Restart
  <2>2. left' \subseteq {"new", "works", "hook", "stray"}
    BY <1>7 DEF Operations!Restart, Operations!Killed
  <2>3. ~(\E step \in {"write", "wait", "clean", "remove"} : Operations!At(step)')
    BY <1>7 DEF Operations!Restart
  <2> QED BY <1>7, <2>1, <2>2, <2>3 DEF Operations!Restart
<1>8. CASE UNCHANGED Operations!vars
  BY <1>8 DEF Operations!vars, OneWorks
<1> QED BY <1>1, <1>2, <1>3, <1>4, <1>5, <1>6, <1>7, <1>8 DEF Operations!Next

\* The invariant holds in every reachable state.
THEOREM OperationsInvariant == Operations!Spec => []OperationsInv
BY OperationsInit, OperationsNext, PTL DEF Operations!Spec

\* Every variable keeps its type; the renewal loop counts no certificate twice, and
\* never below none.
THEOREM OperationsTypeCorrect == Operations!Spec => []Operations!TypeOK
<1>1. OperationsInv => Operations!TypeOK
  BY DEF OperationsInv
<1> QED BY <1>1, OperationsInvariant, PTL

\* When the dehydrated that Router Hub waits for works on the certificates, no other
\* process does (issue_certificate, clear_dehydrated_lock, run_process_group).
THEOREM OperationWorksAlone == Operations!Spec => []WorksAlone
<1>1. OperationsInv => WorksAlone
  BY CertificatesAssumption
     DEF Operations!OperationsAssumption, OperationsInv, GuardInv, WorksAlone,
         Operations!WorksAlone, Operations!At, OneWorks, Operations!Works
<1> QED BY <1>1, OperationsInvariant, PTL

\* Router Hub takes the lock file from no process that it started: where it removes the
\* file, at the end of an operation or to clear the lock, none is there
\* (issue_certificate's cleanup, clear_dehydrated_lock).
THEOREM LockIsNotStolen == Operations!Spec => LockNotStolen
<1> DEFINE NoTheft == lock /\ ~lock' /\ guard # guard' =>
                        \A p \in left \cup {group} : ~Operations!Works(p)
<1>1. ASSUME OperationsInv, Operations!Next PROVE NoTheft
  <2> SUFFICES ASSUME lock, ~lock', guard # guard' PROVE left = {} /\ group = Idle
    BY CertificatesAssumption DEF Operations!OperationsAssumption, Operations!Works
  <2> USE DEF OperationsInv, GuardInv, Operations!At
  <2>1. CASE Operations!Clean \/ Operations!Remove
    BY <1>1, <2>1 DEF Operations!Clean, Operations!Remove
  <2>2. CASE Operations!HangUp
    BY <1>1, <2>2 DEF Operations!HangUp
  <2>3. CASE ~(Operations!Clean \/ Operations!Remove \/ Operations!HangUp)
    BY <1>1, <2>3
       DEF Operations!Next, Operations!OperationStep, Operations!GroupLives,
           Operations!LeftLives, Operations!OutsideLives,
       Operations!OutsideStarts, Operations!Ask, Operations!StartPass,
           Operations!RenewNext, Operations!Refuse, Operations!Accept, Operations!Spawn,
               Operations!SpawnFails,
       Operations!Exited, Operations!Timeout, Operations!CheckClear, Operations!Restart,
           Operations!processVars
  <2> QED BY <2>1, <2>2, <2>3
<1>2. OperationsInv /\ [Operations!Next]_(Operations!vars) => [NoTheft]_(Operations!vars)
  BY <1>1
<1> QED BY <1>2, OperationsInvariant, PTL
     DEF Operations!Spec, LockNotStolen, Operations!LockNotStolen

(* ------------------------ the two parts of the run ---------------------- *)

\* Both parts, at a step of either.
BothInv == TailInv /\ OperationsInv

\* Each part keeps its invariant, and what the other does is not its concern.
LEMMA BothNextInv ==
  BothInv /\ [BothNext]_<<part, vars, operationVars>> => BothInv'
<1> SUFFICES ASSUME BothInv, [BothNext]_<<part, vars, operationVars>> PROVE BothInv'
  OBVIOUS
<1>1. ([Next]_vars) /\ ([Operations!Next]_(Operations!vars))
  BY DEF BothNext, operationVars, Operations!vars
<1>2. TailInv'
  BY <1>1, TailNext DEF BothInv
<1>3. OperationsInv'
  BY <1>1, OperationsNext DEF BothInv
<1> QED BY <1>2, <1>3 DEF BothInv

\* So both hold in every reachable state of the run.
LEMMA BothInvariant ==
  BothSpec => []BothInv
<1>1. BothInit => BothInv
  BY TailInit, OperationsInit DEF BothInit, BothInv
<1> QED BY <1>1, BothNextInv, PTL DEF BothSpec

\* The types of both, for any number of files, lines, processes and certificates.
THEOREM BackgroundTypesCorrect == BothSpec => []BothTypeOK
<1>1. BothInv => BothTypeOK
  BY DEF BothInv, TailInv, OperationsInv, BothTypeOK
<1> QED BY <1>1, BothInvariant, PTL

=============================================================================

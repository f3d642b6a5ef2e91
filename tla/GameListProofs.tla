--------------------------- MODULE GameListProofs ---------------------------
(***************************************************************************)
(* Theorems about GameList for every disk, every order of readdir and any  *)
(* number of searches: the types, the iterator of stripList, no game       *)
(* twice, and what the searches find.                                      *)
(***************************************************************************)
EXTENDS GameList, FiniteSetTheorems, SequenceTheorems, WellFoundedInduction, TLAPS

-----------------------------------------------------------------------------
(* Sequences.                                                              *)

LEMMA RangeIs ==
  ASSUME NEW S, NEW s \in Seq(S)
  PROVE  /\ DOMAIN s = 1 .. Len(s) /\ Len(s) \in Nat
         /\ \A k \in 1 .. Len(s) : s[k] \in S /\ s[k] \in Range(s)
         /\ \A x \in Range(s) : x \in S /\ \E k \in 1 .. Len(s) : s[k] = x
<1>1. DOMAIN s = 1 .. Len(s) /\ Len(s) \in Nat
  BY LenProperties
<1>2. \A k \in 1 .. Len(s) : s[k] \in S
  BY ElementOfSeq
<1>3. Range(s) = {s[k] : k \in 1 .. Len(s)}
  BY <1>1 DEF Range
<1> QED
  BY <1>1, <1>2, <1>3

LEMMA EmptyRange == Range(<<>>) = {} /\ DOMAIN <<>> = {} /\ Len(<<>>) = 0
  BY DEF Range

LEMMA Appended ==
  ASSUME NEW S, NEW s \in Seq(S), NEW x \in S
  PROVE  /\ Append(s, x) \in Seq(S) /\ Len(Append(s, x)) = Len(s) + 1
         /\ DOMAIN Append(s, x) = 1 .. Len(s) + 1
         /\ \A k \in 1 .. Len(s) : Append(s, x)[k] = s[k]
         /\ Append(s, x)[Len(s) + 1] = x
         /\ Range(Append(s, x)) = Range(s) \cup {x}
         /\ IsInjective(s) /\ x \notin Range(s) => IsInjective(Append(s, x))
<1> DEFINE t == Append(s, x)
<1>1. /\ t \in Seq(S) /\ Len(t) = Len(s) + 1 /\ Len(s) \in Nat
      /\ \A k \in 1 .. Len(s) : t[k] = s[k]
      /\ t[Len(s) + 1] = x
  BY AppendProperties, LenProperties
<1> HIDE DEF t
<1>2. /\ DOMAIN t = 1 .. Len(s) + 1 /\ DOMAIN s = 1 .. Len(s)
      /\ \A y \in Range(t) : \E k \in 1 .. Len(s) + 1 : t[k] = y
      /\ \A k \in 1 .. Len(s) + 1 : t[k] \in Range(t)
      /\ \A y \in Range(s) : \E k \in 1 .. Len(s) : s[k] = y
      /\ \A k \in 1 .. Len(s) : s[k] \in Range(s)
  BY <1>1, RangeIs
<1>3. ASSUME NEW y \in Range(t)
      PROVE  y \in Range(s) \cup {x}
  <2>1. PICK k \in 1 .. Len(s) + 1 : t[k] = y
    BY <1>2
  <2>2. k \in 1 .. Len(s) \/ k = Len(s) + 1
    BY <1>1
  <2> QED
    BY <1>1, <1>2, <2>1, <2>2
<1>4. ASSUME NEW y \in Range(s) \cup {x}
      PROVE  y \in Range(t)
  <2>1. CASE y \in Range(s)
    <3>1. PICK k \in 1 .. Len(s) : s[k] = y
      BY <1>2, <2>1
    <3>2. k \in 1 .. Len(s) + 1 /\ t[k] = y
      BY <1>1, <3>1
    <3> QED
      BY <1>2, <3>2
  <2>2. CASE y = x
    <3>1. Len(s) + 1 \in 1 .. Len(s) + 1
      BY <1>1
    <3> QED
      BY <1>1, <1>2, <2>2, <3>1
  <2> QED
    BY <2>1, <2>2
<1>5. ASSUME IsInjective(s), x \notin Range(s), NEW k \in DOMAIN t, NEW l \in DOMAIN t,
             t[k] = t[l]
      PROVE  k = l
  <2>1. (k \in 1 .. Len(s) \/ k = Len(s) + 1) /\ (l \in 1 .. Len(s) \/ l = Len(s) + 1)
    BY <1>1, <1>2
  <2>2. CASE k \in 1 .. Len(s) /\ l \in 1 .. Len(s)
    BY <1>1, <1>2, <1>5, <2>2 DEF IsInjective
  <2>3. CASE k = Len(s) + 1 \/ l = Len(s) + 1
    BY <1>1, <1>2, <1>5, <2>1, <2>3
  <2> QED
    BY <2>1, <2>2, <2>3
<1>6. IsInjective(s) /\ x \notin Range(s) => IsInjective(t)
  BY <1>5 DEF IsInjective
<1> QED
  BY <1>1, <1>2, <1>3, <1>4, <1>6 DEF t

LEMMA Concatenated ==
  ASSUME NEW S, NEW s \in Seq(S), NEW t \in Seq(S)
  PROVE  s \o t \in Seq(S) /\ Range(s \o t) = Range(s) \cup Range(t)
<1> DEFINE u == s \o t
<1>1. /\ u \in Seq(S) /\ Len(u) = Len(s) + Len(t) /\ Len(s) \in Nat /\ Len(t) \in Nat
      /\ \A k \in 1 .. Len(s) + Len(t) : u[k] = IF k <= Len(s) THEN s[k] ELSE t[k - Len(s)]
  BY ConcatProperties, LenProperties
<1> HIDE DEF u
<1>2. /\ \A y \in Range(u) : \E k \in 1 .. Len(u) : u[k] = y
      /\ \A k \in 1 .. Len(u) : u[k] \in Range(u)
  BY <1>1, RangeIs
<1>3. /\ \A y \in Range(s) : \E k \in 1 .. Len(s) : s[k] = y
      /\ \A k \in 1 .. Len(s) : s[k] \in Range(s)
      /\ \A y \in Range(t) : \E k \in 1 .. Len(t) : t[k] = y
      /\ \A k \in 1 .. Len(t) : t[k] \in Range(t)
  BY RangeIs
<1>4. ASSUME NEW y \in Range(u)
      PROVE  y \in Range(s) \cup Range(t)
  <2>1. PICK k \in 1 .. Len(u) : u[k] = y
    BY <1>2
  <2>2. CASE k <= Len(s)
    <3>1. k \in 1 .. Len(s) /\ u[k] = s[k]
      BY <1>1, <2>2
    <3> QED
      BY <1>3, <2>1, <3>1
  <2>3. CASE ~(k <= Len(s))
    <3>1. k - Len(s) \in 1 .. Len(t) /\ u[k] = t[k - Len(s)]
      BY <1>1, <2>3
    <3> QED
      BY <1>3, <2>1, <3>1
  <2> QED
    BY <2>2, <2>3
<1>5. ASSUME NEW y \in Range(s)
      PROVE  y \in Range(u)
  <2>1. PICK k \in 1 .. Len(s) : s[k] = y
    BY <1>3
  <2>2. k \in 1 .. Len(u) /\ u[k] = y
    BY <1>1, <2>1
  <2> QED
    BY <1>2, <2>2
<1>6. ASSUME NEW y \in Range(t)
      PROVE  y \in Range(u)
  <2>1. PICK k \in 1 .. Len(t) : t[k] = y
    BY <1>3
  <2>2. /\ k + Len(s) \in 1 .. Len(u) /\ ~(k + Len(s) <= Len(s))
        /\ (k + Len(s)) - Len(s) = k
    BY <1>1
  <2>3. u[k + Len(s)] = y
    BY <1>1, <2>1, <2>2
  <2> QED
    BY <1>2, <2>2, <2>3
<1> QED
  BY <1>1, <1>4, <1>5, <1>6 DEF u

\* What is left when one element is erased, and from where.
LEMMA Erased ==
  ASSUME NEW S, NEW s \in Seq(S), NEW e \in 1 .. Len(s)
  PROVE  /\ RemoveAt(s, e) \in Seq(S) /\ Len(RemoveAt(s, e)) = Len(s) - 1
         /\ \A k \in 1 .. Len(s) - 1 :
              RemoveAt(s, e)[k] = IF k < e THEN s[k] ELSE s[k + 1]
<1> DEFINE a == SubSeq(s, 1, e - 1)
           b == SubSeq(s, e + 1, Len(s))
           t == RemoveAt(s, e)
<1>1. Len(s) \in Nat /\ e \in Int /\ 1 <= e /\ e <= Len(s)
  BY LenProperties
<1>2. /\ a \in Seq(S) /\ Len(a) = e - 1
      /\ \A k \in 1 .. e - 1 : a[k] = s[k]
  <2>1. \A k \in 1 .. e - 1 : s[k] \in S
    BY <1>1, ElementOfSeq
  <2>2. /\ a \in Seq(S)
        /\ Len(a) = IF 1 <= e - 1 THEN e - 1 - 1 + 1 ELSE 0
        /\ \A k \in 1 .. e - 1 - 1 + 1 : a[k] = s[1 + k - 1]
    BY <1>1, <2>1, SubSeqProperties
  <2> HIDE DEF a
  <2> QED
    BY <1>1, <2>2
<1>3. /\ b \in Seq(S) /\ Len(b) = Len(s) - e
      /\ \A k \in 1 .. Len(s) - e : b[k] = s[e + k]
  <2>1. \A k \in e + 1 .. Len(s) : s[k] \in S
    BY <1>1, ElementOfSeq
  <2>2. /\ b \in Seq(S)
        /\ Len(b) = IF e + 1 <= Len(s) THEN Len(s) - (e + 1) + 1 ELSE 0
        /\ \A k \in 1 .. Len(s) - (e + 1) + 1 : b[k] = s[e + 1 + k - 1]
    BY <1>1, <2>1, SubSeqProperties
  <2> HIDE DEF b
  <2>3. Len(b) = Len(s) - e
    BY <1>1, <2>2
  <2>4. ASSUME NEW k \in 1 .. Len(s) - e
        PROVE  b[k] = s[e + k]
    <3>1. k \in 1 .. Len(s) - (e + 1) + 1 /\ e + 1 + k - 1 = e + k
      BY <1>1
    <3> QED
      BY <2>2, <3>1
  <2> QED
    BY <2>2, <2>3, <2>4
<1>4. t = a \o b
  BY DEF RemoveAt
<1> HIDE DEF a, b, t
<1>5. /\ t \in Seq(S) /\ Len(t) = Len(s) - 1
      /\ \A k \in 1 .. Len(s) - 1 :
           t[k] = IF k <= Len(a) THEN a[k] ELSE b[k - Len(a)]
  <2>1. /\ t \in Seq(S) /\ Len(t) = Len(a) + Len(b)
        /\ \A k \in 1 .. Len(a) + Len(b) :
             t[k] = IF k <= Len(a) THEN a[k] ELSE b[k - Len(a)]
    BY <1>2, <1>3, <1>4, ConcatProperties
  <2>2. Len(a) + Len(b) = Len(s) - 1
    BY <1>1, <1>2, <1>3
  <2> QED
    BY <2>1, <2>2
<1>6. ASSUME NEW k \in 1 .. Len(s) - 1
      PROVE  t[k] = IF k < e THEN s[k] ELSE s[k + 1]
  <2>1. CASE k < e
    <3>1. k <= Len(a) /\ k \in 1 .. e - 1
      BY <1>1, <1>2, <2>1
    <3>2. t[k] = a[k] /\ a[k] = s[k]
      BY <1>2, <1>5, <3>1
    <3> QED
      BY <2>1, <3>2
  <2>2. CASE ~(k < e)
    <3>1. ~(k <= Len(a)) /\ k - Len(a) \in 1 .. Len(s) - e /\ e + (k - Len(a)) = k + 1
      BY <1>1, <1>2, <2>2
    <3>2. t[k] = b[k - Len(a)] /\ b[k - Len(a)] = s[e + (k - Len(a))]
      BY <1>3, <1>5, <3>1
    <3> QED
      BY <2>2, <3>1, <3>2
  <2> QED
    BY <2>1, <2>2
<1> QED
  BY <1>5, <1>6 DEF t

\* A non-empty set of natural numbers has a smallest element.
LEMMA SmallestExists ==
  ASSUME NEW T, T \subseteq Nat, T # {}
  PROVE  \E m \in T : \A n \in T : m <= n
<1> DEFINE Below == {0 .. n : n \in T}
<1>1. Below \subseteq FiniteSubsetsOf(Nat) /\ Below # {}
  <2>1. ASSUME NEW n \in T
        PROVE  0 .. n \in FiniteSubsetsOf(Nat)
    <3>1. IsFiniteSet(0 .. n)
      BY FS_Interval
    <3>2. 0 .. n \in SUBSET Nat
      OBVIOUS
    <3> QED
      BY <3>1, <3>2, Zenon DEF FiniteSubsetsOf
  <2> QED
    BY <2>1, Zenon
<1>2. PICK B \in Below : \A C \in Below : <<C, B>> \notin StrictSubsetOrdering(Nat)
  <2>1. IsWellFoundedOn(StrictSubsetOrdering(Nat), FiniteSubsetsOf(Nat))
    BY FS_StrictSubsetOrderingWellFounded
  <2> HIDE DEF Below
  <2> QED
    BY <1>1, <2>1, WFMin, Zenon
<1>3. PICK m \in T : B = 0 .. m
  OBVIOUS
<1>4. ASSUME NEW n \in T, n < m
      PROVE  FALSE
  <2>1. 0 .. n \in Below /\ 0 .. n \subseteq 0 .. m /\ m \in 0 .. m /\ m \notin 0 .. n
    BY <1>4
  <2>2. 0 .. n \in SUBSET Nat /\ 0 .. m \in SUBSET Nat
    OBVIOUS
  <2> QED
    BY <1>2, <1>3, <2>1, <2>2, Zenon DEF StrictSubsetOrdering
<1> QED
  BY <1>4

-----------------------------------------------------------------------------
(* The disk.                                                               *)

DiskOK ==
  /\ Files \subseteq Universe
  /\ \A f \in Files : disk[f] \in Contents \cup {<<>>}

LEMMA NamesOnDisk ==
  ASSUME DiskOK, NEW f \in Files
  PROVE  Name(f) \in Names /\ disk[f] \in Seq(Names)
<1>1. Name(f) \in Names
  BY DEF DiskOK, Names
<1>2. CASE disk[f] \in Contents
  <2>1. disk[f] \in Seq(STRING \X STRING)
    BY <1>2, ContentsAssumption
  <2>2. /\ DOMAIN disk[f] = 1 .. Len(disk[f]) /\ Len(disk[f]) \in Nat
        /\ disk[f] \in [1 .. Len(disk[f]) -> STRING \X STRING]
    BY <2>1, LenProperties
  <2>3. \A k \in 1 .. Len(disk[f]) : disk[f][k] \in Names
    <3>1. ASSUME NEW k \in 1 .. Len(disk[f])
          PROVE  disk[f][k] \in Range(disk[f])
      BY <2>2 DEF Range
    <3> QED
      BY <1>2, <3>1 DEF Names
  <2>4. disk[f] \in [1 .. Len(disk[f]) -> Names]
    BY <2>2, <2>3
  <2> QED
    BY <1>1, <2>2, <2>4, SeqDef
<1>3. CASE disk[f] = <<>>
  BY <1>1, <1>3, EmptySeq
<1> QED
  BY <1>2, <1>3 DEF DiskOK

\* The good lines are a start of the lines.
LEMMA GoodLinesAre ==
  ASSUME DiskOK, NEW cue \in Files
  PROVE  GoodLines(cue) \in Seq(Names)
<1> DEFINE refs == disk[cue]
           Good(n) == \A k \in 1 .. n : Exists(cue.dir, refs[k])
           T == {n \in 0 .. Len(refs) : n = Len(refs) \/ ~Good(n + 1)}
           N == CHOOSE n \in 0 .. Len(refs) : Good(n) /\ (n = Len(refs) \/ ~Good(n + 1))
<1>1. refs \in Seq(Names) /\ Len(refs) \in Nat /\ \A k \in 1 .. Len(refs) : refs[k] \in Names
  BY NamesOnDisk, LenProperties, ElementOfSeq
<1>2. PICK n \in T : \A m \in T : n <= m
  <2>1. Len(refs) \in T /\ T \subseteq Nat
    BY <1>1
  <2> HIDE DEF T
  <2> QED
    BY <2>1, SmallestExists
<1>3. Good(n)
  <2>1. CASE n = 0
    BY <2>1
  <2>2. CASE n # 0
    <3>1. n \in 0 .. Len(refs) /\ n \in Nat
      BY <1>1
    <3>2. n - 1 \in 0 .. Len(refs) /\ ~(n <= n - 1) /\ n - 1 + 1 = n
      BY <1>1, <2>2, <3>1
    <3>3. n - 1 \notin T
      BY <1>2, <3>2, Zenon
    <3> HIDE DEF Good
    <3> QED
      BY <3>2, <3>3
  <2> QED
    BY <2>1, <2>2
<1>4. N \in 0 .. Len(refs)
  BY <1>2, <1>3
<1>5. GoodLines(cue) = SubSeq(refs, 1, N)
  BY DEF GoodLines
<1> HIDE DEF N
<1> QED
  BY <1>1, <1>4, <1>5, SubSeqProperties

-----------------------------------------------------------------------------
(* The inductive invariant, first part: types, iterator, no game twice.    *)

Entry   == Files \cup Subdirs
Dirs    == [dir : Subdirs \cup {Root}, left : SUBSET Entry]

IteratorOK == phase = "strip" => at <= j + 1

ListInv == DiskOK /\ TypeOK /\ IteratorOK /\ NoGameTwice

\* Two searches and a reset read the same disk.
LEMMA SameDisk ==
  ASSUME DiskOK, disk' = disk
  PROVE  DiskOK' /\ Files' = Files
  BY DEF DiskOK, Files

LEMMA OpenedOK ==
  ASSUME NEW dir \in Subdirs \cup {Root}, NEW all \in BOOLEAN
  PROVE  Directory(dir, all) \in Dirs
  BY DEF Directory, Dirs, Entry, FilesIn

LEMMA LastOpen ==
  ASSUME TypeOK, Reading
  PROVE  /\ Last(open) = open[Len(open)] /\ Len(open) \in 1 .. Len(open) /\ Len(open) \in Nat
         /\ open \in Seq(Dirs) /\ DOMAIN open = 1 .. Len(open)
         /\ \A k \in 1 .. Len(open) : open[k] \in Dirs
<1>1. open \in Seq(Dirs) /\ open # <<>>
  BY DEF TypeOK, Reading, Dirs, Entry
<1>2. Len(open) \in Nat \ {0}
  BY <1>1, EmptySeq
<1> QED
  BY <1>1, <1>2, LenProperties, ElementOfSeq DEF Last

\* Reading an entry leaves the directories as they are and one entry less.
LEMMA ReadOK ==
  ASSUME TypeOK, Reading, NEW entry
  PROVE  /\ Read(entry) \in Seq(Dirs) /\ Len(Read(entry)) = Len(open)
         /\ DOMAIN Read(entry) = 1 .. Len(open)
         /\ \A k \in 1 .. Len(open) :
              /\ Read(entry)[k].dir = open[k].dir
              /\ Read(entry)[k].left = IF k = Len(open) THEN open[k].left \ {entry}
                                       ELSE open[k].left
<1> DEFINE e == [open[Len(open)] EXCEPT !.left = @ \ {entry}]
<1>1. /\ Len(open) \in 1 .. Len(open) /\ Len(open) \in Nat
      /\ open \in Seq(Dirs) /\ DOMAIN open = 1 .. Len(open)
      /\ \A k \in 1 .. Len(open) : open[k] \in Dirs
  BY LastOpen
<1>2. e \in Dirs /\ e.dir = open[Len(open)].dir /\ e.left = open[Len(open)].left \ {entry}
  BY <1>1 DEF Dirs
<1>3. Read(entry) = [open EXCEPT ![Len(open)] = e]
  BY DEF Read
<1> HIDE DEF e
<1>4. /\ Read(entry) \in Seq(Dirs) /\ Len(Read(entry)) = Len(open)
      /\ \A k \in 1 .. Len(open) : Read(entry)[k] = IF k = Len(open) THEN e ELSE open[k]
  BY <1>1, <1>2, <1>3, ExceptSeq
<1> QED
  BY <1>1, <1>2, <1>4, LenProperties

LEMMA FrontOpen ==
  ASSUME TypeOK, Reading
  PROVE  /\ Front(open) \in Seq(Dirs) /\ DOMAIN Front(open) = 1 .. Len(open) - 1
         /\ \A k \in 1 .. Len(open) - 1 : Front(open)[k] = open[k]
<1>1. /\ Len(open) \in 1 .. Len(open) /\ Len(open) \in Nat
      /\ \A k \in 1 .. Len(open) : open[k] \in Dirs
  BY LastOpen
<1>2. Front(open) = SubSeq(open, 1, Len(open) - 1)
  BY DEF Front
<1>3. \A k \in 1 .. Len(open) - 1 : open[k] \in Dirs
  BY <1>1
<1>4. /\ Front(open) \in Seq(Dirs)
      /\ Len(Front(open)) = IF 1 <= Len(open) - 1 THEN Len(open) - 1 - 1 + 1 ELSE 0
      /\ \A k \in 1 .. Len(open) - 1 - 1 + 1 : Front(open)[k] = open[1 + k - 1]
  BY <1>1, <1>2, <1>3, SubSeqProperties
<1>5. Len(Front(open)) = Len(open) - 1
  <2>1. CASE 1 <= Len(open) - 1
    <3>1. Len(open) - 1 - 1 + 1 = Len(open) - 1
      BY <1>1
    <3> QED
      BY <1>4, <2>1, <3>1
  <2>2. CASE ~(1 <= Len(open) - 1)
    <3>1. Len(open) - 1 = 0
      BY <1>1, <2>2
    <3> QED
      BY <1>4, <2>2, <3>1
  <2> QED
    BY <2>1, <2>2
<1>6. \A k \in 1 .. Len(open) - 1 : Front(open)[k] = open[k]
  <2>1. ASSUME NEW k \in 1 .. Len(open) - 1
        PROVE  k \in 1 .. Len(open) - 1 - 1 + 1 /\ 1 + k - 1 = k
    BY <1>1
  <2> QED
    BY <1>4, <2>1
<1> QED
  BY <1>4, <1>5, <1>6, LenProperties

-----------------------------------------------------------------------------
(* One step per action.                                                    *)

LEMMA InitList == Init => ListInv
<1> SUFFICES ASSUME Init PROVE ListInv
  OBVIOUS
<1>1. DiskOK
  BY DEF Init, DiskOK, Files
<1>2. /\ phase = "idle" /\ open = <<>> /\ stopSearching = FALSE /\ recursive = TRUE
      /\ tmpList = <<>> /\ toBeRemoved = <<>> /\ i = 1 /\ j = 0 /\ at = 1
      /\ gGame = <<>> /\ gGamesFound = FALSE /\ searched = {}
  BY DEF Init
<1>3. TypeOK
  <2>1. \A S : <<>> \in Seq(S)
    BY EmptySeq
  <2>2. open \in Seq(Dirs) /\ tmpList \in Seq(Files) /\ toBeRemoved \in Seq(Names)
        /\ gGame \in Seq(Files)
    BY <1>2, <2>1
  <2>3. i \in Nat \ {0} /\ j \in Nat /\ at \in Nat \ {0}
    BY <1>2
  <2>4. /\ phase \in {"idle", "find", "strip", "finalize"} /\ stopSearching \in BOOLEAN
        /\ recursive \in BOOLEAN /\ gGamesFound \in BOOLEAN
        /\ searched \subseteq Subdirs \cup {Root}
    BY <1>2
  <2> QED
    BY <1>1, <2>2, <2>3, <2>4, Zenon DEF TypeOK, DiskOK, Dirs, Entry
<1>4. IteratorOK /\ NoGameTwice
  BY <1>2 DEF IteratorOK, NoGameTwice, IsInjective
<1> QED
  BY <1>1, <1>3, <1>4 DEF ListInv

LEMMA SearchList ==
  ASSUME ListInv, NEW dir \in Subdirs \cup {Root}, NEW all \in BOOLEAN, Search(dir, all)
  PROVE  ListInv'
<1>1. /\ UNCHANGED <<disk, i, j, at, gGame, gGamesFound, searched>>
      /\ stopSearching' \in BOOLEAN /\ recursive' \in BOOLEAN
      /\ tmpList' = <<>> /\ toBeRemoved' = <<>> /\ open' = <<Directory(dir, all)>>
      /\ phase' = "find"
  BY DEF Search, loops, result
<1>2. DiskOK' /\ Files' = Files
  BY <1>1, SameDisk DEF ListInv
<1>3. open' \in Seq(Dirs)
  BY <1>1, OpenedOK
<1>4. TypeOK'
  BY <1>1, <1>2, <1>3, EmptySeq DEF ListInv, TypeOK, Dirs, Entry
<1>5. IteratorOK' /\ NoGameTwice'
  BY <1>1 DEF ListInv, IteratorOK, NoGameTwice
<1> QED
  BY <1>2, <1>4, <1>5 DEF ListInv

LEMMA ResetList == ASSUME ListInv, resetSearch PROVE ListInv'
<1>1. /\ UNCHANGED <<disk, phase, open, recursive, tmpList, toBeRemoved, i, j, at>>
      /\ gGame' = <<>> /\ gGamesFound' = FALSE /\ searched' = {} /\ stopSearching' = FALSE
  BY DEF resetSearch, lists, loops
<1>2. DiskOK' /\ Files' = Files
  BY <1>1, SameDisk DEF ListInv
<1>3. TypeOK'
  BY <1>1, <1>2, EmptySeq DEF ListInv, TypeOK
<1>4. IteratorOK' /\ NoGameTwice'
  BY <1>1 DEF ListInv, IteratorOK, NoGameTwice, IsInjective
<1> QED
  BY <1>2, <1>3, <1>4 DEF ListInv

LEMMA OpenList ==
  ASSUME ListInv, NEW dir \in Subdirs, OpenDirectory(dir)
  PROVE  ListInv'
<1>1. /\ UNCHANGED <<disk, phase, recursive, tmpList, toBeRemoved, i, j, at, gGame,
                     gGamesFound, searched>>
      /\ Reading /\ stopSearching' \in BOOLEAN
      /\ open' = Append(Read(dir), Directory(dir, TRUE))
  BY DEF OpenDirectory, lists, loops, result
<1>2. DiskOK' /\ Files' = Files
  BY <1>1, SameDisk DEF ListInv
<1>3. open' \in Seq(Dirs)
  BY <1>1, OpenedOK, ReadOK, Appended DEF ListInv
<1>4. TypeOK'
  BY <1>1, <1>2, <1>3 DEF ListInv, TypeOK, Dirs, Entry
<1>5. IteratorOK' /\ NoGameTwice'
  BY <1>1 DEF ListInv, IteratorOK, NoGameTwice
<1> QED
  BY <1>2, <1>4, <1>5 DEF ListInv

LEMMA ReadList ==
  ASSUME ListInv, NEW f \in Files, ReadFile(f)
  PROVE  ListInv'
<1>1. /\ UNCHANGED <<disk, phase, stopSearching, recursive, i, j, at, gGame, gGamesFound,
                     searched>>
      /\ Reading /\ open' = Read(f)
      /\ toBeRemoved' = toBeRemoved \o GoodLines(f) \/ UNCHANGED toBeRemoved
      /\ tmpList' = Append(tmpList, f) \/ UNCHANGED tmpList
  BY DEF ReadFile, Take, loops, result
<1>2. DiskOK' /\ Files' = Files
  BY <1>1, SameDisk DEF ListInv
<1>3. open' \in Seq(Dirs)
  BY <1>1, ReadOK DEF ListInv
<1>4. tmpList' \in Seq(Files)
  <2>1. tmpList \in Seq(Files)
    BY DEF ListInv, TypeOK
  <2>2. Append(tmpList, f) \in Seq(Files)
    BY <2>1, Appended
  <2> QED
    BY <1>1, <2>1, <2>2
<1>5. toBeRemoved' \in Seq(Names)
  <2>1. toBeRemoved \in Seq(Names)
    BY DEF ListInv, TypeOK
  <2>2. GoodLines(f) \in Seq(Names)
    BY GoodLinesAre DEF ListInv
  <2>3. toBeRemoved \o GoodLines(f) \in Seq(Names)
    BY <2>1, <2>2, Concatenated
  <2> QED
    BY <1>1, <2>1, <2>3
<1>6. TypeOK'
  BY <1>1, <1>2, <1>3, <1>4, <1>5 DEF ListInv, TypeOK, Dirs, Entry
<1>7. IteratorOK' /\ NoGameTwice'
  BY <1>1 DEF ListInv, IteratorOK, NoGameTwice
<1> QED
  BY <1>2, <1>6, <1>7 DEF ListInv

LEMMA CloseList == ASSUME ListInv, CloseDirectory PROVE ListInv'
<1>1. /\ UNCHANGED <<disk, phase, stopSearching, recursive, tmpList, toBeRemoved, i, j, at,
                     gGame, gGamesFound>>
      /\ Reading /\ open' = Front(open)
      /\ searched' = searched \/ searched' = searched \cup {Last(open).dir}
  BY DEF CloseDirectory, lists, loops
<1>2. DiskOK' /\ Files' = Files
  BY <1>1, SameDisk DEF ListInv
<1>3. open' \in Seq(Dirs)
  BY <1>1, FrontOpen DEF ListInv
<1>4. Last(open).dir \in Subdirs \cup {Root}
  BY <1>1, LastOpen DEF ListInv, Dirs
<1>5. TypeOK'
  BY <1>1, <1>2, <1>3, <1>4 DEF ListInv, TypeOK, Dirs, Entry
<1>6. IteratorOK' /\ NoGameTwice'
  BY <1>1 DEF ListInv, IteratorOK, NoGameTwice
<1> QED
  BY <1>2, <1>5, <1>6 DEF ListInv

LEMMA FoundList == ASSUME ListInv, AllFilesFound PROVE ListInv'
<1>1. /\ UNCHANGED <<disk, open, stopSearching, recursive, tmpList, toBeRemoved, gGame,
                     gGamesFound, searched>>
      /\ phase' = "strip" /\ i' = 1 /\ j' = 0 /\ at' = 1
  BY DEF AllFilesFound, lists, result
<1>2. DiskOK' /\ Files' = Files
  BY <1>1, SameDisk DEF ListInv
<1>3. TypeOK' /\ IteratorOK' /\ NoGameTwice'
  BY <1>1, <1>2 DEF ListInv, TypeOK, IteratorOK, NoGameTwice
<1> QED
  BY <1>2, <1>3 DEF ListInv

LEMMA StripFileList == ASSUME ListInv, StripFile PROVE ListInv'
<1>1. /\ UNCHANGED <<disk, phase, open, stopSearching, recursive, toBeRemoved, i, gGame,
                     gGamesFound, searched>>
      /\ phase = "strip" /\ j < Len(tmpList) /\ j' = j + 1
      /\ \/ tmpList' = RemoveAt(tmpList, at) /\ UNCHANGED at
         \/ UNCHANGED tmpList /\ at' = at + 1
  BY DEF StripFile, result
<1>2. DiskOK' /\ Files' = Files
  BY <1>1, SameDisk DEF ListInv
<1>3. tmpList \in Seq(Files) /\ j \in Nat /\ at \in Nat \ {0} /\ at <= j + 1
      /\ Len(tmpList) \in Nat
  BY <1>1, LenProperties DEF ListInv, TypeOK, IteratorOK
<1>4. at \in 1 .. Len(tmpList)
  BY <1>1, <1>3
<1>5. tmpList' \in Seq(Files)
  BY <1>1, <1>3, <1>4, Erased
<1>6. at' \in Nat \ {0} /\ at' <= j' + 1 /\ j' \in Nat
  BY <1>1, <1>3
<1>7. TypeOK'
  BY <1>1, <1>2, <1>5, <1>6 DEF ListInv, TypeOK
<1>8. IteratorOK' /\ NoGameTwice'
  BY <1>1, <1>6 DEF ListInv, IteratorOK, NoGameTwice
<1> QED
  BY <1>2, <1>7, <1>8 DEF ListInv

LEMMA StripNextList == ASSUME ListInv, StripNext \/ Stripped PROVE ListInv'
<1>1. /\ UNCHANGED <<disk, open, stopSearching, recursive, tmpList, toBeRemoved, gGame,
                     gGamesFound, searched>>
      /\ \/ UNCHANGED phase /\ i' = i + 1 /\ j' = 0 /\ at' = 1
         \/ phase' = "finalize" /\ i' = 1 /\ UNCHANGED <<j, at>>
  BY DEF StripNext, Stripped, lists, result
<1>2. DiskOK' /\ Files' = Files
  BY <1>1, SameDisk DEF ListInv
<1>3. TypeOK' /\ IteratorOK' /\ NoGameTwice'
  BY <1>1, <1>2 DEF ListInv, TypeOK, IteratorOK, NoGameTwice
<1> QED
  BY <1>2, <1>3 DEF ListInv

LEMMA FinalizeFileList == ASSUME ListInv, FinalizeFile PROVE ListInv'
<1>1. /\ UNCHANGED <<disk, phase, open, stopSearching, recursive, tmpList, toBeRemoved, j, at,
                     gGamesFound, searched>>
      /\ phase = "finalize" /\ i <= Len(tmpList) /\ i' = i + 1
      /\ gGame' = IF tmpList[i] \in Range(gGame) THEN gGame ELSE Append(gGame, tmpList[i])
  BY DEF FinalizeFile, lists
<1>2. DiskOK' /\ Files' = Files
  BY <1>1, SameDisk DEF ListInv
<1>3. tmpList \in Seq(Files) /\ i \in 1 .. Len(tmpList) /\ gGame \in Seq(Files)
  BY <1>1, LenProperties DEF ListInv, TypeOK
<1>4. tmpList[i] \in Files
  BY <1>3, ElementOfSeq
<1>5. gGame' \in Seq(Files) /\ NoGameTwice'
  <2>1. CASE tmpList[i] \in Range(gGame)
    BY <1>1, <1>3, <2>1 DEF ListInv, NoGameTwice
  <2>2. CASE tmpList[i] \notin Range(gGame)
    <3>1. gGame' = Append(gGame, tmpList[i])
      BY <1>1, <2>2
    <3> QED
      BY <1>3, <1>4, <2>2, <3>1, Appended DEF ListInv, NoGameTwice
  <2> QED
    BY <2>1, <2>2
<1>6. TypeOK' /\ IteratorOK'
  BY <1>1, <1>2, <1>3, <1>5 DEF ListInv, TypeOK, IteratorOK
<1> QED
  BY <1>2, <1>5, <1>6 DEF ListInv

LEMMA FinalizedList == ASSUME ListInv, Finalized PROVE ListInv'
<1>1. /\ UNCHANGED <<disk, open, stopSearching, recursive, tmpList, toBeRemoved, i, j, at>>
      /\ phase' = "idle"
      /\ \/ gGame' = <<>> /\ gGamesFound' = FALSE /\ searched' = {}
         \/ gGamesFound' = (gGame # <<>>) /\ UNCHANGED <<gGame, searched>>
  BY DEF Finalized, lists, loops
<1>2. DiskOK' /\ Files' = Files
  BY <1>1, SameDisk DEF ListInv
<1>3. gGame' \in Seq(Files) /\ gGamesFound' \in BOOLEAN
  BY <1>1, EmptySeq DEF ListInv, TypeOK
<1>4. TypeOK' /\ IteratorOK'
  BY <1>1, <1>2, <1>3 DEF ListInv, TypeOK, IteratorOK
<1>5. NoGameTwice'
  BY <1>1 DEF ListInv, NoGameTwice, IsInjective
<1> QED
  BY <1>2, <1>4, <1>5 DEF ListInv

LEMMA StepList == ListInv /\ [Next]_vars => ListInv'
<1> SUFFICES ASSUME ListInv, [Next]_vars PROVE ListInv'
  OBVIOUS
<1>1. CASE UNCHANGED vars
  <2>1. UNCHANGED <<disk, phase, open, stopSearching, recursive, tmpList, toBeRemoved, i, j, at,
                    gGame, gGamesFound, searched>>
    BY <1>1 DEF vars, lists, loops, result
  <2>2. DiskOK' /\ Files' = Files
    BY <2>1, SameDisk DEF ListInv
  <2> QED
    BY <2>1, <2>2 DEF ListInv, TypeOK, IteratorOK, NoGameTwice
<1>2. CASE \E dir \in Subdirs \cup {Root}, all \in BOOLEAN : Search(dir, all)
  BY <1>2, SearchList
<1>3. CASE findAllFiles
  BY <1>3, OpenList, ReadList, CloseList, FoundList DEF findAllFiles
<1>4. CASE stripList \/ finalizeList \/ resetSearch
  BY <1>4, StripFileList, StripNextList, FinalizeFileList, FinalizedList, ResetList
     DEF stripList, finalizeList
<1> QED
  BY <1>1, <1>2, <1>3, <1>4 DEF Next, buildGameList

LEMMA ListAlways == Spec => []ListInv
<1> QED
  BY InitList, StepList, PTL DEF Spec

\* The types of the search and of its lists, and that stripList and finalizeList only
\* handle files that exist.
THEOREM GameListTypeCorrect == Spec => []TypeOK
<1>1. ListInv => TypeOK
  BY DEF ListInv
<1> QED
  BY <1>1, ListAlways, PTL

\* stripList never reads its iterator past the end of the list, though the list shrinks
\* under it while it counts.
THEOREM IteratorCorrect == Spec => []IteratorInList
<1>1. ListInv => IteratorInList
  <2>1. ASSUME ListInv, phase = "strip", j < Len(tmpList)
        PROVE  at \in DOMAIN tmpList
    BY <2>1, LenProperties DEF ListInv, TypeOK, IteratorOK
  <2> QED
    BY <2>1 DEF IteratorInList
<1> QED
  BY <1>1, ListAlways, PTL

\* However directories, the ones above them and the listings of the main screen are
\* searched and stopped, no game is listed twice.
THEOREM GamesOnce == Spec => []NoGameTwice
<1>1. ListInv => NoGameTwice
  BY DEF ListInv
<1> QED
  BY <1>1, ListAlways, PTL

-----------------------------------------------------------------------------
(* The searches implement a catalog.                                       *)

LEMMA IsCatalog ==
  ASSUME NEW F, F \subseteq Universe, NEW games \in Seq(F), IsInjective(games)
  PROVE  games \in Cat!Lists
<1>1. \A k \in 1 .. Len(games) : games[k] \in Universe
  BY ElementOfSeq
<1>2. games \in [1 .. Len(games) -> Universe] /\ Len(games) \in Nat
  BY <1>1, LenProperties
<1>3. games \in Seq(Universe)
  BY <1>2, SeqDef
<1> QED
  BY <1>3 DEF Cat!Lists, IsInjective

\* One file of finalizeList adds a game at the end, or none.
LEMMA FinalizeFileAdds ==
  ASSUME ListInv, FinalizeFile
  PROVE  Cat!Begins(gGame, gGame') /\ gGamesFound' = gGamesFound
<1>1. /\ i <= Len(tmpList) /\ gGamesFound' = gGamesFound
      /\ gGame' = IF tmpList[i] \in Range(gGame) THEN gGame ELSE Append(gGame, tmpList[i])
  BY DEF FinalizeFile
<1>2. tmpList \in Seq(Files) /\ i \in 1 .. Len(tmpList) /\ gGame \in Seq(Files)
  BY <1>1, LenProperties DEF ListInv, TypeOK
<1>3. /\ tmpList[i] \in Files
      /\ Len(gGame) \in Nat /\ DOMAIN gGame = 1 .. Len(gGame)
  BY <1>2, ElementOfSeq, LenProperties
<1>4. CASE tmpList[i] \in Range(gGame)
  BY <1>1, <1>3, <1>4 DEF Cat!Begins
<1>5. CASE tmpList[i] \notin Range(gGame)
  <2>1. gGame' = Append(gGame, tmpList[i])
    BY <1>1, <1>5
  <2>2. /\ Len(gGame') = Len(gGame) + 1
        /\ \A k \in 1 .. Len(gGame) : gGame'[k] = gGame[k]
    BY <1>2, <1>3, <2>1, Appended
  <2> QED
    BY <1>1, <1>3, <2>2 DEF Cat!Begins
<1> QED
  BY <1>4, <1>5

\* Every step of a search is one of the catalog, or does not concern it.
LEMMA StepCatalog ==
  ASSUME ListInv, ListInv', [Next]_vars
  PROVE  [Cat!Next]_<<gGame, gGamesFound>>
<1>1. gGame \in Cat!Lists /\ gGame' \in Cat!Lists
  <2>1. Files \subseteq Universe /\ gGame \in Seq(Files) /\ IsInjective(gGame)
    BY DEF ListInv, DiskOK, TypeOK, NoGameTwice
  <2>2. Files' \subseteq Universe /\ gGame' \in Seq(Files') /\ IsInjective(gGame')
    BY DEF ListInv, DiskOK, TypeOK, NoGameTwice
  <2>3. gGame \in Cat!Lists
    BY <2>1, IsCatalog
  <2>4. gGame' \in Cat!Lists
    BY <2>2, IsCatalog
  <2> QED
    BY <2>3, <2>4
<1>2. Cat!Begins(gGame, gGame)
  BY LenProperties DEF Cat!Begins, ListInv, TypeOK
<1>3. CASE FinalizeFile
  <2>1. Cat!Add
    BY <1>1, <1>3, FinalizeFileAdds DEF Cat!Add
  <2> QED
    BY <2>1 DEF Cat!Next
<1>4. CASE Finalized
  <2>1. CASE stopSearching /\ recursive
    BY <1>4, <2>1 DEF Finalized, Cat!Next, Cat!Drop
  <2>2. CASE ~(stopSearching /\ recursive)
    <3>1. gGamesFound' = (gGame # <<>>) /\ gGame' = gGame
      BY <1>4, <2>2 DEF Finalized
    <3>2. Cat!Add
      BY <1>1, <1>2, <3>1 DEF Cat!Add
    <3> QED
      BY <3>2 DEF Cat!Next
  <2> QED
    BY <2>1, <2>2
<1>5. CASE resetSearch
  BY <1>5 DEF resetSearch, Cat!Next, Cat!Drop
<1>6. CASE findAllFiles \/ stripList
  BY <1>6 DEF findAllFiles, OpenDirectory, ReadFile, CloseDirectory, AllFilesFound,
              stripList, StripFile, StripNext, Stripped, result
<1>7. CASE \E dir \in Subdirs \cup {Root}, all \in BOOLEAN : Search(dir, all)
  BY <1>7 DEF Search, result
<1>8. CASE UNCHANGED vars
  BY <1>8 DEF vars, result
<1> QED
  BY <1>3, <1>4, <1>5, <1>6, <1>7, <1>8 DEF Next, buildGameList, finalizeList

\* However directories are searched, listed and stopped, the list of games only grows at
\* its end or is dropped as a whole, has no game twice, and is offered only while it has
\* a game: a position that was read stays the position of its game.
THEOREM CatalogImplemented == Spec => ImplementsCatalog
<1>1. Init => Cat!Init
  <2> SUFFICES ASSUME Init PROVE Cat!Init
    OBVIOUS
  <2>1. Files \subseteq Universe /\ gGame \in Seq(Files) /\ IsInjective(gGame)
    BY InitList DEF ListInv, DiskOK, TypeOK, NoGameTwice
  <2>2. gGame \in Cat!Lists
    BY <2>1, IsCatalog
  <2> QED
    BY <2>2 DEF Init, Cat!Init
<1> QED
  BY <1>1, StepCatalog, ListAlways, PTL DEF Spec, ImplementsCatalog, Cat!Spec

-----------------------------------------------------------------------------
(* The inductive invariant, second part: the accounts of a search of a     *)
(* plain disk.                                                             *)

\* A file that findAllFiles takes.
Wanted(f) ==
  f \in Games /\ (f.ext = "cue" => ValidCue(f)) /\ (f.ext = "mdf" => ~HasBin(f))

\* The search is not one that will be thrown away.
Kept == ~(stopSearching /\ recursive)

\* A directory is open once, is not to be opened again, and has only its own files left;
\* the ones in it only if the search goes down.
OpenOK ==
  /\ \A k \in DOMAIN open :
       /\ open[k].left \cap Files \subseteq FilesIn(open[k].dir)
       /\ ~recursive \/ open[k].dir # Root => open[k].left \cap Subdirs = {}
  /\ \A k, l \in DOMAIN open : open[k].dir \notin open[l].left
  /\ \A k, l \in DOMAIN open : open[k].dir = open[l].dir => k = l

\* A file is found once; its directory is not read again.
FoundOK ==
  /\ IsInjective(tmpList)
  /\ \A f \in Range(tmpList) :
       Wanted(f) /\ \A k \in DOMAIN open : f \notin open[k].left /\ f.dir \notin open[k].left
  /\ stopSearching /\ ~recursive => tmpList = <<>>

\* Only names of files that a cue file stands for are removed.
NamesOK == \A name \in Range(toBeRemoved) : \A f \in Files : Name(f) = name => InACue(f)

\* The cue files that were read have their names in toBeRemoved, which covers the files
\* found in directories that are closed.
CuesOK ==
  Kept =>
    /\ \A k \in DOMAIN open : \A cue \in Games :
         cue.ext = "cue" /\ ValidCue(cue) /\ cue.dir = open[k].dir
           => cue \in open[k].left \/ Range(disk[cue]) \subseteq Range(toBeRemoved)
    /\ \A f \in Range(tmpList) :
         \/ f.dir \in searched /\ (InACue(f) => Name(f) \in Range(toBeRemoved))
         \/ \E k \in DOMAIN open : open[k].dir = f.dir

\* No file that should be listed is lost.
BooksOK ==
  \A f \in Listed :
    /\ f.dir \in searched => f \in Range(gGame) \cup Range(tmpList)
    /\ \A k \in DOMAIN open :
         f.dir = open[k].dir => f \in open[k].left \cup Range(gGame) \cup Range(tmpList)

FindOK == phase = "find" => OpenOK /\ FoundOK /\ NamesOK /\ CuesOK /\ BooksOK

\* A file a cue file stands for is still to be met by the iterator.
ToMeet(p) ==
  InACue(tmpList[p]) =>
    \E k \in i .. Len(toBeRemoved) :
      toBeRemoved[k] = Name(tmpList[p]) /\ (k = i => at <= p)

StripOK ==
  phase = "strip" =>
    /\ NamesOK
    /\ IsInjective(tmpList) /\ \A f \in Range(tmpList) : Wanted(f)
    /\ \A f \in Listed : f.dir \in searched => f \in Range(gGame) \cup Range(tmpList)
    /\ Kept => \A p \in 1 .. Len(tmpList) : tmpList[p].dir \in searched /\ ToMeet(p)
    /\ i <= Len(toBeRemoved) =>
         at = j + 1 \/ \A p \in 1 .. Len(tmpList) : Name(tmpList[p]) # toBeRemoved[i]

FinalOK ==
  phase = "finalize" =>
    /\ \A f \in Listed : f.dir \in searched =>
         f \in Range(gGame) \/ \E p \in i .. Len(tmpList) : tmpList[p] = f
    /\ Kept => \A f \in Range(tmpList) : f \in Listed /\ f.dir \in searched

GamesOK ==
  phase # "finalize" \/ Kept => \A f \in Range(gGame) : f \in Listed /\ f.dir \in searched

IdleOK == phase = "idle" => \A f \in Listed : f.dir \in searched => f \in Range(gGame)

BookInv == Plain => FindOK /\ StripOK /\ FinalOK /\ GamesOK /\ IdleOK

\* What is said of the files stays true while the disk is the same.
LEMMA SameFiles ==
  ASSUME disk' = disk
  PROVE  /\ Plain' <=> Plain
         /\ Listed' = Listed /\ Games' = Games /\ Files' = Files
         /\ \A d : FilesIn(d)' = FilesIn(d)
         /\ \A f : InACue(f)' <=> InACue(f)
         /\ \A f : Wanted(f)' <=> Wanted(f)
         /\ \A f : ValidCue(f)' <=> ValidCue(f)
<1>1. Files' = Files /\ Games' = Games
  BY DEF Files, Games
<1>2. \A d : FilesIn(d)' = FilesIn(d)
  BY DEF FilesIn, Files
<1>3. \A f : GoodLines(f)' = GoodLines(f)
  BY DEF GoodLines, Exists, FilesIn, Files
<1>4. \A f : ValidCue(f)' <=> ValidCue(f)
  BY <1>3 DEF ValidCue
<1>5. \A f : HasBin(f)' <=> HasBin(f)
  BY DEF HasBin, FilesIn, Files
<1>6. \A f : InACue(f)' <=> InACue(f)
  BY <1>1, <1>4 DEF InACue
<1>7. \A f : Wanted(f)' <=> Wanted(f)
  BY <1>1, <1>4, <1>5 DEF Wanted
<1>8. Listed' = Listed
  BY DEF Listed, Games, InACue, ValidCue, HasBin, GoodLines, Exists, FilesIn, Files
<1>9. Plain' <=> Plain
  BY DEF Plain, Games, ValidCue, GoodLines, Exists, FilesIn, Files
<1> QED
  BY <1>1, <1>2, <1>4, <1>6, <1>7, <1>8, <1>9

\* A listed file is one that is taken and that no cue file stands for.
LEMMA ListedIs ==
  ASSUME NEW f
  PROVE  f \in Listed <=> Wanted(f) /\ ~InACue(f)
BY DEF Listed, Wanted

LEMMA InitBook == Init => BookInv
<1> SUFFICES ASSUME Init PROVE FindOK /\ StripOK /\ FinalOK /\ GamesOK /\ IdleOK
  BY DEF BookInv
<1>1. phase = "idle" /\ gGame = <<>> /\ searched = {}
  BY DEF Init
<1> QED
  BY <1>1, EmptyRange DEF FindOK, StripOK, FinalOK, GamesOK, IdleOK

LEMMA SearchBook ==
  ASSUME ListInv, BookInv, Plain, NEW dir \in Subdirs \cup {Root}, NEW all \in BOOLEAN,
         Search(dir, all)
  PROVE  BookInv'
<1>1. /\ UNCHANGED <<disk, gGame, searched>> /\ phase = "idle" /\ recursive' = all
      /\ tmpList' = <<>> /\ toBeRemoved' = <<>> /\ open' = <<Directory(dir, all)>>
      /\ phase' = "find"
  BY DEF Search, loops, result
<1>2. Listed' = Listed /\ Games' = Games /\ Files' = Files
      /\ \A d : FilesIn(d)' = FilesIn(d)
  BY <1>1, SameFiles
<1>3. /\ DOMAIN open' = {1} /\ open'[1].dir = dir
      /\ open'[1].left = FilesIn(dir) \cup (IF dir = Root /\ all THEN Subdirs ELSE {})
  BY <1>1 DEF Directory
<1>4. Files \cap (Subdirs \cup {Root}) = {}
  BY FilesAssumption DEF ListInv, DiskOK
<1>5. FilesIn(dir) \subseteq Files /\ \A f \in Files : f.dir = dir => f \in FilesIn(dir)
  BY DEF FilesIn
<1>6. OpenOK'
  BY <1>1, <1>2, <1>3, <1>4, <1>5, DirsAssumption DEF OpenOK
<1>7. FoundOK' /\ NamesOK'
  BY <1>1, EmptyRange DEF FoundOK, NamesOK, IsInjective
<1>8. CuesOK'
  BY <1>1, <1>2, <1>3, <1>5, EmptyRange DEF CuesOK, Games
<1>9. BooksOK'
  <2>1. ASSUME NEW f \in Listed
        PROVE  f \in Files
    BY DEF Listed, Games
  <2> QED
    BY <1>1, <1>2, <1>3, <1>5, <2>1 DEF BooksOK, BookInv, IdleOK
<1>10. GamesOK'
  BY <1>1, <1>2 DEF BookInv, GamesOK
<1> QED
  BY <1>1, <1>6, <1>7, <1>8, <1>9, <1>10 DEF BookInv, FindOK, StripOK, FinalOK, IdleOK

LEMMA ResetBook == ASSUME ListInv, BookInv, Plain, resetSearch PROVE BookInv'
<1>1. phase' = "idle" /\ gGame' = <<>> /\ searched' = {}
  BY DEF resetSearch
<1> QED
  BY <1>1, EmptyRange DEF BookInv, FindOK, StripOK, FinalOK, GamesOK, IdleOK

LEMMA OpenBook ==
  ASSUME ListInv, BookInv, Plain, NEW dir \in Subdirs, OpenDirectory(dir)
  PROVE  BookInv'
<1> DEFINE n == Len(open)
<1>1. /\ UNCHANGED <<disk, phase, recursive, tmpList, toBeRemoved, gGame, searched>>
      /\ Reading /\ ~stopSearching /\ phase = "find" /\ dir \in Last(open).left
      /\ open' = Append(Read(dir), Directory(dir, TRUE))
  BY DEF OpenDirectory, Reading, lists, loops, result
<1>2. /\ Listed' = Listed /\ Games' = Games /\ Files' = Files
      /\ \A d : FilesIn(d)' = FilesIn(d)
      /\ \A f : InACue(f)' <=> InACue(f)
      /\ \A f : Wanted(f)' <=> Wanted(f)
      /\ \A f : ValidCue(f)' <=> ValidCue(f)
  BY <1>1, SameFiles
<1>3. /\ n \in 1 .. n /\ n \in Nat /\ DOMAIN open = 1 .. n /\ Last(open) = open[n]
      /\ \A k \in 1 .. n : open[k] \in Dirs
  BY <1>1, LastOpen DEF ListInv
<1>4. /\ Read(dir) \in Seq(Dirs) /\ Len(Read(dir)) = n
      /\ \A k \in 1 .. n : /\ Read(dir)[k].dir = open[k].dir
                           /\ Read(dir)[k].left = IF k = n THEN open[k].left \ {dir}
                                                  ELSE open[k].left
  BY <1>1, ReadOK DEF ListInv
<1>5. Directory(dir, TRUE) \in Dirs /\ Directory(dir, TRUE).dir = dir
      /\ Directory(dir, TRUE).left = FilesIn(dir)
  BY OpenedOK, DirsAssumption DEF Directory
<1>6. /\ DOMAIN open' = 1 .. n + 1
      /\ \A k \in 1 .. n : open'[k] = Read(dir)[k]
      /\ open'[n + 1] = Directory(dir, TRUE)
  <2> DEFINE r == Read(dir)
             d == Directory(dir, TRUE)
  <2>1. r \in Seq(Dirs) /\ d \in Dirs /\ Len(r) = n /\ open' = Append(r, d)
    BY <1>1, <1>4, <1>5
  <2> HIDE DEF r, d, n
  <2>2. /\ DOMAIN Append(r, d) = 1 .. Len(r) + 1
        /\ \A k \in 1 .. Len(r) : Append(r, d)[k] = r[k]
        /\ Append(r, d)[Len(r) + 1] = d
    BY <2>1, Appended
  <2> QED
    BY <2>1, <2>2 DEF r, d
<1>7. Files \cap (Subdirs \cup {Root}) = {} /\ Root \notin Subdirs
  BY FilesAssumption, DirsAssumption DEF ListInv, DiskOK
<1>8. /\ \A d : FilesIn(d) \subseteq Files /\ \A f \in FilesIn(d) : f.dir = d
      /\ \A f \in Files : f \in FilesIn(f.dir)
  BY DEF FilesIn
<1>9. OpenOK /\ FoundOK /\ NamesOK /\ CuesOK /\ BooksOK
  BY <1>1 DEF BookInv, FindOK
<1>10. recursive /\ open[n].dir = Root
  BY <1>1, <1>3, <1>9 DEF OpenOK
<1>11. \A k \in 1 .. n : dir \notin open'[k].left /\ dir # open[k].dir
  <2>1. ASSUME NEW k \in 1 .. n
        PROVE  dir # open[k].dir
    BY <1>1, <1>3, <1>9 DEF OpenOK
  <2>2. ASSUME NEW k \in 1 .. n
        PROVE  dir \notin open'[k].left
    <3>1. CASE k = n
      BY <1>4, <1>6, <3>1
    <3>2. CASE k # n
      <4>1. open[k].dir # Root
        BY <1>3, <1>9, <1>10, <3>2 DEF OpenOK
      <4>2. open[k].left \cap Subdirs = {}
        BY <1>3, <1>9, <4>1 DEF OpenOK
      <4> QED
        BY <1>4, <1>6, <3>2, <4>2
    <3> QED
      BY <3>1, <3>2
  <2> QED
    BY <2>1, <2>2
\* What the open directories are now.
<1>12. /\ n + 1 \in 1 .. n + 1 /\ \A k \in 1 .. n : k \in 1 .. n + 1 /\ k # n + 1
       /\ \A k \in 1 .. n + 1 : k = n + 1 \/ k \in 1 .. n
  BY <1>3
<1>13. /\ \A k \in 1 .. n : open'[k].dir = open[k].dir /\ open'[k].left \subseteq open[k].left
                            /\ open[k].left \cap Files \subseteq open'[k].left
       /\ open'[n + 1].dir = dir /\ open'[n + 1].left = FilesIn(dir)
  BY <1>4, <1>5, <1>6, <1>7
<1> HIDE DEF n
<1>14. OpenOK'
  <2>1. ASSUME NEW k \in 1 .. n + 1
        PROVE  /\ open'[k].left \cap Files \subseteq FilesIn(open'[k].dir)
               /\ ~recursive \/ open'[k].dir # Root => open'[k].left \cap Subdirs = {}
    <3>1. CASE k = n + 1
      BY <1>7, <1>8, <1>13, <3>1
    <3>2. CASE k \in 1 .. n
      BY <1>3, <1>9, <1>13, <3>2 DEF OpenOK
    <3> QED
      BY <1>12, <3>1, <3>2
  <2>2. ASSUME NEW k \in 1 .. n + 1, NEW l \in 1 .. n + 1
        PROVE  open'[k].dir \notin open'[l].left
    <3>1. CASE l = n + 1
      <4>1. open'[k].dir \in Subdirs \cup {Root}
        BY <1>3, <1>12, <1>13 DEF Dirs
      <4> QED
        BY <1>7, <1>8, <1>13, <3>1, <4>1
    <3>2. CASE l \in 1 .. n /\ k = n + 1
      BY <1>11, <1>13, <3>2
    <3>3. CASE l \in 1 .. n /\ k \in 1 .. n
      BY <1>3, <1>9, <1>13, <3>3 DEF OpenOK
    <3> QED
      BY <1>12, <3>1, <3>2, <3>3
  <2>3. ASSUME NEW k \in 1 .. n + 1, NEW l \in 1 .. n + 1, open'[k].dir = open'[l].dir
        PROVE  k = l
    <3>1. CASE l \in 1 .. n /\ k \in 1 .. n
      BY <1>3, <1>9, <1>13, <2>3, <3>1 DEF OpenOK
    <3>2. CASE l = n + 1 \/ k = n + 1
      BY <1>11, <1>12, <1>13, <2>3, <3>2
    <3> QED
      BY <1>12, <3>1, <3>2
  <2> QED
    BY <1>1, <1>2, <1>6, <2>1, <2>2, <2>3 DEF OpenOK
<1>15. FoundOK'
  <2>1. ASSUME NEW f \in Range(tmpList), NEW k \in 1 .. n + 1
        PROVE  f \notin open'[k].left /\ f.dir \notin open'[k].left
    <3>1. CASE k \in 1 .. n
      BY <1>3, <1>9, <1>13, <3>1 DEF FoundOK
    <3>2. CASE k = n + 1
      <4>1. f.dir # dir
        BY <1>1, <1>3, <1>9 DEF FoundOK
      <4>2. f \in Files /\ f.dir \in Subdirs \cup {Root}
        BY <1>9, UniverseAssumption DEF FoundOK, Wanted, Games, ListInv, DiskOK
      <4> QED
        BY <1>7, <1>8, <1>13, <3>2, <4>1, <4>2
    <3> QED
      BY <1>12, <3>1, <3>2
  <2> QED
    BY <1>1, <1>2, <1>6, <1>9, <1>10, <2>1 DEF FoundOK
<1>16. NamesOK'
  BY <1>1, <1>2, <1>9 DEF NamesOK, Name
<1>17. CuesOK'
  <2>1. Kept
    BY <1>1 DEF Kept
  <2>2. ASSUME NEW k \in 1 .. n + 1, NEW cue \in Games, cue.ext = "cue", ValidCue(cue),
               cue.dir = open'[k].dir
        PROVE  cue \in open'[k].left \/ Range(disk[cue]) \subseteq Range(toBeRemoved)
    <3>1. cue \in Files
      BY DEF Games
    <3>2. CASE k \in 1 .. n
      BY <1>3, <1>9, <1>13, <2>1, <2>2, <3>1, <3>2 DEF CuesOK
    <3>3. CASE k = n + 1
      BY <1>8, <1>13, <2>2, <3>1, <3>3
    <3> QED
      BY <1>12, <3>2, <3>3
  <2>3. ASSUME NEW f \in Range(tmpList)
        PROVE  \/ f.dir \in searched /\ (InACue(f) => Name(f) \in Range(toBeRemoved))
               \/ \E k \in 1 .. n + 1 : open'[k].dir = f.dir
    BY <1>3, <1>9, <1>12, <1>13, <2>1 DEF CuesOK
  <2> QED
    BY <1>1, <1>2, <1>6, <2>2, <2>3 DEF CuesOK, Name
<1>18. BooksOK'
  <2>1. ASSUME NEW f \in Listed, NEW k \in 1 .. n + 1, f.dir = open'[k].dir
        PROVE  f \in open'[k].left \cup Range(gGame) \cup Range(tmpList)
    <3>1. f \in Files
      BY DEF Listed, Games
    <3>2. CASE k \in 1 .. n
      BY <1>3, <1>9, <1>13, <2>1, <3>1, <3>2 DEF BooksOK
    <3>3. CASE k = n + 1
      BY <1>8, <1>13, <2>1, <3>1, <3>3
    <3> QED
      BY <1>12, <3>2, <3>3
  <2> QED
    BY <1>1, <1>2, <1>6, <1>9, <2>1 DEF BooksOK
<1>19. GamesOK'
  BY <1>1, <1>2 DEF BookInv, GamesOK
<1> QED
  BY <1>1, <1>14, <1>15, <1>16, <1>17, <1>18, <1>19
     DEF BookInv, FindOK, StripOK, FinalOK, IdleOK

LEMMA ReadBook ==
  ASSUME ListInv, BookInv, Plain, NEW f \in Files, ReadFile(f)
  PROVE  BookInv'
<1> DEFINE n == Len(open)
           isCue == f \in Games /\ f.ext = "cue"
<1>1. /\ UNCHANGED <<disk, phase, stopSearching, recursive, gGame, searched>>
      /\ Reading /\ ~stopSearching /\ phase = "find" /\ f \in Last(open).left
      /\ open' = Read(f)
      /\ toBeRemoved' = IF isCue THEN toBeRemoved \o GoodLines(f) ELSE toBeRemoved
      /\ tmpList' = IF Wanted(f) THEN Append(tmpList, f) ELSE tmpList
  BY DEF ReadFile, Reading, Take, Wanted, loops, result
<1>2. /\ Listed' = Listed /\ Games' = Games /\ Files' = Files
      /\ \A d : FilesIn(d)' = FilesIn(d)
      /\ \A g : InACue(g)' <=> InACue(g)
      /\ \A g : Wanted(g)' <=> Wanted(g)
      /\ \A g : ValidCue(g)' <=> ValidCue(g)
  BY <1>1, SameFiles
<1>3. /\ n \in 1 .. n /\ n \in Nat /\ DOMAIN open = 1 .. n /\ Last(open) = open[n]
      /\ \A k \in 1 .. n : open[k] \in Dirs
  BY <1>1, LastOpen DEF ListInv
<1>4. /\ DOMAIN open' = 1 .. n
      /\ \A k \in 1 .. n : /\ open'[k].dir = open[k].dir
                           /\ open'[k].left = IF k = n THEN open[k].left \ {f}
                                              ELSE open[k].left
  BY <1>1, ReadOK DEF ListInv
<1>5. OpenOK /\ FoundOK /\ NamesOK /\ CuesOK /\ BooksOK
  BY <1>1 DEF BookInv, FindOK
<1>6. /\ \A d : FilesIn(d) \subseteq Files /\ \A g \in FilesIn(d) : g.dir = d
      /\ \A g \in Files : g \in FilesIn(g.dir)
  BY DEF FilesIn
<1>7. f \in open[n].left /\ f.dir = open[n].dir /\ f \notin Range(tmpList)
  BY <1>1, <1>3, <1>5, <1>6 DEF OpenOK, FoundOK
<1>8. \A k \in 1 .. n : f \notin open'[k].left /\ f.dir \notin open'[k].left
  <2>1. ASSUME NEW k \in 1 .. n, k # n
        PROVE  f \notin open[k].left
    BY <1>3, <1>5, <1>6, <1>7, <2>1 DEF OpenOK
  <2>2. ASSUME NEW k \in 1 .. n
        PROVE  f.dir \notin open[k].left
    BY <1>3, <1>5, <1>7 DEF OpenOK
  <2> QED
    BY <1>4, <2>1, <2>2
<1>9. tmpList \in Seq(Files) /\ toBeRemoved \in Seq(Names) /\ GoodLines(f) \in Seq(Names)
  BY GoodLinesAre DEF ListInv, TypeOK
<1>10. /\ Range(tmpList') = IF Wanted(f) THEN Range(tmpList) \cup {f} ELSE Range(tmpList)
       /\ IsInjective(tmpList')
  <2>1. CASE Wanted(f)
    <3>1. /\ Range(Append(tmpList, f)) = Range(tmpList) \cup {f}
          /\ IsInjective(Append(tmpList, f))
      BY <1>5, <1>7, <1>9, Appended DEF FoundOK
    <3> QED
      BY <1>1, <2>1, <3>1
  <2>2. CASE ~Wanted(f)
    BY <1>1, <1>5, <2>2 DEF FoundOK
  <2> QED
    BY <2>1, <2>2
<1>11. Range(toBeRemoved') = IF isCue THEN Range(toBeRemoved) \cup Range(GoodLines(f))
                             ELSE Range(toBeRemoved)
  <2>1. Range(toBeRemoved \o GoodLines(f)) = Range(toBeRemoved) \cup Range(GoodLines(f))
    BY <1>9, Concatenated
  <2> QED
    BY <1>1, <2>1
<1> HIDE DEF n
<1>12. OpenOK'
  <2>1. \A k \in 1 .. n : open'[k].left \subseteq open[k].left /\ open'[k].dir = open[k].dir
    BY <1>4
  <2>2. \A k \in 1 .. n :
          /\ open'[k].left \cap Files \subseteq FilesIn(open'[k].dir)
          /\ ~recursive \/ open'[k].dir # Root => open'[k].left \cap Subdirs = {}
    BY <1>3, <1>5, <2>1 DEF OpenOK
  <2>3. \A k, l \in 1 .. n : open'[k].dir \notin open'[l].left
    BY <1>3, <1>5, <2>1 DEF OpenOK
  <2>4. \A k, l \in 1 .. n : open'[k].dir = open'[l].dir => k = l
    BY <1>3, <1>5, <2>1 DEF OpenOK
  <2> QED
    BY <1>1, <1>2, <1>4, <2>2, <2>3, <2>4 DEF OpenOK
<1>13. FoundOK'
  <2>1. ASSUME NEW g \in Range(tmpList')
        PROVE  Wanted(g) /\ \A k \in 1 .. n : g \notin open'[k].left /\ g.dir \notin open'[k].left
    <3>1. CASE g \in Range(tmpList)
      BY <1>3, <1>4, <1>5, <3>1 DEF FoundOK
    <3>2. CASE g = f /\ Wanted(f)
      BY <1>8, <3>2
    <3> QED
      BY <1>10, <2>1, <3>1, <3>2
  <2> QED
    BY <1>1, <1>2, <1>4, <1>10, <2>1 DEF FoundOK
\* The lines of a cue file that are to be removed are those of a valid one.
<1>14. ASSUME NEW name \in Range(GoodLines(f)), isCue, NEW g \in Files, Name(g) = name
       PROVE  InACue(g)
  <2>1. GoodLines(f) # <<>>
    BY <1>14, EmptyRange
  <2>2. GoodLines(f) = disk[f] /\ ValidCue(f)
    BY <1>14, <2>1 DEF Plain, ValidCue
  <2>3. g \in FilesIn(f.dir)
    BY <1>6, <1>14 DEF Plain
  <2> QED
    BY <1>6, <1>14, <2>2, <2>3 DEF InACue
<1>15. NamesOK'
  <2>1. ASSUME NEW name \in Range(toBeRemoved'), NEW g \in Files, Name(g) = name
        PROVE  InACue(g)
    BY <1>5, <1>11, <1>14, <2>1 DEF NamesOK
  <2> QED
    BY <1>2, <2>1 DEF NamesOK, Name
<1>16. CuesOK'
  <2>1. Kept
    BY <1>1 DEF Kept
  <2>2. ASSUME NEW k \in 1 .. n, NEW cue \in Games, cue.ext = "cue", ValidCue(cue),
               cue.dir = open'[k].dir
        PROVE  cue \in open'[k].left \/ Range(disk[cue]) \subseteq Range(toBeRemoved')
    <3>1. cue \in open[k].left \/ Range(disk[cue]) \subseteq Range(toBeRemoved)
      BY <1>3, <1>4, <1>5, <2>1, <2>2 DEF CuesOK
    <3>2. CASE cue = f
      BY <1>11, <2>2, <3>2 DEF ValidCue
    <3>3. CASE cue # f
      BY <1>4, <1>11, <3>1, <3>3
    <3> QED
      BY <3>2, <3>3
  <2>3. ASSUME NEW g \in Range(tmpList')
        PROVE  \/ g.dir \in searched /\ (InACue(g) => Name(g) \in Range(toBeRemoved'))
               \/ \E k \in 1 .. n : open'[k].dir = g.dir
    <3>1. CASE g \in Range(tmpList)
      BY <1>3, <1>4, <1>5, <1>11, <2>1, <3>1 DEF CuesOK
    <3>2. CASE g = f
      BY <1>3, <1>4, <1>7, <3>2
    <3> QED
      BY <1>10, <2>3, <3>1, <3>2
  <2> QED
    BY <1>1, <1>2, <1>4, <2>2, <2>3 DEF CuesOK, Name
<1>17. BooksOK'
  <2>1. Range(tmpList) \subseteq Range(tmpList')
    BY <1>10
  <2>2. ASSUME NEW g \in Listed, NEW k \in 1 .. n, g.dir = open'[k].dir
        PROVE  g \in open'[k].left \cup Range(gGame) \cup Range(tmpList')
    <3>1. g \in open[k].left \cup Range(gGame) \cup Range(tmpList)
      BY <1>3, <1>4, <1>5, <2>2 DEF BooksOK
    <3>2. CASE g = f
      BY <1>10, <2>2, <3>2, ListedIs
    <3>3. CASE g # f
      BY <1>4, <2>1, <3>1, <3>3
    <3> QED
      BY <3>2, <3>3
  <2>3. ASSUME NEW g \in Listed, g.dir \in searched
        PROVE  g \in Range(gGame) \cup Range(tmpList')
    BY <1>5, <2>1, <2>3 DEF BooksOK
  <2> QED
    BY <1>1, <1>2, <1>4, <2>2, <2>3 DEF BooksOK
<1>18. GamesOK'
  BY <1>1, <1>2 DEF BookInv, GamesOK
<1> QED
  BY <1>1, <1>12, <1>13, <1>15, <1>16, <1>17, <1>18
     DEF BookInv, FindOK, StripOK, FinalOK, IdleOK

LEMMA CloseBook == ASSUME ListInv, BookInv, Plain, CloseDirectory PROVE BookInv'
<1> DEFINE n == Len(open)
<1>1. /\ UNCHANGED <<disk, phase, stopSearching, recursive, tmpList, toBeRemoved, gGame>>
      /\ Reading /\ phase = "find" /\ open' = Front(open)
      /\ stopSearching \/ Last(open).left = {}
      /\ searched' = IF stopSearching THEN searched ELSE searched \cup {Last(open).dir}
  BY DEF CloseDirectory, Reading, lists, loops
<1>2. /\ Listed' = Listed /\ Games' = Games /\ Files' = Files
      /\ \A d : FilesIn(d)' = FilesIn(d)
      /\ \A g : InACue(g)' <=> InACue(g)
      /\ \A g : Wanted(g)' <=> Wanted(g)
      /\ \A g : ValidCue(g)' <=> ValidCue(g)
  BY <1>1, SameFiles
<1>3. n \in 1 .. n /\ n \in Nat /\ DOMAIN open = 1 .. n /\ Last(open) = open[n]
  BY <1>1, LastOpen DEF ListInv
<1>4. DOMAIN open' = 1 .. n - 1 /\ \A k \in 1 .. n - 1 : open'[k] = open[k]
  BY <1>1, FrontOpen DEF ListInv
<1>5. OpenOK /\ FoundOK /\ NamesOK /\ CuesOK /\ BooksOK
  BY <1>1 DEF BookInv, FindOK
<1> HIDE DEF n
<1>6. /\ \A k \in 1 .. n - 1 : k \in 1 .. n
      /\ \A k \in 1 .. n : k = n \/ k \in 1 .. n - 1
  <2>1. n \in Nat
    BY <1>3
  <2> QED
    BY <2>1
<1>7. OpenOK'
  <2>1. \A k \in 1 .. n - 1 :
          /\ open'[k].left \cap Files \subseteq FilesIn(open'[k].dir)
          /\ ~recursive \/ open'[k].dir # Root => open'[k].left \cap Subdirs = {}
    BY <1>3, <1>4, <1>5, <1>6 DEF OpenOK
  <2>2. \A k, l \in 1 .. n - 1 : open'[k].dir \notin open'[l].left
    BY <1>3, <1>4, <1>5, <1>6 DEF OpenOK
  <2>3. \A k, l \in 1 .. n - 1 : open'[k].dir = open'[l].dir => k = l
    BY <1>3, <1>4, <1>5, <1>6 DEF OpenOK
  <2> QED
    BY <1>1, <1>2, <1>4, <2>1, <2>2, <2>3 DEF OpenOK
<1>8. FoundOK'
  <2>1. \A f \in Range(tmpList) : \A k \in 1 .. n - 1 :
          f \notin open'[k].left /\ f.dir \notin open'[k].left
    BY <1>3, <1>4, <1>5, <1>6 DEF FoundOK
  <2> QED
    BY <1>1, <1>2, <1>4, <1>5, <2>1 DEF FoundOK
<1>9. NamesOK'
  BY <1>1, <1>2, <1>5 DEF NamesOK, Name
<1>10. CuesOK'
  <2> SUFFICES ASSUME Kept
               PROVE  CuesOK'
    BY <1>1 DEF CuesOK, Kept
  <2>1. \A k \in 1 .. n - 1 : \A cue \in Games :
          cue.ext = "cue" /\ ValidCue(cue) /\ cue.dir = open'[k].dir
            => cue \in open'[k].left \/ Range(disk[cue]) \subseteq Range(toBeRemoved)
    BY <1>3, <1>4, <1>5, <1>6 DEF CuesOK
  <2>2. ASSUME NEW f \in Range(tmpList)
        PROVE  \/ f.dir \in searched' /\ (InACue(f) => Name(f) \in Range(toBeRemoved))
               \/ \E k \in 1 .. n - 1 : open'[k].dir = f.dir
    <3>1. CASE f.dir \in searched /\ (InACue(f) => Name(f) \in Range(toBeRemoved))
      BY <1>1, <3>1
    <3>2. CASE \E k \in 1 .. n - 1 : open[k].dir = f.dir
      BY <1>4, <3>2
    <3>3. CASE open[n].dir = f.dir
      <4>1. ~stopSearching
        <5>1. ASSUME stopSearching
              PROVE  FALSE
          <6>1. tmpList = <<>>
            BY <1>5, <5>1 DEF FoundOK, Kept
          <6> QED
            BY <2>2, <6>1, EmptyRange
        <5> QED
          BY <5>1
      <4>2. f.dir \in searched' /\ open[n].left = {}
        BY <1>1, <1>3, <3>3, <4>1
      <4>3. ASSUME InACue(f)
            PROVE  Name(f) \in Range(toBeRemoved)
        <5>1. PICK cue \in Games : /\ cue.ext = "cue" /\ ValidCue(cue) /\ cue.dir = f.dir
                                   /\ Name(f) \in Range(disk[cue])
          BY <4>3 DEF InACue
        <5>2. Range(disk[cue]) \subseteq Range(toBeRemoved)
          BY <1>3, <1>5, <3>3, <4>2, <5>1 DEF CuesOK
        <5> QED
          BY <5>1, <5>2
      <4> QED
        BY <4>2, <4>3
    <3> QED
      BY <1>3, <1>5, <1>6, <3>1, <3>2, <3>3 DEF CuesOK
  <2> QED
    BY <1>1, <1>2, <1>4, <2>1, <2>2 DEF CuesOK, Name
<1>11. BooksOK'
  <2>1. ASSUME NEW f \in Listed, NEW k \in 1 .. n - 1, f.dir = open'[k].dir
        PROVE  f \in open'[k].left \cup Range(gGame) \cup Range(tmpList)
    BY <1>3, <1>4, <1>5, <1>6, <2>1 DEF BooksOK
  <2>2. ASSUME NEW f \in Listed, f.dir \in searched'
        PROVE  f \in Range(gGame) \cup Range(tmpList)
    <3>1. CASE f.dir \in searched
      BY <1>5, <3>1 DEF BooksOK
    <3>2. CASE ~stopSearching /\ f.dir = open[n].dir
      <4>1. open[n].left = {}
        BY <1>1, <1>3, <3>2
      <4> QED
        BY <1>3, <1>5, <3>2, <4>1 DEF BooksOK
    <3> QED
      BY <1>1, <1>3, <2>2, <3>1, <3>2
  <2> QED
    BY <1>1, <1>2, <1>4, <2>1, <2>2 DEF BooksOK
<1>12. GamesOK'
  BY <1>1, <1>2 DEF BookInv, GamesOK
<1> QED
  BY <1>1, <1>7, <1>8, <1>9, <1>10, <1>11, <1>12
     DEF BookInv, FindOK, StripOK, FinalOK, IdleOK

LEMMA FoundBook == ASSUME ListInv, BookInv, Plain, AllFilesFound PROVE BookInv'
<1>1. /\ UNCHANGED <<disk, stopSearching, recursive, tmpList, toBeRemoved, gGame, searched>>
      /\ phase = "find" /\ open = <<>>
      /\ phase' = "strip" /\ i' = 1 /\ j' = 0 /\ at' = 1
  BY DEF AllFilesFound, lists, result
<1>2. /\ Listed' = Listed /\ Files' = Files
      /\ \A g : InACue(g)' <=> InACue(g)
      /\ \A g : Wanted(g)' <=> Wanted(g)
  BY <1>1, SameFiles
<1>3. OpenOK /\ FoundOK /\ NamesOK /\ CuesOK /\ BooksOK
  BY <1>1 DEF BookInv, FindOK
<1>4. tmpList \in Seq(Files) /\ toBeRemoved \in Seq(Names)
  BY DEF ListInv, TypeOK
<1>5. ASSUME Kept, NEW p \in 1 .. Len(tmpList)
      PROVE  tmpList[p].dir \in searched /\ ToMeet(p)'
  <2>1. tmpList[p] \in Range(tmpList) /\ 1 <= p
    BY <1>4, RangeIs
  <2>2. /\ tmpList[p].dir \in searched
        /\ InACue(tmpList[p]) => Name(tmpList[p]) \in Range(toBeRemoved)
    BY <1>1, <1>3, <1>5, <2>1, EmptyRange DEF CuesOK
  <2>3. InACue(tmpList[p]) =>
          \E k \in 1 .. Len(toBeRemoved) : toBeRemoved[k] = Name(tmpList[p])
    BY <1>4, <2>2, RangeIs
  <2> QED
    BY <1>1, <1>2, <2>1, <2>2, <2>3 DEF ToMeet, Name
<1>6. NamesOK'
  BY <1>1, <1>2, <1>3 DEF NamesOK, Name
<1>7. StripOK'
  BY <1>1, <1>2, <1>3, <1>5, <1>6 DEF StripOK, FoundOK, BooksOK, Kept
<1>8. GamesOK'
  BY <1>1, <1>2 DEF BookInv, GamesOK
<1> QED
  BY <1>1, <1>7, <1>8 DEF BookInv, FindOK, FinalOK, IdleOK

LEMMA StripFileBook == ASSUME ListInv, BookInv, Plain, StripFile PROVE BookInv'
<1>1. /\ UNCHANGED <<disk, phase, stopSearching, recursive, toBeRemoved, i, gGame, searched>>
      /\ phase = "strip" /\ i <= Len(toBeRemoved) /\ j < Len(tmpList) /\ j' = j + 1
      /\ IF Name(tmpList[at]) = toBeRemoved[i]
         THEN tmpList' = RemoveAt(tmpList, at) /\ UNCHANGED at
         ELSE UNCHANGED tmpList /\ at' = at + 1
  BY DEF StripFile, result
<1>2. /\ Listed' = Listed /\ Files' = Files
      /\ \A g : InACue(g)' <=> InACue(g)
      /\ \A g : Wanted(g)' <=> Wanted(g)
  BY <1>1, SameFiles
<1>3. /\ tmpList \in Seq(Files) /\ toBeRemoved \in Seq(Names)
      /\ i \in Nat \ {0} /\ j \in Nat /\ at \in Nat \ {0} /\ at <= j + 1
      /\ Len(tmpList) \in Nat /\ Len(toBeRemoved) \in Nat
  BY <1>1, LenProperties DEF ListInv, TypeOK, IteratorOK
<1>4. at \in 1 .. Len(tmpList) /\ i \in 1 .. Len(toBeRemoved)
  BY <1>1, <1>3
<1>5. /\ NamesOK
      /\ IsInjective(tmpList) /\ \A f \in Range(tmpList) : Wanted(f)
      /\ \A f \in Listed : f.dir \in searched => f \in Range(gGame) \cup Range(tmpList)
      /\ Kept => \A p \in 1 .. Len(tmpList) : tmpList[p].dir \in searched /\ ToMeet(p)
      /\ i <= Len(toBeRemoved) =>
           at = j + 1 \/ \A p \in 1 .. Len(tmpList) : Name(tmpList[p]) # toBeRemoved[i]
  BY <1>1 DEF BookInv, StripOK
<1>6. NamesOK'
  BY <1>1, <1>2, <1>5 DEF NamesOK, Name
<1>7. StripOK'
  <2>1. CASE Name(tmpList[at]) # toBeRemoved[i]
    <3>1. UNCHANGED tmpList /\ at' = at + 1
      BY <1>1, <2>1
    <3>2. ASSUME Kept, NEW p \in 1 .. Len(tmpList)
          PROVE  tmpList[p].dir \in searched /\ ToMeet(p)'
      <4>1. tmpList[p].dir \in searched /\ ToMeet(p)
        BY <1>5, <3>2
      <4>2. ASSUME NEW k \in i .. Len(toBeRemoved),
                   toBeRemoved[k] = Name(tmpList[p]), k = i => at <= p
            PROVE  k = i => at' <= p
        <5>1. k = i => p # at
          BY <2>1, <4>2
        <5> QED
          BY <1>3, <3>1, <4>2, <5>1
      <4>3. ASSUME InACue(tmpList[p])
            PROVE  \E k \in i .. Len(toBeRemoved) :
                     toBeRemoved[k] = Name(tmpList[p]) /\ (k = i => at' <= p)
        BY <4>1, <4>2, <4>3, Zenon DEF ToMeet
      <4> QED
        BY <1>1, <1>2, <3>1, <4>1, <4>3 DEF ToMeet, Name
    <3>3. at' = j' + 1 \/ \A p \in 1 .. Len(tmpList) : Name(tmpList[p]) # toBeRemoved[i]
      BY <1>1, <1>3, <1>5, <3>1
    <3> QED
      BY <1>1, <1>2, <1>5, <1>6, <3>1, <3>2, <3>3 DEF StripOK, Kept, Name
  <2>2. CASE Name(tmpList[at]) = toBeRemoved[i]
    <3> DEFINE m == Len(tmpList) - 1
               Old(p) == IF p < at THEN p ELSE p + 1
    <3>1. tmpList' = RemoveAt(tmpList, at) /\ UNCHANGED at
      BY <1>1, <2>2
    <3>2. /\ tmpList' \in Seq(Files) /\ Len(tmpList') = m
          /\ \A p \in 1 .. m : tmpList'[p] = IF p < at THEN tmpList[p] ELSE tmpList[p + 1]
      BY <1>3, <1>4, <3>1, Erased
    <3>3. /\ \A p \in 1 .. m : Old(p) \in 1 .. Len(tmpList) /\ Old(p) # at
          /\ \A p, q \in 1 .. m : Old(p) = Old(q) => p = q
          /\ \A p \in 1 .. m : at <= Old(p) => at <= p
      <4> HIDE DEF m
      <4>1. m \in Int /\ m + 1 = Len(tmpList)
        BY <1>3 DEF m
      <4>2. ASSUME NEW p \in 1 .. m
            PROVE  Old(p) \in 1 .. Len(tmpList) /\ Old(p) # at /\ (at <= Old(p) => at <= p)
        BY <1>3, <4>1
      <4>3. ASSUME NEW p \in 1 .. m, NEW q \in 1 .. m, Old(p) = Old(q)
            PROVE  p = q
        BY <1>3, <4>1, <4>3
      <4> QED
        BY <4>2, <4>3
    <3>4. \A p \in 1 .. m : tmpList'[p] = tmpList[Old(p)]
      BY <3>2
    <3> HIDE DEF m, Old
    <3>5. /\ DOMAIN tmpList' = 1 .. m /\ DOMAIN tmpList = 1 .. Len(tmpList)
          /\ \A f \in Range(tmpList') : \E p \in 1 .. m : tmpList'[p] = f
          /\ \A p \in 1 .. m : tmpList'[p] \in Range(tmpList')
      BY <1>3, <3>2, RangeIs
    <3>6. \A p \in 1 .. Len(tmpList) : tmpList[p] \in Files /\ tmpList[p] \in Range(tmpList)
      BY <1>3, RangeIs
    <3>7. IsInjective(tmpList')
      <4>1. ASSUME NEW p \in 1 .. m, NEW q \in 1 .. m, tmpList'[p] = tmpList'[q]
            PROVE  p = q
        <5>1. tmpList[Old(p)] = tmpList[Old(q)]
          BY <3>4, <4>1
        <5>2. Old(p) = Old(q)
          BY <1>5, <3>3, <3>5, <5>1 DEF IsInjective
        <5> QED
          BY <3>3, <5>2
      <4> QED
        BY <3>5, <4>1 DEF IsInjective
    <3>8. \A f \in Range(tmpList') : f \in Range(tmpList)
      BY <3>3, <3>4, <3>5, <3>6
\* Of the files only the one at the iterator is gone, and that one is not to be listed.
    <3>9. ASSUME NEW f \in Range(tmpList), f # tmpList[at]
          PROVE  f \in Range(tmpList')
      <4>1. PICK q \in 1 .. Len(tmpList) : tmpList[q] = f
        BY <1>3, RangeIs
      <4>2. \E p \in 1 .. m : Old(p) = q
        <5>1. q # at /\ m = Len(tmpList) - 1
          BY <3>9, <4>1 DEF m
        <5>2. CASE q < at
          <6>1. q \in 1 .. m /\ Old(q) = q
            BY <1>3, <1>4, <5>1, <5>2 DEF Old
          <6> QED
            BY <6>1
        <5>3. CASE q > at
          <6>1. q - 1 \in 1 .. m /\ ~(q - 1 < at) /\ (q - 1) + 1 = q
            BY <1>3, <1>4, <5>1, <5>3
          <6>2. Old(q - 1) = q
            BY <6>1 DEF Old
          <6> QED
            BY <6>1, <6>2
        <5> QED
          BY <1>3, <5>1, <5>2, <5>3
      <4> QED
        BY <3>4, <3>5, <4>1, <4>2
    <3>10. InACue(tmpList[at])
      <4>1. toBeRemoved[i] \in Range(toBeRemoved)
        BY <1>3, <1>4, RangeIs
      <4> QED
        BY <1>4, <1>5, <2>2, <3>6, <4>1 DEF NamesOK
    <3>11. ASSUME NEW f \in Listed, f.dir \in searched
           PROVE  f \in Range(gGame) \cup Range(tmpList')
      BY <1>5, <3>9, <3>10, <3>11, ListedIs
    <3>12. ASSUME NEW p \in 1 .. m
           PROVE  Name(tmpList'[p]) # toBeRemoved[i]
      <4>1. tmpList[Old(p)] # tmpList[at]
        BY <1>4, <1>5, <3>3, <3>5 DEF IsInjective
      <4>2. Name(tmpList[Old(p)]) # Name(tmpList[at])
        BY <1>4, <3>3, <3>6, <4>1 DEF Plain
      <4> QED
        BY <2>2, <3>4, <4>2
    <3>13. ASSUME Kept, NEW p \in 1 .. m
           PROVE  tmpList'[p].dir \in searched /\ ToMeet(p)'
      <4>1. tmpList[Old(p)].dir \in searched /\ ToMeet(Old(p))
        BY <1>5, <3>3, <3>13
      <4>2. tmpList'[p] = tmpList[Old(p)] /\ (at <= Old(p) => at <= p)
        BY <3>3, <3>4
      <4>3. ASSUME InACue(tmpList[Old(p)])
            PROVE  \E k \in i .. Len(toBeRemoved) :
                     toBeRemoved[k] = Name(tmpList[Old(p)]) /\ (k = i => at <= p)
        BY <4>1, <4>2, <4>3, Zenon DEF ToMeet
      <4> QED
        BY <1>1, <1>2, <3>1, <4>1, <4>2, <4>3 DEF ToMeet, Name
    <3> QED
      BY <1>1, <1>2, <1>5, <1>6, <3>2, <3>7, <3>8, <3>11, <3>12, <3>13
         DEF StripOK, Kept, Name
  <2> QED
    BY <2>1, <2>2
<1>8. GamesOK'
  BY <1>1, <1>2 DEF BookInv, GamesOK
<1> QED
  BY <1>1, <1>7, <1>8 DEF BookInv, FindOK, FinalOK, IdleOK

LEMMA StripNextBook == ASSUME ListInv, BookInv, Plain, StripNext PROVE BookInv'
<1>1. /\ UNCHANGED <<disk, phase, stopSearching, recursive, tmpList, toBeRemoved, gGame,
                     searched>>
      /\ phase = "strip" /\ i <= Len(toBeRemoved) /\ ~(j < Len(tmpList))
      /\ i' = i + 1 /\ j' = 0 /\ at' = 1
  <2>1. Len(tmpList) \in Nat /\ j \in Nat
    BY LenProperties DEF ListInv, TypeOK
  <2> QED
    BY <2>1 DEF StripNext, lists, result
<1>2. /\ Listed' = Listed /\ Files' = Files
      /\ \A g : InACue(g)' <=> InACue(g)
      /\ \A g : Wanted(g)' <=> Wanted(g)
  BY <1>1, SameFiles
<1>3. /\ i \in Nat /\ j \in Nat /\ Len(tmpList) \in Nat /\ Len(toBeRemoved) \in Nat
  BY LenProperties DEF ListInv, TypeOK
<1>4. /\ NamesOK
      /\ IsInjective(tmpList) /\ \A f \in Range(tmpList) : Wanted(f)
      /\ \A f \in Listed : f.dir \in searched => f \in Range(gGame) \cup Range(tmpList)
      /\ Kept => \A p \in 1 .. Len(tmpList) : tmpList[p].dir \in searched /\ ToMeet(p)
      /\ at = j + 1 \/ \A p \in 1 .. Len(tmpList) : Name(tmpList[p]) # toBeRemoved[i]
  BY <1>1 DEF BookInv, StripOK
\* The name just looked for is on no file of the list any more.
<1>5. ASSUME Kept, NEW p \in 1 .. Len(tmpList)
      PROVE  tmpList[p].dir \in searched /\ ToMeet(p)'
  <2>1. tmpList[p].dir \in searched /\ ToMeet(p) /\ 1 <= p /\ p <= Len(tmpList)
    BY <1>4, <1>5
  <2>2. ASSUME NEW k \in i .. Len(toBeRemoved),
               toBeRemoved[k] = Name(tmpList[p]), k = i => at <= p
        PROVE  k \in i + 1 .. Len(toBeRemoved)
    <3>1. k # i
      BY <1>1, <1>3, <1>4, <2>1, <2>2
    <3> QED
      BY <1>3, <3>1
  <2>3. ASSUME InACue(tmpList[p])
        PROVE  \E k \in i + 1 .. Len(toBeRemoved) : toBeRemoved[k] = Name(tmpList[p])
    BY <2>1, <2>2, <2>3, Zenon DEF ToMeet
  <2> QED
    BY <1>1, <1>2, <2>1, <2>3 DEF ToMeet, Name
<1>6. NamesOK'
  BY <1>1, <1>2, <1>4 DEF NamesOK, Name
<1>7. StripOK'
  BY <1>1, <1>2, <1>4, <1>5, <1>6 DEF StripOK, Kept
<1>8. GamesOK'
  BY <1>1, <1>2 DEF BookInv, GamesOK
<1> QED
  BY <1>1, <1>7, <1>8 DEF BookInv, FindOK, FinalOK, IdleOK

LEMMA StrippedBook == ASSUME ListInv, BookInv, Plain, Stripped PROVE BookInv'
<1>1. /\ UNCHANGED <<disk, stopSearching, recursive, tmpList, toBeRemoved, gGame, searched>>
      /\ phase = "strip" /\ i > Len(toBeRemoved) /\ phase' = "finalize" /\ i' = 1
  BY DEF Stripped, lists, result
<1>2. Listed' = Listed
  BY <1>1, SameFiles
<1>3. tmpList \in Seq(Files) /\ i \in Nat /\ Len(toBeRemoved) \in Nat
  BY LenProperties DEF ListInv, TypeOK
<1>4. /\ \A f \in Range(tmpList) : Wanted(f)
      /\ \A f \in Listed : f.dir \in searched => f \in Range(gGame) \cup Range(tmpList)
      /\ Kept => \A p \in 1 .. Len(tmpList) : tmpList[p].dir \in searched /\ ToMeet(p)
  BY <1>1 DEF BookInv, StripOK
<1>5. ASSUME Kept, NEW f \in Range(tmpList)
      PROVE  f \in Listed /\ f.dir \in searched
  <2>1. PICK p \in 1 .. Len(tmpList) : tmpList[p] = f
    BY <1>3, RangeIs
  <2>2. i .. Len(toBeRemoved) = {}
    BY <1>1, <1>3
  <2>3. f.dir \in searched /\ ~InACue(f)
    BY <1>4, <1>5, <2>1, <2>2 DEF ToMeet
  <2> QED
    BY <1>4, <2>3, ListedIs
<1>6. ASSUME NEW f \in Listed, f.dir \in searched
      PROVE  f \in Range(gGame) \/ \E p \in 1 .. Len(tmpList) : tmpList[p] = f
  BY <1>3, <1>4, <1>6, RangeIs
<1>7. FinalOK'
  BY <1>1, <1>2, <1>5, <1>6 DEF FinalOK, Kept
<1>8. GamesOK'
  BY <1>1, <1>2 DEF BookInv, GamesOK
<1> QED
  BY <1>1, <1>7, <1>8 DEF BookInv, FindOK, StripOK, IdleOK

LEMMA FinalizeFileBook == ASSUME ListInv, BookInv, Plain, FinalizeFile PROVE BookInv'
<1>1. /\ UNCHANGED <<disk, phase, stopSearching, recursive, tmpList, searched>>
      /\ phase = "finalize" /\ i <= Len(tmpList) /\ i' = i + 1
      /\ gGame' = IF tmpList[i] \in Range(gGame) THEN gGame ELSE Append(gGame, tmpList[i])
  BY DEF FinalizeFile, lists
<1>2. Listed' = Listed
  BY <1>1, SameFiles
<1>3. /\ tmpList \in Seq(Files) /\ gGame \in Seq(Files)
      /\ i \in Nat \ {0} /\ Len(tmpList) \in Nat
  BY LenProperties DEF ListInv, TypeOK
<1>4. i \in 1 .. Len(tmpList) /\ tmpList[i] \in Files /\ tmpList[i] \in Range(tmpList)
  <2>1. i \in 1 .. Len(tmpList)
    BY <1>1, <1>3
  <2> QED
    BY <1>3, <2>1, RangeIs
<1>5. Range(gGame') = Range(gGame) \cup {tmpList[i]}
  <2>1. Range(Append(gGame, tmpList[i])) = Range(gGame) \cup {tmpList[i]}
    BY <1>3, <1>4, Appended
  <2> QED
    BY <1>1, <2>1
<1>6. /\ \A f \in Listed : f.dir \in searched =>
           f \in Range(gGame) \/ \E p \in i .. Len(tmpList) : tmpList[p] = f
      /\ Kept => \A f \in Range(tmpList) : f \in Listed /\ f.dir \in searched
  BY <1>1 DEF BookInv, FinalOK
<1>7. ASSUME NEW f \in Listed, f.dir \in searched
      PROVE  f \in Range(gGame') \/ \E p \in i + 1 .. Len(tmpList) : tmpList[p] = f
  <2>1. ASSUME NEW p \in i .. Len(tmpList), p # i
        PROVE  p \in i + 1 .. Len(tmpList)
    BY <1>3, <2>1
  <2> QED
    BY <1>5, <1>6, <1>7, <2>1
<1>8. FinalOK'
  BY <1>1, <1>2, <1>6, <1>7 DEF FinalOK, Kept
<1>9. GamesOK'
  BY <1>1, <1>2, <1>4, <1>5, <1>6 DEF BookInv, GamesOK, Kept
<1> QED
  BY <1>1, <1>8, <1>9 DEF BookInv, FindOK, StripOK, IdleOK

LEMMA FinalizedBook == ASSUME ListInv, BookInv, Plain, Finalized PROVE BookInv'
<1>1. /\ UNCHANGED <<disk, stopSearching, recursive>>
      /\ phase = "finalize" /\ i > Len(tmpList) /\ phase' = "idle"
      /\ IF stopSearching /\ recursive
         THEN gGame' = <<>> /\ searched' = {}
         ELSE UNCHANGED <<gGame, searched>>
  BY DEF Finalized, lists, loops
<1>2. Listed' = Listed
  BY <1>1, SameFiles
<1>3. i .. Len(tmpList) = {}
  <2>1. Len(tmpList) \in Nat /\ i \in Nat
    BY LenProperties DEF ListInv, TypeOK
  <2> QED
    BY <1>1, <2>1
<1>4. GamesOK' /\ IdleOK'
  <2>1. CASE stopSearching /\ recursive
    BY <1>1, <2>1, EmptyRange DEF GamesOK, IdleOK
  <2>2. CASE ~(stopSearching /\ recursive)
    BY <1>1, <1>2, <1>3, <2>2 DEF BookInv, GamesOK, IdleOK, FinalOK, Kept
  <2> QED
    BY <2>1, <2>2
<1> QED
  BY <1>1, <1>4 DEF BookInv, FindOK, StripOK, FinalOK

LEMMA StepBook == ListInv /\ BookInv /\ [Next]_vars => BookInv'
<1> SUFFICES ASSUME ListInv, BookInv, [Next]_vars PROVE BookInv'
  OBVIOUS
<1>1. disk' = disk
  <2>1. \A dir, all : Search(dir, all) => disk' = disk
    BY DEF Search
  <2>2. \A dir : OpenDirectory(dir) => disk' = disk
    BY DEF OpenDirectory
  <2>3. \A f : ReadFile(f) => disk' = disk
    BY DEF ReadFile
  <2>4. CloseDirectory \/ AllFilesFound \/ resetSearch => disk' = disk
    BY DEF CloseDirectory, AllFilesFound, resetSearch
  <2>5. StripFile \/ StripNext \/ Stripped => disk' = disk
    BY DEF StripFile, StripNext, Stripped
  <2>6. FinalizeFile \/ Finalized => disk' = disk
    BY DEF FinalizeFile, Finalized
  <2>7. UNCHANGED vars => disk' = disk
    BY DEF vars
  <2>8. CASE Next
    <3>1. findAllFiles => disk' = disk
      BY <2>2, <2>3, <2>4 DEF findAllFiles
    <3>2. stripList \/ finalizeList => disk' = disk
      BY <2>5, <2>6 DEF stripList, finalizeList
    <3>3. (\E dir \in Subdirs \cup {Root}, all \in BOOLEAN : Search(dir, all)) => disk' = disk
      BY <2>1
    <3> QED
      BY <2>4, <2>8, <3>1, <3>2, <3>3 DEF Next, buildGameList
  <2> QED
    BY <2>7, <2>8
<1>2. Plain' <=> Plain
  BY <1>1, SameFiles
<1> SUFFICES ASSUME Plain PROVE BookInv'
  BY <1>2 DEF BookInv
<1>3. CASE UNCHANGED vars
  <2>1. UNCHANGED <<disk, phase, open, stopSearching, recursive, tmpList, toBeRemoved, i, j, at,
                    gGame, searched>>
    BY <1>3 DEF vars, lists, loops, result
  <2>2. /\ Listed' = Listed /\ Games' = Games /\ Files' = Files
        /\ \A d : FilesIn(d)' = FilesIn(d)
        /\ \A g : InACue(g)' <=> InACue(g)
        /\ \A g : Wanted(g)' <=> Wanted(g)
        /\ \A g : ValidCue(g)' <=> ValidCue(g)
    BY <2>1, SameFiles
  <2>3. FindOK' /\ StripOK'
    <3>1. OpenOK => OpenOK'
      BY <2>1, <2>2 DEF OpenOK
    <3>2. FoundOK => FoundOK'
      BY <2>1, <2>2 DEF FoundOK
    <3>3. NamesOK => NamesOK'
      BY <2>1, <2>2 DEF NamesOK, Name
    <3>4. CuesOK => CuesOK'
      BY <2>1, <2>2 DEF CuesOK, Kept, Name
    <3>5. BooksOK => BooksOK'
      BY <2>1, <2>2 DEF BooksOK
    <3>6. \A p \in 1 .. Len(tmpList) : ToMeet(p) => ToMeet(p)'
      BY <2>1, <2>2 DEF ToMeet, Name
    <3>7. FindOK'
      BY <2>1, <3>1, <3>2, <3>3, <3>4, <3>5 DEF BookInv, FindOK
    <3>8. StripOK'
      BY <2>1, <2>2, <3>3, <3>6 DEF BookInv, StripOK, Kept, Name
    <3> QED
      BY <3>7, <3>8
  <2>4. FinalOK' /\ GamesOK' /\ IdleOK'
    BY <2>1, <2>2 DEF BookInv, FinalOK, GamesOK, IdleOK, Kept
  <2> QED
    BY <2>3, <2>4 DEF BookInv
<1>4. CASE \E dir \in Subdirs \cup {Root}, all \in BOOLEAN : Search(dir, all)
  BY <1>4, SearchBook
<1>5. CASE findAllFiles
  BY <1>5, OpenBook, ReadBook, CloseBook, FoundBook DEF findAllFiles
<1>6. CASE stripList \/ finalizeList \/ resetSearch
  BY <1>6, StripFileBook, StripNextBook, StrippedBook, FinalizeFileBook, FinalizedBook, ResetBook
     DEF stripList, finalizeList
<1> QED
  BY <1>3, <1>4, <1>5, <1>6 DEF Next, buildGameList

\* On a plain disk of any size, whatever readdir returns first and whichever searches were
\* stopped, the list holds exactly the games of the directories that were read: what a
\* valid cue file stands for is removed although the loop of stripList ends early.
THEOREM SearchCorrect == Spec => []SearchFindsTheGames
<1>1. Init => ListInv /\ BookInv
  BY InitList, InitBook
<1>2. (ListInv /\ BookInv) /\ [Next]_vars => (ListInv /\ BookInv)'
  BY StepList, StepBook
<1>3. BookInv => SearchFindsTheGames
  <2>1. ASSUME BookInv, phase = "idle", Plain
        PROVE  Range(gGame) = {f \in Listed : f.dir \in searched}
    BY <2>1 DEF BookInv, GamesOK, IdleOK
  <2> QED
    BY <2>1 DEF SearchFindsTheGames
<1> QED
  BY <1>1, <1>2, <1>3, PTL DEF Spec

=============================================================================

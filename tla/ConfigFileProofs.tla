-------------------------- MODULE ConfigFileProofs --------------------------
(***************************************************************************)
(* Theorems about ConfigFile, for any number of directories, settings      *)
(* screens and faults.                                                     *)
(***************************************************************************)
EXTENDS ConfigFile, SequenceTheorems, TLAPS

(* The inductive invariant, in parts.                                      *)

Entries == [dir : Dirs \cup {Template}, slash : BOOLEAN]
Files   == [head : BOOLEAN, theme : Themes \cup {None, "missing"},
            last : Places \cup {None}, dirs : Seq(Entries)]
Copies  == [head : BOOLEAN, theme : Themes \cup {None},
            last : Places \cup {None}, dirs : Seq(Entries)]

\* The file, what a settings screen remembers of it, and what runs.
FileOK ==
  /\ file \in Files
  /\ phase # "off" => file.theme # "missing"
  /\ file.theme = "missing" => file = Missing
  /\ settings \in Seq(Copies) /\ Len(settings) <= MaxSettings
  /\ phase \in {"off", "load", "games", "screens", "shutdown"}
  /\ settings # <<>> => phase \in {"screens", "shutdown"}
  /\ mounted \subseteq Dirs /\ linesRead \in Nat
  /\ phase # "load" => linesRead = 0

Running == {"games", "screens", "shutdown"}

\* The directories the user can count on.
Due == wanted \cap Excused("none")

\* The directories that are searched, and those the user has asked for.
DirsOK ==
  /\ gSearchDirectoriesGames \in Seq(Dirs)
  /\ NoDirectoryTwice /\ SearchedDirectoriesAreOnFile
  /\ phase = "off" => gSearchDirectoriesGames = <<>>
  /\ Range(gSearchDirectoriesGames) \subseteq wanted
  /\ wanted \subseteq Dirs /\ excuse \in [Dirs -> Excuses]
  /\ phase \in Running => Due \subseteq Range(gSearchDirectoriesGames)
  /\ phase = "load" => Due \subseteq Range(gSearchDirectoriesGames) \cup LinesLeft
  /\ DirectoriesAreKept

\* The theme is on file, or in memory while it can still be written.
ThemeOK ==
  /\ gTheme \in Themes /\ chosen \in Themes \cup {None}
  /\ chosen # None => IF settings = <<>> THEN file.theme = chosen ELSE gTheme = chosen

\* The directory of the main screen is on file when its destructor was the last to write.
PathOK ==
  /\ lastGamePath \in Places \cup {None} /\ stale \in BOOLEAN
  /\ phase \in {"off", "load"} => lastGamePath = None
  /\ phase = "shutdown" /\ ~stale => settings = <<>> /\ file.last = lastGamePath
  /\ LastPathIsKept

Inv == FileOK /\ DirsOK /\ ThemeOK /\ PathOK

-----------------------------------------------------------------------------
(* Sequences.                                                              *)

LEMMA RangeIs ==
  ASSUME NEW S, NEW s \in Seq(S)
  PROVE  /\ DOMAIN s = 1 .. Len(s) /\ Len(s) \in Nat
         /\ Range(s) = {s[i] : i \in 1 .. Len(s)} /\ Range(s) \subseteq S
         /\ s # <<>> => Len(s) >= 1
  BY LenProperties, ElementOfSeq, EmptySeq DEF Range

LEMMA Appended ==
  ASSUME NEW S, NEW s \in Seq(S), NEW x \in S
  PROVE  /\ Append(s, x) \in Seq(S) /\ Range(Append(s, x)) = Range(s) \cup {x}
         /\ IsInjective(s) /\ x \notin Range(s) => IsInjective(Append(s, x))
<1> DEFINE t == Append(s, x)
<1>1. /\ t \in Seq(S) /\ Len(t) = Len(s) + 1 /\ Len(s) \in Nat
      /\ \A i \in 1 .. Len(s) : t[i] = s[i]
      /\ t[Len(s) + 1] = x
  BY AppendProperties, LenProperties
<1>2. DOMAIN t = 1 .. Len(t) /\ DOMAIN s = 1 .. Len(s)
  BY <1>1, RangeIs
<1> HIDE DEF t
<1>3. Range(t) = Range(s) \cup {x}
  <2>1. ASSUME NEW i \in DOMAIN t
        PROVE  t[i] \in Range(s) \cup {x}
    BY <1>1, <1>2 DEF Range
  <2>2. ASSUME NEW i \in DOMAIN s
        PROVE  s[i] \in Range(t)
    BY <1>1, <1>2 DEF Range
  <2>3. x \in Range(t)
    BY <1>1, <1>2 DEF Range
  <2> QED
    BY <2>1, <2>2, <2>3 DEF Range
<1>4. ASSUME IsInjective(s), x \notin Range(s)
      PROVE  IsInjective(t)
  BY <1>1, <1>2, <1>4 DEF IsInjective, Range
<1> QED
  BY <1>1, <1>3, <1>4 DEF t

\* A place behind i, counted from i.
LEMMA Shifted ==
  ASSUME NEW k \in Int, NEW i \in Int, NEW n \in Int, k >= i, k <= n - 1
  PROVE  k - (i - 1) \in 1 .. n - i /\ i + (k - (i - 1)) = k + 1 /\ ~(k < i)
  OBVIOUS

LEMMA Removed ==
  ASSUME NEW S, NEW s \in Seq(S), NEW i \in DOMAIN s, IsInjective(s)
  PROVE  /\ RemoveAt(s, i) \in Seq(S) /\ IsInjective(RemoveAt(s, i))
         /\ Range(RemoveAt(s, i)) = Range(s) \ {s[i]}
<1> DEFINE a == SubSeq(s, 1, i - 1)
           b == SubSeq(s, i + 1, Len(s))
           t == RemoveAt(s, i)
<1>1. Len(s) \in Nat /\ DOMAIN s = 1 .. Len(s) /\ i \in 1 .. Len(s)
  BY RangeIs
<1>2. /\ a \in Seq(S) /\ Len(a) = i - 1
      /\ \A k \in 1 .. i - 1 : a[k] = s[k]
  <2>1. \A k \in 1 .. i - 1 : s[k] \in S
    BY <1>1, ElementOfSeq
  <2>2. /\ a \in Seq(S)
        /\ Len(a) = IF 1 <= i - 1 THEN i - 1 - 1 + 1 ELSE 0
        /\ \A k \in 1 .. i - 1 - 1 + 1 : a[k] = s[1 + k - 1]
    BY <1>1, <2>1, SubSeqProperties
  <2> HIDE DEF a
  <2> QED
    BY <1>1, <2>2
<1>3. /\ b \in Seq(S) /\ Len(b) = Len(s) - i
      /\ \A k \in 1 .. Len(s) - i : b[k] = s[i + k]
  <2>1. \A k \in i + 1 .. Len(s) : s[k] \in S
    BY <1>1, ElementOfSeq
  <2>2. /\ b \in Seq(S)
        /\ Len(b) = IF i + 1 <= Len(s) THEN Len(s) - (i + 1) + 1 ELSE 0
        /\ \A k \in 1 .. Len(s) - (i + 1) + 1 : b[k] = s[i + 1 + k - 1]
    BY <1>1, <2>1, SubSeqProperties
  <2> HIDE DEF b
  <2>3. Len(b) = Len(s) - i
    BY <1>1, <2>2
  <2>4. ASSUME NEW k \in 1 .. Len(s) - i
        PROVE  b[k] = s[i + k]
    <3>1. k \in 1 .. Len(s) - (i + 1) + 1 /\ i + 1 + k - 1 = i + k
      BY <1>1
    <3> QED
      BY <2>2, <3>1
  <2> QED
    BY <2>2, <2>3, <2>4
<1>4. t = a \o b
  BY DEF RemoveAt
<1> HIDE DEF a, b, t
<1>5. /\ t \in Seq(S) /\ Len(t) = Len(s) - 1 /\ DOMAIN t = 1 .. Len(t)
      /\ \A k \in 1 .. Len(t) : t[k] = IF k < i THEN s[k] ELSE s[k + 1]
  <2>1. /\ t \in Seq(S) /\ Len(t) = Len(a) + Len(b)
        /\ \A k \in 1 .. Len(a) + Len(b) :
             t[k] = IF k <= Len(a) THEN a[k] ELSE b[k - Len(a)]
    BY <1>2, <1>3, <1>4, ConcatProperties
  <2>2. Len(t) = Len(s) - 1 /\ DOMAIN t = 1 .. Len(t)
    BY <1>1, <1>2, <1>3, <2>1, RangeIs
  <2>3. ASSUME NEW k \in 1 .. Len(t)
        PROVE  t[k] = IF k < i THEN s[k] ELSE s[k + 1]
    <3>1. CASE k < i
      <4>1. k \in 1 .. i - 1 /\ k \in 1 .. Len(a) + Len(b) /\ k <= Len(a)
        BY <1>1, <1>2, <1>3, <2>2, <3>1
      <4> QED
        BY <1>2, <2>1, <3>1, <4>1
    <3>2. CASE k >= i
      <4>1. /\ k \in 1 .. Len(s) - 1 /\ i \in Int /\ Len(s) \in Int
            /\ Len(a) = i - 1 /\ Len(b) = Len(s) - i
        BY <1>1, <1>2, <1>3, <2>2
      <4>2. k - (i - 1) \in 1 .. Len(s) - i
        BY <3>2, <4>1, Shifted
      <4>3. k \in 1 .. Len(a) + Len(b) /\ ~(k <= Len(a))
        BY <3>2, <4>1
      <4>4. t[k] = b[k - Len(a)]
        BY <2>1, <4>3
      <4>5. b[k - (i - 1)] = s[i + (k - (i - 1))]
        BY <1>3, <4>2
      <4>6. i + (k - (i - 1)) = k + 1 /\ ~(k < i)
        BY <3>2, <4>1, Shifted
      <4> QED
        BY <4>1, <4>4, <4>5, <4>6
    <3> QED
      BY <1>1, <2>2, <3>1, <3>2
  <2> QED
    BY <2>1, <2>2, <2>3
<1> DEFINE Old(k) == IF k < i THEN k ELSE k + 1
<1>6. /\ \A k \in 1 .. Len(t) : Old(k) \in 1 .. Len(s) /\ Old(k) # i /\ t[k] = s[Old(k)]
      /\ \A k, j \in 1 .. Len(t) : Old(k) = Old(j) => k = j
  <2>1. ASSUME NEW k \in 1 .. Len(t)
        PROVE  Old(k) \in 1 .. Len(s) /\ Old(k) # i /\ t[k] = s[Old(k)]
    <3>1. k \in Nat /\ i \in Nat /\ k >= 1 /\ k + 1 <= Len(s)
      BY <1>1, <1>5
    <3>2. Old(k) \in 1 .. Len(s) /\ Old(k) # i
      BY <1>1, <3>1
    <3> QED
      BY <1>5, <3>2
  <2>2. ASSUME NEW k \in 1 .. Len(t), NEW j \in 1 .. Len(t), Old(k) = Old(j)
        PROVE  k = j
    BY <1>1, <1>5, <2>2
  <2> QED
    BY <2>1, <2>2
<1> HIDE DEF Old
<1>7. \A k, j \in 1 .. Len(s) : s[k] = s[j] => k = j
  BY <1>1 DEF IsInjective
<1>8. IsInjective(t)
  <2>1. ASSUME NEW k \in 1 .. Len(t), NEW j \in 1 .. Len(t), t[k] = t[j]
        PROVE  k = j
    <3>1. s[Old(k)] = s[Old(j)]
      BY <1>6, <2>1
    <3>2. Old(k) = Old(j)
      BY <1>6, <1>7, <3>1
    <3> QED
      BY <1>6, <3>2
  <2> QED
    BY <1>5, <2>1 DEF IsInjective
<1>9. ASSUME NEW k \in 1 .. Len(t)
      PROVE  t[k] \in Range(s) \ {s[i]}
  <2>1. t[k] = s[Old(k)] /\ Old(k) \in 1 .. Len(s) /\ Old(k) # i
    BY <1>6
  <2>2. s[Old(k)] # s[i]
    BY <1>1, <1>7, <2>1
  <2> QED
    BY <1>1, <2>1, <2>2 DEF Range
<1>10. ASSUME NEW j \in 1 .. Len(s), s[j] # s[i]
      PROVE  \E k \in 1 .. Len(t) : s[j] = t[k]
  <2>1. CASE j < i
    BY <1>1, <1>5, <2>1
  <2>2. CASE j > i
    <3>1. j - 1 \in 1 .. Len(t) /\ t[j - 1] = s[j]
      BY <1>1, <1>5, <2>2
    <3> QED
      BY <3>1
  <2> QED
    BY <1>1, <1>10, <2>1, <2>2
<1>11. Range(t) = Range(s) \ {s[i]}
  <2>1. Range(t) = {t[k] : k \in 1 .. Len(t)} /\ Range(s) = {s[j] : j \in 1 .. Len(s)}
    BY <1>1, <1>5 DEF Range
  <2>2. Range(t) \subseteq Range(s) \ {s[i]}
    BY <1>9, <2>1
  <2>3. Range(s) \ {s[i]} \subseteq Range(t)
    BY <1>10, <2>1
  <2> QED
    BY <2>2, <2>3
<1> QED
  BY <1>5, <1>8, <1>11 DEF t

\* setPathToGames takes a directory once.
LEMMA SetPath ==
  ASSUME NEW s \in Seq(Dirs), NEW dir, IsInjective(s), mounted \subseteq Dirs
  PROVE  /\ setPathToGames(s, dir) \in Seq(Dirs) /\ IsInjective(setPathToGames(s, dir))
         /\ Range(setPathToGames(s, dir)) \subseteq Range(s) \cup ({dir} \cap Dirs)
         /\ Range(s) \subseteq Range(setPathToGames(s, dir))
<1>1. CASE dir \in Range(s) \/ dir \notin mounted
  BY <1>1 DEF setPathToGames
<1>2. CASE dir \notin Range(s) /\ dir \in mounted
  BY <1>2, Appended DEF setPathToGames
<1> QED
  BY <1>1, <1>2

-----------------------------------------------------------------------------
(* The file.                                                               *)

DirsOf(f) == {line.dir : line \in Range(f.dirs)}

LEMMA DirsOfFile == FileDirs = DirsOf(file)
  BY DEF FileDirs, DirsOf

\* What a settings screen writes.
LEMMA SavedFile ==
  ASSUME Inv, NEW copy \in Copies
  PROVE  /\ Saved(copy) \in Files /\ Saved(copy).theme = gTheme
         /\ Saved(copy).last = copy.last
         /\ DirsOf(Saved(copy)) = Range(gSearchDirectoriesGames)
<1> DEFINE g == gSearchDirectoriesGames
           lines == [i \in DOMAIN g |-> Line(g[i], TRUE)]
<1>1. g \in Seq(Dirs) /\ DOMAIN g = 1 .. Len(g) /\ Len(g) \in Nat
      /\ \A i \in 1 .. Len(g) : g[i] \in Dirs
  BY RangeIs, ElementOfSeq DEF Inv, DirsOK
<1>2. \A i \in 1 .. Len(g) : Line(g[i], TRUE) \in Entries
  BY <1>1 DEF Line, Entries
<1>3. lines \in Seq(Entries)
  <2>1. lines = [i \in 1 .. Len(g) |-> Line(g[i], TRUE)]
    BY <1>1
  <2>2. [i \in 1 .. Len(g) |-> Line(g[i], TRUE)] \in [1 .. Len(g) -> Entries]
    BY <1>2
  <2> QED
    BY <1>1, <2>1, <2>2, SeqDef
<1>4. DOMAIN lines = DOMAIN g
  OBVIOUS
<1>5. \A i \in DOMAIN g : lines[i].dir = g[i]
  BY DEF Line
<1>6. Saved(copy) = [copy EXCEPT !.theme = gTheme, !.dirs = lines]
  BY DEF Saved
<1> HIDE DEF lines
<1>7. Saved(copy) \in Files /\ Saved(copy).theme = gTheme /\ Saved(copy).last = copy.last
      /\ Saved(copy).dirs = lines
  BY <1>3, <1>6 DEF Copies, Files, Inv, ThemeOK
<1>8. DirsOf(Saved(copy)) = Range(g)
  <2> HIDE DEF g
  <2>1. DirsOf(Saved(copy)) = {line.dir : line \in Range(lines)}
    BY <1>7 DEF DirsOf
  <2>2. Range(lines) = {lines[i] : i \in DOMAIN g}
    BY <1>4 DEF Range
  <2>3. Range(g) = {g[i] : i \in DOMAIN g}
    BY DEF Range
  <2>4. ASSUME NEW dir \in DirsOf(Saved(copy))
        PROVE  dir \in Range(g)
    <3>1. PICK line \in Range(lines) : dir = line.dir
      BY <2>1
    <3>2. PICK i \in DOMAIN g : line = lines[i]
      BY <2>2
    <3> QED
      BY <1>5, <2>3, <3>1, <3>2
  <2>5. ASSUME NEW i \in DOMAIN g
        PROVE  g[i] \in DirsOf(Saved(copy))
    <3>1. lines[i] \in Range(lines) /\ lines[i].dir = g[i]
      BY <1>5, <2>2
    <3> QED
      BY <2>1, <3>1
  <2> QED
    BY <2>3, <2>4, <2>5
<1> QED
  BY <1>7, <1>8

\* A line behind the others.
LEMMA AddedLine ==
  ASSUME file \in Files, NEW dir \in Dirs, NEW slash \in BOOLEAN
  PROVE  LET f == [file EXCEPT !.dirs = Append(@, Line(dir, slash))]
         IN  /\ f \in Files /\ f.theme = file.theme /\ f.last = file.last
             /\ DirsOf(f) = DirsOf(file) \cup {dir}
<1> DEFINE f == [file EXCEPT !.dirs = Append(@, Line(dir, slash))]
<1>1. Line(dir, slash) \in Entries /\ Line(dir, slash).dir = dir
  BY DEF Line, Entries
<1>2. /\ Append(file.dirs, Line(dir, slash)) \in Seq(Entries)
      /\ Range(Append(file.dirs, Line(dir, slash))) = Range(file.dirs) \cup {Line(dir, slash)}
  BY <1>1, Appended DEF Files
<1>3. /\ f \in Files /\ f.theme = file.theme /\ f.last = file.last
      /\ f.dirs = Append(file.dirs, Line(dir, slash))
  BY <1>2 DEF Files
<1> HIDE DEF f
<1>4. DirsOf(f) = DirsOf(file) \cup {dir}
  BY <1>1, <1>2, <1>3 DEF DirsOf
<1> QED
  BY <1>3, <1>4 DEF f

\* The lines of a file name directories, and the template's.
LEMMA FileDirsType ==
  ASSUME NEW f \in Files
  PROVE  DirsOf(f) \subseteq Dirs \cup {Template}
<1>1. f.dirs \in Seq(Entries)
  BY DEF Files
<1>2. Range(f.dirs) \subseteq Entries
  BY <1>1, RangeIs
<1> QED
  BY <1>2 DEF DirsOf, Entries

\* The directories on the lines of f after the first n.
Left(f, n) == {f.dirs[i].dir : i \in n + 1 .. Len(f.dirs)}

LEMMA LeftOfFile == LinesLeft = Left(file, linesRead)
  BY DEF LinesLeft, Left

\* At the start all lines are left, and reading one takes one.
LEMMA LeftOf ==
  ASSUME NEW f \in Files, NEW n \in Nat
  PROVE  /\ Left(f, 0) = DirsOf(f) /\ Left(f, n) \subseteq DirsOf(f)
         /\ Left(f, n) \subseteq Left(f, n + 1) \cup {f.dirs[n + 1].dir}
<1>1. /\ f.dirs \in Seq(Entries) /\ Len(f.dirs) \in Nat
      /\ Range(f.dirs) = {f.dirs[i] : i \in 1 .. Len(f.dirs)}
  BY RangeIs DEF Files
<1>2. Left(f, 0) = DirsOf(f)
  <2>1. ASSUME NEW i \in 1 .. Len(f.dirs)
        PROVE  f.dirs[i].dir \in DirsOf(f)
    BY <1>1 DEF DirsOf
  <2>2. ASSUME NEW dir \in DirsOf(f)
        PROVE  \E i \in 1 .. Len(f.dirs) : dir = f.dirs[i].dir
    BY <1>1 DEF DirsOf
  <2>3. Left(f, 0) = {f.dirs[i].dir : i \in 1 .. Len(f.dirs)}
    BY <1>1 DEF Left
  <2> QED
    BY <2>1, <2>2, <2>3
<1>3. Left(f, n) \subseteq DirsOf(f)
  <2>1. n + 1 .. Len(f.dirs) \subseteq 1 .. Len(f.dirs)
    BY <1>1
  <2> QED
    BY <1>1, <2>1 DEF Left, DirsOf
<1>4. Left(f, n) \subseteq Left(f, n + 1) \cup {f.dirs[n + 1].dir}
  <2>1. \A i \in n + 1 .. Len(f.dirs) : i = n + 1 \/ i \in n + 1 + 1 .. Len(f.dirs)
    BY <1>1
  <2> QED
    BY <2>1 DEF Left
<1> QED
  BY <1>2, <1>3, <1>4

\* A line behind the others is left, and so are those that were.
LEMMA LeftOfMore ==
  ASSUME NEW f \in Files, NEW line \in Entries, NEW n \in Nat
  PROVE  Left(f, n) \subseteq Left([f EXCEPT !.dirs = Append(@, line)], n)
<1> DEFINE h == [f EXCEPT !.dirs = Append(@, line)]
<1>1. /\ f.dirs \in Seq(Entries) /\ h.dirs = Append(f.dirs, line)
  BY DEF Files
<1>2. /\ Len(h.dirs) = Len(f.dirs) + 1 /\ Len(f.dirs) \in Nat
      /\ \A i \in 1 .. Len(f.dirs) : h.dirs[i] = f.dirs[i]
  BY <1>1, AppendProperties, LenProperties
<1> HIDE DEF h
<1>3. ASSUME NEW i \in n + 1 .. Len(f.dirs)
      PROVE  i \in n + 1 .. Len(h.dirs) /\ h.dirs[i] = f.dirs[i]
  BY <1>2
<1>4. Left(f, n) \subseteq Left(h, n)
  BY <1>3 DEF Left
<1> QED
  BY <1>4 DEF h
-----------------------------------------------------------------------------
(* Steps of which a part of the invariant takes no notice.                 *)

LEMMA EmptyRange == Range(<<>>) = {}
  BY DEF Range

LEMMA DirsSame ==
  ASSUME DirsOK, UNCHANGED <<file, gSearchDirectoriesGames, wanted, excuse, settings, phase,
                             linesRead>>
  PROVE  DirsOK'
<1>1. FileDirs' = FileDirs /\ LinesLeft' = LinesLeft /\ Due' = Due
      /\ Excused("refused")' = Excused("refused") /\ Excused("none")' = Excused("none")
  BY DEF FileDirs, LinesLeft, Due, Excused
<1> QED
  BY <1>1 DEF DirsOK, NoDirectoryTwice, SearchedDirectoriesAreOnFile, DirectoriesAreKept

LEMMA DirsKept ==
  ASSUME DirsOK, UNCHANGED <<gSearchDirectoriesGames, wanted, excuse>>,
         DirsOf(file') = DirsOf(file), settings' = <<>> => settings = <<>>,
         phase \in Running, phase' \in Running
  PROVE  DirsOK'
<1>1. /\ FileDirs = DirsOf(file) /\ FileDirs' = DirsOf(file') /\ Due' = Due
      /\ Excused("refused")' = Excused("refused") /\ Excused("none")' = Excused("none")
  BY DEF FileDirs, DirsOf, Due, Excused
<1>2. NoDirectoryTwice' /\ DirectoriesAreKept'
  BY <1>1 DEF DirsOK, NoDirectoryTwice, DirectoriesAreKept
<1>3. SearchedDirectoriesAreOnFile'
  BY <1>1 DEF DirsOK, SearchedDirectoriesAreOnFile, Running
<1> QED
  BY <1>1, <1>2, <1>3 DEF DirsOK, Running

LEMMA DirsSaved ==
  ASSUME DirsOK, UNCHANGED <<gSearchDirectoriesGames, wanted, phase>>,
         excuse' = [dir \in Dirs |-> IF dir \in Range(gSearchDirectoriesGames) THEN "none"
                                    ELSE excuse[dir]],
         DirsOf(file') = Range(gSearchDirectoriesGames), phase \in Running
  PROVE  DirsOK'
<1>1. FileDirs' = DirsOf(file')
  BY DEF FileDirs, DirsOf
<1>2. excuse' \in [Dirs -> Excuses]
  BY DEF DirsOK, Excuses
<1>3. Due' \subseteq Range(gSearchDirectoriesGames)
  BY DEF Due, Excused, DirsOK
<1> QED
  BY <1>1, <1>2, <1>3 DEF DirsOK, NoDirectoryTwice, DirectoriesAreKept,
                          SearchedDirectoriesAreOnFile, Running, Due

LEMMA ThemeKept ==
  ASSUME ThemeOK, UNCHANGED <<gTheme, chosen, settings>>, file'.theme = file.theme
  PROVE  ThemeOK'
  BY DEF ThemeOK

LEMMA PathKept ==
  ASSUME PathOK, UNCHANGED <<lastGamePath, stale, phase, settings>>, file'.last = file.last
  PROVE  PathOK'
  BY DEF PathOK, LastPathIsKept

LEMMA FileKept ==
  ASSUME FileOK, UNCHANGED <<file, settings, phase, mounted, linesRead>>
  PROVE  FileOK'
  BY DEF FileOK

-----------------------------------------------------------------------------
(* The start of the program.                                               *)

LEMMA InitInv == Init => Inv
<1> SUFFICES ASSUME Init PROVE Inv
  OBVIOUS
<1>1. Missing \in Files /\ Missing.theme = "missing"
  <2>1. <<>> \in Seq(Entries)
    BY EmptySeq
  <2>2. Truncated \in Files
    BY <2>1 DEF Truncated, Files
  <2>3. Missing = [Truncated EXCEPT !.theme = "missing"]
    BY DEF Missing
  <2> QED
    BY <2>2, <2>3 DEF Files
<1>2. FileOK
  BY <1>1, BoundAssumption DEF Init, FileOK
<1>3. DirsOf(file) = {} /\ Range(gSearchDirectoriesGames) = {}
  BY EmptyRange DEF Init, DirsOf, Missing, Truncated
<1>4. DirsOK
  BY <1>3, DirsOfFile DEF Init, DirsOK, NoDirectoryTwice, SearchedDirectoriesAreOnFile,
       DirectoriesAreKept, IsInjective, NoExcuse, Excuses, Running
<1>5. ThemeOK /\ PathOK
  BY DEF Init, ThemeOK, PathOK, LastPathIsKept, Themes
<1> QED
  BY <1>2, <1>4, <1>5 DEF Inv

LEMMA createTemplateKeeps ==
  ASSUME Inv, createTemplate
  PROVE  Inv'
<1> USE DEF Inv
<1> DEFINE line == Line(Template, TRUE)
<1>1. line \in Entries /\ line.dir = Template
  BY DEF Line, Entries
<1>2. <<line>> \in Seq(Entries) /\ Range(<<line>>) = {line}
  <2>1. <<line>> \in Seq(Entries) /\ Len(<<line>>) = 1 /\ <<line>>[1] = line
    <3> HIDE DEF line
    <3> QED
      BY <1>1
  <2>2. DOMAIN <<line>> = 1 .. 1
    OBVIOUS
  <2> HIDE DEF line
  <2> QED
    BY <2>1, <2>2 DEF Range
<1> HIDE DEF line
<1>3. /\ file' = [Truncated EXCEPT !.head = TRUE, !.dirs = <<line>>]
      /\ UNCHANGED <<gSearchDirectoriesGames, gTheme, lastGamePath, settings, linesRead,
                     mounted, wanted, excuse, chosen, stale>>
      /\ phase = "off" /\ phase' = "games" /\ file = Missing
  BY DEF createTemplate, ram, history, line
<1>4. /\ file' \in Files /\ file'.theme = None /\ file'.last = None /\ file'.dirs = <<line>>
      /\ file.theme = "missing" /\ file.last = None /\ file.dirs = <<>>
  BY <1>2, <1>3 DEF Truncated, Files, Missing
<1>5. FileOK'
  BY <1>3, <1>4 DEF FileOK, None
<1>6. DirsOf(file') = {Template} /\ DirsOf(file) = {}
  BY <1>1, <1>2, <1>4, EmptyRange DEF DirsOf
<1>7. settings = <<>> /\ gSearchDirectoriesGames = <<>>
  BY <1>3 DEF FileOK, DirsOK
<1>8. Due = {} /\ Due' = Due /\ Excused("none")' = Excused("none")
  BY <1>3, <1>6, <1>7, DirsOfFile DEF DirsOK, DirectoriesAreKept, Due, Excused
<1>9. FileDirs' = {Template}
  BY <1>6 DEF FileDirs, DirsOf
<1>10. DirsOK'
  <2>1. Range(gSearchDirectoriesGames) = {}
    BY <1>7, EmptyRange
  <2> QED
    BY <1>3, <1>7, <1>8, <1>9, <2>1
       DEF DirsOK, NoDirectoryTwice, SearchedDirectoriesAreOnFile, DirectoriesAreKept, Due
<1>11. ThemeOK'
  BY <1>3, <1>4, <1>7 DEF ThemeOK, Themes, None
<1>12. PathOK'
  BY <1>3, <1>4, <1>7 DEF PathOK, LastPathIsKept
<1> QED
  BY <1>5, <1>10, <1>11, <1>12

LEMMA loadConfigKeeps ==
  ASSUME Inv, loadConfig
  PROVE  Inv'
<1> USE DEF Inv
<1>1. /\ UNCHANGED <<file, gSearchDirectoriesGames, lastGamePath, settings, linesRead,
                     mounted, wanted, excuse, chosen, stale>>
      /\ phase = "off" /\ phase' = "load" /\ gTheme' = "Retro" /\ file # Missing
  BY DEF loadConfig, history
<1>2. FileOK' /\ settings = <<>>
  BY <1>1 DEF FileOK
<1>3. DirsOK'
  <2>1. FileDirs' = FileDirs /\ Due' = Due /\ Excused("none")' = Excused("none")
        /\ gSearchDirectoriesGames = <<>>
    BY <1>1 DEF FileDirs, Due, Excused, DirsOK
  <2>2. LinesLeft' = FileDirs
    BY <1>1, LeftOf, DirsOfFile DEF LinesLeft, Left, FileOK
  <2>3. Due \subseteq FileDirs
    BY <1>2 DEF DirsOK, DirectoriesAreKept, Due
  <2> QED
    BY <1>1, <2>1, <2>2, <2>3, EmptyRange
       DEF DirsOK, NoDirectoryTwice, SearchedDirectoriesAreOnFile, DirectoriesAreKept, Running
<1>4. ThemeOK' /\ PathOK'
  BY <1>1, <1>2 DEF ThemeOK, PathOK, LastPathIsKept, Themes
<1> QED
  BY <1>2, <1>3, <1>4

LEMMA LoadDirectoryKeeps ==
  ASSUME Inv, LoadDirectory
  PROVE  Inv'
<1> USE DEF Inv
<1> DEFINE dir == file.dirs[linesRead + 1].dir
           g == gSearchDirectoriesGames
<1>1. /\ UNCHANGED <<file, gTheme, lastGamePath, settings, phase, mounted, wanted, chosen,
                     stale>>
      /\ phase = "load" /\ linesRead < Len(file.dirs) /\ linesRead' = linesRead + 1
      /\ gSearchDirectoriesGames' = setPathToGames(g, dir)
      /\ excuse' = Looked(dir, g')
  BY DEF LoadDirectory
<1>2. dir \in DirsOf(file)
  <2>1. file.dirs \in Seq(Entries) /\ linesRead \in Nat
    BY DEF FileOK, Files
  <2>2. linesRead + 1 \in DOMAIN file.dirs
    BY <1>1, <2>1, RangeIs
  <2> QED
    BY <2>2 DEF DirsOf, Range
<1> HIDE DEF dir
<1>3. FileOK' /\ settings = <<>>
  BY <1>1 DEF FileOK
<1>4. /\ g' \in Seq(Dirs) /\ IsInjective(g')
      /\ Range(g') \subseteq Range(g) \cup ({dir} \cap Dirs)
      /\ Range(g) \subseteq Range(g')
  BY <1>1, SetPath DEF DirsOK, NoDirectoryTwice, FileOK
<1>5. excuse' \in [Dirs -> Excuses]
  BY <1>1 DEF Looked, DirsOK, Excuses
<1>6. \A d \in Dirs : excuse'[d] = IF d # dir THEN excuse[d]
                                  ELSE IF d \in Range(g') THEN "none" ELSE "away"
  BY <1>1 DEF Looked
<1>7. DirsOK'
  <2>1. FileDirs = DirsOf(file) /\ FileDirs' = FileDirs
    BY <1>1 DEF FileDirs, DirsOf
  <2>2. /\ DirsOf(file) \subseteq wanted \cup {Template}
        /\ Range(g) \subseteq DirsOf(file) \cup Excused("refused")
        /\ Due \subseteq DirsOf(file)
    BY <1>1, <1>3, <2>1 DEF DirsOK, SearchedDirectoriesAreOnFile, DirectoriesAreKept, Due
  <2>3. Range(g') \subseteq wanted
    BY <1>2, <1>4, <2>2, NamesAssumption DEF DirsOK
  <2>4. Range(g') \subseteq DirsOf(file) \cup Excused("refused")'
    BY <1>2, <1>4, <1>6, <2>2 DEF Excused
  <2>5. Due' \subseteq DirsOf(file)
    BY <1>1, <1>2, <1>6, <2>2 DEF Excused, Due
  <2>6. LinesLeft \subseteq LinesLeft' \cup {dir}
    <3>1. LinesLeft = Left(file, linesRead) /\ LinesLeft' = Left(file, linesRead + 1)
      BY <1>1 DEF LinesLeft, Left
    <3> QED
      BY <3>1, LeftOf DEF FileOK, dir
  <2>7. Due' \subseteq Range(g') \cup LinesLeft'
    <3>1. Due \subseteq Range(g) \cup LinesLeft
      BY <1>1 DEF DirsOK
    <3>2. Due' \subseteq Due \cup Range(g') /\ (dir \in Due' => dir \in Range(g'))
      BY <1>1, <1>6, NamesAssumption DEF Due, Excused, DirsOK
    <3> QED
      BY <1>4, <2>6, <3>1, <3>2
  <2> HIDE DEF g
  <2> QED
    BY <1>1, <1>4, <1>5, <2>1, <2>2, <2>3, <2>4, <2>5, <2>7
       DEF g, DirsOK, NoDirectoryTwice, SearchedDirectoriesAreOnFile, DirectoriesAreKept, Due,
           Running
<1> QED
  BY <1>1, <1>3, <1>7, ThemeKept, PathKept

LEMMA LoadEndsKeeps ==
  ASSUME Inv, LoadEnds
  PROVE  Inv'
<1> USE DEF Inv
<1>1. /\ UNCHANGED <<file, gSearchDirectoriesGames, lastGamePath, settings, mounted, wanted,
                     chosen, stale>>
      /\ phase = "load" /\ phase' = "games" /\ linesRead' = 0
      /\ excuse' = [dir \in Dirs |-> IF dir \in LinesLeft \ Range(gSearchDirectoriesGames)
                                    THEN "unread" ELSE excuse[dir]]
      /\ gTheme' = gTheme \/ gTheme' = file.theme
      /\ file.theme = None => gTheme' \in Themes
  BY DEF LoadEnds, ThemeOK
<1>2. FileOK' /\ settings = <<>>
  BY <1>1 DEF FileOK
<1>3. gTheme' \in Themes
  BY <1>1 DEF FileOK, Files, ThemeOK
<1>4. ThemeOK' /\ PathOK'
  BY <1>1, <1>2, <1>3 DEF ThemeOK, PathOK, LastPathIsKept
<1>5. DirsOK'
  <2>1. FileDirs' = FileDirs
    BY <1>1 DEF FileDirs
  <2>2. excuse' \in [Dirs -> Excuses]
    BY <1>1 DEF DirsOK, Excuses
  <2>3. Due \subseteq Range(gSearchDirectoriesGames) \cup LinesLeft
    BY <1>1 DEF DirsOK
  <2>4. Due' \subseteq Due /\ Due' \subseteq Range(gSearchDirectoriesGames)
    BY <1>1, <2>3 DEF Due, Excused
  <2>5. Range(gSearchDirectoriesGames) \cap Excused("refused") \subseteq Excused("refused")'
    BY <1>1 DEF Excused
  <2>6. /\ Range(gSearchDirectoriesGames) \subseteq FileDirs \cup Excused("refused")
        /\ Due \subseteq FileDirs /\ FileDirs \subseteq wanted \cup {Template}
    BY <1>1, <1>2 DEF DirsOK, SearchedDirectoriesAreOnFile, DirectoriesAreKept, Due
  <2> QED
    BY <1>1, <2>1, <2>2, <2>4, <2>5, <2>6
       DEF DirsOK, NoDirectoryTwice, SearchedDirectoriesAreOnFile, DirectoriesAreKept, Due,
           Running
<1> QED
  BY <1>2, <1>4, <1>5
-----------------------------------------------------------------------------
(* The screens.                                                            *)

LEMMA MainScreenKeeps ==
  ASSUME Inv, MainScreen
  PROVE  Inv'
<1> USE DEF Inv
<1>1. /\ UNCHANGED <<file, gSearchDirectoriesGames, gTheme, settings, linesRead, mounted,
                     wanted, excuse, chosen>>
      /\ phase = "games" /\ phase' = "screens" /\ stale' = FALSE
      /\ lastGamePath' \in {file.last, lastGamePath, Home}
  BY DEF MainScreen
<1>2. FileOK'
  BY <1>1 DEF FileOK
<1>3. DirsOK'
  BY <1>1, DirsKept DEF Running
<1>4. ThemeOK'
  BY <1>1, ThemeKept
<1>5. lastGamePath' \in Places \cup {None} /\ stale' \in BOOLEAN
  BY <1>1, NamesAssumption DEF PathOK, FileOK, Files
<1>6. PathOK'
  BY <1>1, <1>5 DEF PathOK, LastPathIsKept
<1> QED
  BY <1>2, <1>3, <1>4, <1>6

LEMMA BrowseKeeps ==
  ASSUME Inv, NEW place \in Places, Browse(place)
  PROVE  Inv'
<1> USE DEF Inv
<1>1. /\ UNCHANGED <<file, gSearchDirectoriesGames, gTheme, settings, phase, linesRead,
                     mounted, wanted, excuse, chosen, stale>>
      /\ phase = "screens" /\ lastGamePath' = place
  BY DEF Browse, history
<1>2. FileOK' /\ DirsOK' /\ ThemeOK'
  BY <1>1, FileKept, DirsSame, ThemeKept
<1>3. PathOK'
  BY <1>1 DEF PathOK, LastPathIsKept
<1> QED
  BY <1>2, <1>3

\* The copies are taken of a file that is there.
LEMMA SettingsScreenKeeps ==
  ASSUME Inv, NEW n \in 1 .. MaxSettings, SettingsScreen(n)
  PROVE  Inv'
<1> USE DEF Inv
<1>1. /\ UNCHANGED <<file, gSearchDirectoriesGames, lastGamePath, phase, linesRead, mounted,
                     wanted, excuse, chosen, stale>>
      /\ phase = "screens" /\ settings = <<>>
      /\ gTheme' = IF file.theme # None THEN file.theme ELSE gTheme
      /\ settings' = [i \in 1 .. n |-> [file EXCEPT !.dirs = <<>>]]
  BY DEF SettingsScreen, history
<1>2. n \in Nat /\ 1 <= n /\ n <= MaxSettings
  BY BoundAssumption
<1>3. [file EXCEPT !.dirs = <<>>] \in Copies
  <2>1. <<>> \in Seq(Entries)
    BY EmptySeq
  <2>2. file \in Files /\ file.theme # "missing"
    BY <1>1 DEF FileOK
  <2> QED
    BY <2>1, <2>2 DEF Files, Copies
<1>4. settings' \in Seq(Copies) /\ Len(settings') = n
  <2>1. settings' \in [1 .. n -> Copies]
    BY <1>1, <1>3
  <2>2. settings' \in Seq(Copies)
    BY <1>2, <2>1, SeqDef
  <2>3. DOMAIN settings' = 1 .. n /\ DOMAIN settings' = 1 .. Len(settings')
        /\ Len(settings') \in Nat
    BY <2>1, <2>2, LenProperties
  <2> QED
    BY <1>2, <2>2, <2>3
<1>5. settings' # <<>>
  BY <1>2, <1>4, EmptySeq
<1>6. FileOK'
  BY <1>1, <1>2, <1>4 DEF FileOK
<1>7. DirsOK' /\ PathOK'
  BY <1>1, <1>5, DirsKept DEF Running, PathOK, LastPathIsKept
<1>8. ThemeOK'
  BY <1>1, <1>5 DEF ThemeOK, FileOK, Files
<1> QED
  BY <1>6, <1>7, <1>8

LEMMA OnThemeChangedKeeps ==
  ASSUME Inv, NEW theme \in Themes, OnThemeChanged(theme)
  PROVE  Inv'
<1> USE DEF Inv
<1>1. /\ UNCHANGED <<file, gSearchDirectoriesGames, lastGamePath, settings, phase, linesRead,
                     mounted, wanted, excuse, stale>>
      /\ phase = "screens" /\ settings # <<>> /\ gTheme' = theme /\ chosen' = theme
  BY DEF OnThemeChanged
<1>2. FileOK' /\ DirsOK' /\ PathOK'
  BY <1>1, FileKept, DirsSame, PathKept
<1>3. ThemeOK'
  BY <1>1 DEF ThemeOK
<1> QED
  BY <1>2, <1>3

\* A directory is asked for: its line is added or not, memory takes it or not.
LEMMA AskedKeeps ==
  ASSUME Inv, NEW dir \in Dirs, NEW slash \in BOOLEAN,
         UNCHANGED <<gTheme, lastGamePath, settings, phase, linesRead, mounted, chosen, stale>>,
         phase # "off", file' = file \/ file' = [file EXCEPT !.dirs = Append(@, Line(dir, slash))],
         gSearchDirectoriesGames' \in
           {gSearchDirectoriesGames, setPathToGames(gSearchDirectoriesGames, dir)},
         wanted' = wanted \cup {dir}, excuse' \in [Dirs -> Excuses],
         \A d \in Dirs \ {dir} : excuse'[d] = excuse[d],
         dir \in Range(gSearchDirectoriesGames')
           => dir \in DirsOf(file') \/ excuse'[dir] = "refused",
         dir \notin Range(gSearchDirectoriesGames') => excuse'[dir] # "none"
  PROVE  Inv'
<1> USE DEF Inv
<1> DEFINE g == gSearchDirectoriesGames
           more == [file EXCEPT !.dirs = Append(@, Line(dir, slash))]
<1>1. /\ more \in Files /\ more.theme = file.theme /\ more.last = file.last
      /\ DirsOf(more) = DirsOf(file) \cup {dir}
      /\ Left(file, linesRead) \subseteq Left(more, linesRead)
  <2>1. Line(dir, slash) \in Entries
    BY DEF Line, Entries
  <2> QED
    BY <2>1, AddedLine, LeftOfMore DEF FileOK
<1>2. /\ g' \in Seq(Dirs) /\ IsInjective(g') /\ Range(g) \subseteq Range(g')
      /\ Range(g') \subseteq Range(g) \cup {dir}
  BY SetPath DEF DirsOK, NoDirectoryTwice, FileOK
<1>3. /\ file' \in Files /\ file'.theme = file.theme /\ file'.last = file.last
      /\ DirsOf(file) \subseteq DirsOf(file') /\ DirsOf(file') \subseteq DirsOf(file) \cup {dir}
      /\ Left(file, linesRead) \subseteq Left(file', linesRead)
  <2> HIDE DEF more
  <2> QED
    BY <1>1 DEF FileOK, more
<1>4. FileOK'
  BY <1>3 DEF FileOK
<1> HIDE DEF more, g
<1>5. DirsOK'
  <2>1. FileDirs' = DirsOf(file') /\ FileDirs = DirsOf(file)
    BY DEF FileDirs, DirsOf
  <2>2. Due' \ {dir} \subseteq Due
    BY DEF Due, Excused
  <2>3. dir \in Due' => dir \in Range(g') /\ dir \in DirsOf(file')
    BY DEF Due, Excused, g
  <2>4. phase \in Running => Due' \subseteq Range(g')
    BY <1>2, <2>2, <2>3 DEF DirsOK, g
  <2>5. phase = "load" => Due' \subseteq Range(g') \cup LinesLeft'
    <3>1. LinesLeft = Left(file, linesRead) /\ LinesLeft' = Left(file', linesRead)
      BY DEF LinesLeft, Left
    <3> QED
      BY <1>2, <1>3, <2>2, <2>3, <3>1 DEF DirsOK, g
  <2>6. Range(g') \subseteq DirsOf(file') \cup Excused("refused")'
    <3>1. Range(g) \subseteq DirsOf(file) \cup Excused("refused")
      BY <2>1 DEF DirsOK, SearchedDirectoriesAreOnFile, g
    <3>2. Range(g) \ {dir} \subseteq DirsOf(file') \cup Excused("refused")'
      BY <1>3, <3>1 DEF Excused
    <3>3. dir \in Range(g') => dir \in DirsOf(file') \cup Excused("refused")'
      BY DEF Excused, g
    <3> QED
      BY <1>2, <3>2, <3>3
  <2>7. DirectoriesAreKept'
    <3>1. settings = <<>> => Due' \subseteq DirsOf(file')
      BY <1>3, <2>1, <2>2, <2>3 DEF DirsOK, DirectoriesAreKept, Due
    <3>2. settings = <<>> => DirsOf(file') \subseteq wanted' \cup {Template}
      BY <1>3, <2>1 DEF DirsOK, DirectoriesAreKept
    <3> QED
      BY <2>1, <3>1, <3>2 DEF DirectoriesAreKept, Due
  <2>8. Range(g') \subseteq wanted' /\ wanted' \subseteq Dirs
    BY <1>2 DEF DirsOK, g
  <2> QED
    BY <1>2, <2>1, <2>4, <2>5, <2>6, <2>7, <2>8
       DEF DirsOK, NoDirectoryTwice, SearchedDirectoriesAreOnFile, g
<1>6. ThemeOK' /\ PathOK'
  BY <1>3, ThemeKept, PathKept
<1> QED
  BY <1>4, <1>5, <1>6

LEMMA AddKeeps ==
  ASSUME Inv, NEW dir \in Dirs, NEW slash \in BOOLEAN, addSearchPathToConfigFile(dir, slash)
  PROVE  Inv'
<1> DEFINE g == gSearchDirectoriesGames
           more == [file EXCEPT !.dirs = Append(@, Line(dir, slash))]
<1>1. /\ UNCHANGED <<gTheme, lastGamePath, settings, phase, linesRead, mounted, chosen, stale>>
      /\ phase = "screens" /\ wanted' = wanted \cup {dir}
      /\ \/ /\ UNCHANGED <<file, g>>
            /\ excuse' = IF dir \in Range(g) THEN excuse ELSE [excuse EXCEPT ![dir] = "refused"]
         \/ file' = more /\ g' = setPathToGames(g, dir) /\ excuse' = Looked(dir, g')
  BY DEF addSearchPathToConfigFile
<1>2. excuse \in [Dirs -> Excuses] /\ file \in Files
  BY DEF Inv, DirsOK, FileOK
<1>3. CASE /\ UNCHANGED <<file, g>>
           /\ excuse' = IF dir \in Range(g) THEN excuse ELSE [excuse EXCEPT ![dir] = "refused"]
  <2>1. excuse' \in [Dirs -> Excuses] /\ \A d \in Dirs \ {dir} : excuse'[d] = excuse[d]
    BY <1>2, <1>3 DEF Excuses
  <2>2. dir \notin Range(g') => excuse'[dir] = "refused"
    BY <1>2, <1>3
  <2>3. dir \in Range(g') => dir \in DirsOf(file') \/ excuse'[dir] = "refused"
    BY <1>1, <1>3, DirsOfFile DEF Inv, DirsOK, SearchedDirectoriesAreOnFile, Excused
  <2> QED
    BY <1>1, <1>3, <2>1, <2>2, <2>3, AskedKeeps
<1>4. CASE file' = more /\ g' = setPathToGames(g, dir) /\ excuse' = Looked(dir, g')
  <2>1. excuse' \in [Dirs -> Excuses] /\ \A d \in Dirs \ {dir} : excuse'[d] = excuse[d]
    BY <1>2, <1>4 DEF Excuses, Looked
  <2>2. dir \notin Range(g') => excuse'[dir] = "away"
    BY <1>4 DEF Looked
  <2>3. dir \in DirsOf(file')
    BY <1>2, <1>4, AddedLine
  <2> QED
    BY <1>1, <1>4, <2>1, <2>2, <2>3, AskedKeeps
<1> QED
  BY <1>1, <1>3, <1>4

LEMMA GamingFolderKeeps ==
  ASSUME Inv, NEW dir \in Dirs, NEW slash \in BOOLEAN, GamingFolder(dir, slash)
  PROVE  Inv'
<1> DEFINE g == gSearchDirectoriesGames
           line == Line(dir, slash)
<1>1. /\ UNCHANGED <<gTheme, lastGamePath, settings, phase, linesRead, mounted, chosen, stale>>
      /\ phase # "off" /\ wanted' = wanted \cup {dir} /\ g' = setPathToGames(g, dir)
      /\ dir \in mounted /\ dir \notin Range(g)
      /\ file' = file \/ file' = [file EXCEPT !.dirs = Append(@, line)]
      /\ excuse' = [excuse EXCEPT ![dir] = IF line \in Range(file'.dirs) THEN "none"
                                         ELSE "refused"]
  BY DEF GamingFolder
<1>2. excuse \in [Dirs -> Excuses] /\ g \in Seq(Dirs) /\ line.dir = dir
  BY DEF Inv, DirsOK, Line
<1>3. dir \in Range(g')
  BY <1>1, <1>2, Appended DEF setPathToGames
<1> HIDE DEF line
<1>4. excuse' \in [Dirs -> Excuses] /\ \A d \in Dirs \ {dir} : excuse'[d] = excuse[d]
  BY <1>1, <1>2 DEF Excuses
<1>5. dir \in DirsOf(file') \/ excuse'[dir] = "refused"
  BY <1>1, <1>2 DEF DirsOf
<1> QED
  BY <1>1, <1>3, <1>4, <1>5, AskedKeeps DEF line

LEMMA DeleteKeeps ==
  ASSUME Inv, NEW i \in DOMAIN gSearchDirectoriesGames, OnDeleteSearchDirectories(i)
  PROVE  Inv'
<1> USE DEF Inv
<1> DEFINE g == gSearchDirectoriesGames
<1>1. /\ UNCHANGED <<file, gTheme, lastGamePath, settings, phase, linesRead, mounted, chosen,
                     stale>>
      /\ phase = "screens" /\ settings # <<>> /\ g' = RemoveAt(g, i)
      /\ wanted' = wanted \ {g[i]} /\ excuse' = [excuse EXCEPT ![g[i]] = "none"]
  BY DEF OnDeleteSearchDirectories
<1>2. g' \in Seq(Dirs) /\ IsInjective(g') /\ Range(g') = Range(g) \ {g[i]}
  BY <1>1, Removed DEF DirsOK, NoDirectoryTwice
<1>3. DirsOK'
  <2>1. FileDirs' = FileDirs
    BY <1>1 DEF FileDirs
  <2>2. excuse' \in [Dirs -> Excuses] /\ \A d \in Dirs \ {g[i]} : excuse'[d] = excuse[d]
    BY <1>1 DEF DirsOK, Excuses
  <2>3. Range(g) \subseteq FileDirs \cup Excused("refused") /\ Due \subseteq Range(g)
    BY <1>1 DEF DirsOK, SearchedDirectoriesAreOnFile, Running
  <2>4. Due' \subseteq Due \ {g[i]} /\ Excused("refused") \ {g[i]} \subseteq Excused("refused")'
    BY <1>1, <2>2 DEF Due, Excused
  <2>5. Range(g') \subseteq FileDirs \cup Excused("refused")' /\ Due' \subseteq Range(g')
        /\ Range(g') \subseteq wanted' /\ wanted' \subseteq Dirs
    BY <1>1, <1>2, <2>3, <2>4 DEF DirsOK
  <2> QED
    BY <1>1, <1>2, <2>1, <2>2, <2>5
       DEF DirsOK, NoDirectoryTwice, SearchedDirectoriesAreOnFile, DirectoriesAreKept
<1>4. FileOK' /\ ThemeOK' /\ PathOK'
  BY <1>1, FileKept, ThemeKept, PathKept
<1> QED
  BY <1>3, <1>4

\* A destructor of the settings: whichever copy it writes, the theme and the directories
\* are those in memory.
LEMMA SavingKeeps ==
  ASSUME Inv, NEW copy \in Copies, Write(copy),
         phase = "screens" \/ (phase = "shutdown" /\ stale), settings # <<>>,
         settings' \in Seq(Copies), Len(settings') <= Len(settings)
  PROVE  Inv'
<1> USE DEF Inv
<1>0. /\ UNCHANGED <<gSearchDirectoriesGames, gTheme, lastGamePath, phase, linesRead, mounted,
                     wanted, chosen, stale>>
      /\ file' = Saved(copy)
      /\ excuse' = [dir \in Dirs |-> IF dir \in Range(gSearchDirectoriesGames) THEN "none"
                                    ELSE excuse[dir]]
  BY DEF Write, ram
<1>1. /\ file' \in Files /\ file'.theme = gTheme
      /\ DirsOf(file') = Range(gSearchDirectoriesGames)
  BY <1>0, SavedFile
<1>2. FileOK'
  <2>1. gTheme # "missing"
    BY DEF ThemeOK, Themes
  <2>2. Len(settings') <= MaxSettings
    BY LenProperties, BoundAssumption DEF FileOK
  <2> QED
    BY <1>0, <1>1, <2>1, <2>2 DEF FileOK
<1>3. DirsOK'
  BY <1>0, <1>1, DirsSaved DEF Running
<1>4. ThemeOK'
  BY <1>0, <1>1 DEF ThemeOK
<1>5. PathOK'
  BY <1>0 DEF PathOK, LastPathIsKept
<1> QED
  BY <1>2, <1>3, <1>4, <1>5

LEMMA LeaveSettingsKeeps ==
  ASSUME Inv, LeaveSettings
  PROVE  Inv'
<1>1. /\ settings \in Seq(Copies) /\ Len(settings) \in Nat /\ Len(settings) >= 1
      /\ settings[Len(settings)] \in Copies
  BY RangeIs, ElementOfSeq DEF LeaveSettings, Inv, FileOK
<1>2. Front(settings) \in Seq(Copies) /\ Len(Front(settings)) <= Len(settings)
  <2>1. \A k \in 1 .. Len(settings) - 1 : settings[k] \in Copies
    BY <1>1, ElementOfSeq
  <2>2. /\ SubSeq(settings, 1, Len(settings) - 1) \in Seq(Copies)
        /\ Len(SubSeq(settings, 1, Len(settings) - 1))
             = IF 1 <= Len(settings) - 1 THEN Len(settings) - 1 - 1 + 1 ELSE 0
    BY <1>1, <2>1, SubSeqProperties
  <2> QED
    BY <1>1, <2>2 DEF Front
<1> QED
  BY <1>1, <1>2, SavingKeeps DEF LeaveSettings

LEMMA DestroySettingsKeeps ==
  ASSUME Inv, DestroySettings
  PROVE  Inv'
<1>1. settings \in Seq(Copies) /\ settings # <<>>
  BY DEF DestroySettings, Inv, FileOK
<1>2. /\ Head(settings) \in Copies /\ Tail(settings) \in Seq(Copies)
      /\ Len(Tail(settings)) <= Len(settings)
  BY <1>1, HeadTailProperties, LenProperties
<1>3. stale
  BY <1>1 DEF DestroySettings, Inv, PathOK
<1> QED
  BY <1>1, <1>2, <1>3, SavingKeeps DEF DestroySettings

LEMMA DestroyMainKeeps ==
  ASSUME Inv, DestroyMain
  PROVE  Inv'
<1> USE DEF Inv
<1>1. /\ UNCHANGED <<gSearchDirectoriesGames, gTheme, lastGamePath, settings, linesRead,
                     mounted, wanted, excuse, chosen>>
      /\ phase = "screens" /\ phase' = "shutdown" /\ file' = [file EXCEPT !.last = lastGamePath]
      /\ stale' = (settings # <<>>)
  BY DEF DestroyMain, ram
<1>2. /\ file' \in Files /\ file'.theme = file.theme /\ file'.last = lastGamePath
      /\ file'.dirs = file.dirs
  BY <1>1 DEF FileOK, Files, PathOK
<1>3. FileOK'
  BY <1>1, <1>2 DEF FileOK
<1>4. DirsOf(file') = DirsOf(file)
  BY <1>2 DEF DirsOf
<1>5. DirsOK' /\ ThemeOK'
  BY <1>1, <1>2, <1>4, DirsKept, ThemeKept DEF Running
<1>6. stale' \in BOOLEAN /\ (~stale' => settings = <<>>)
  BY <1>1, Zenon
<1>7. PathOK'
  BY <1>1, <1>2, <1>6 DEF PathOK, LastPathIsKept
<1> QED
  BY <1>3, <1>5, <1>7

LEMMA ScreensEndKeeps ==
  ASSUME Inv, ScreensEnd
  PROVE  Inv'
<1> USE DEF Inv
<1>1. /\ UNCHANGED <<file, gSearchDirectoriesGames, gTheme, lastGamePath, settings, linesRead,
                     mounted, wanted, excuse, chosen, stale>>
      /\ phase = "shutdown" /\ settings = <<>> /\ phase' = "games"
  BY DEF ScreensEnd, ram, history
<1>2. FileOK' /\ DirsOK' /\ ThemeOK'
  BY <1>1, DirsKept, ThemeKept DEF FileOK, Running
<1>3. PathOK'
  BY <1>1 DEF PathOK, LastPathIsKept
<1> QED
  BY <1>2, <1>3

\* Marley ends, or is ended: the directories in memory are forgotten.
LEMMA QuitKeeps ==
  ASSUME Inv, Quit
  PROVE  Inv'
<1> USE DEF Inv
<1>1. /\ UNCHANGED <<file, gTheme, settings, linesRead, mounted, wanted, excuse, chosen, stale>>
      /\ phase = "games" /\ phase' = "off"
      /\ gSearchDirectoriesGames' = <<>> /\ lastGamePath' = None
  BY DEF Quit, history
<1>2. FileOK' /\ ThemeOK' /\ PathOK'
  BY <1>1, ThemeKept DEF FileOK, PathOK, LastPathIsKept
<1>3. DirsOK'
  <2>1. FileDirs' = FileDirs /\ Range(gSearchDirectoriesGames') = {}
        /\ IsInjective(gSearchDirectoriesGames') /\ Excused("none")' = Excused("none")
    BY <1>1, EmptyRange DEF FileDirs, IsInjective, Excused
  <2>2. gSearchDirectoriesGames' \in Seq(Dirs)
    BY <1>1, EmptySeq
  <2> QED
    BY <1>1, <2>1, <2>2 DEF DirsOK, NoDirectoryTwice, SearchedDirectoriesAreOnFile,
         DirectoriesAreKept, Running
<1> QED
  BY <1>2, <1>3

\* Whatever of it the file still has, memory starts empty.
LEMMA CrashedKeeps ==
  ASSUME Inv, Crashed, file' \in Files, file'.theme # "missing",
         wanted' \subseteq Dirs, excuse' \in [Dirs -> Excuses],
         Due' \subseteq DirsOf(file'), DirsOf(file') \subseteq wanted' \cup {Template},
         chosen' \in Themes \cup {None}, chosen' # None => file'.theme = chosen'
  PROVE  Inv'
<1> USE DEF Inv
<1>1. /\ UNCHANGED <<gTheme, mounted>>
      /\ phase' = "off" /\ settings' = <<>> /\ linesRead' = 0
      /\ gSearchDirectoriesGames' = <<>> /\ lastGamePath' = None /\ stale' = FALSE
  BY DEF Crashed
<1>2. FileOK'
  <2>1. <<>> \in Seq(Copies) /\ Len(<<>>) = 0
    BY EmptySeq
  <2> QED
    BY <1>1, <2>1, BoundAssumption DEF FileOK
<1>3. DirsOK'
  <2>1. FileDirs' = DirsOf(file') /\ Range(gSearchDirectoriesGames') = {}
        /\ IsInjective(gSearchDirectoriesGames')
    BY <1>1, EmptyRange DEF FileDirs, DirsOf, IsInjective
  <2>2. gSearchDirectoriesGames' \in Seq(Dirs)
    BY <1>1, EmptySeq
  <2>3. DirectoriesAreKept'
    BY <2>1 DEF DirectoriesAreKept, Due
  <2> QED
    BY <1>1, <2>1, <2>2, <2>3 DEF DirsOK, NoDirectoryTwice, SearchedDirectoriesAreOnFile,
         Running
<1>4. ThemeOK'
  BY <1>1 DEF ThemeOK
<1>5. stale' \in BOOLEAN
  BY <1>1, Zenon
<1>6. PathOK'
  BY <1>1, <1>5 DEF PathOK, LastPathIsKept
<1> QED
  BY <1>2, <1>3, <1>4, <1>6

\* A crash between two operations loses no directory: what is in memory is on file, but for
\* a line that was refused.
LEMMA CrashKeeps ==
  ASSUME Inv, Crash
  PROVE  Inv'
<1>1. /\ Crashed /\ file' = file /\ excuse' = excuse /\ phase # "off"
      /\ wanted' = wanted \cup (FileDirs \cap Dirs)
      /\ chosen' = IF settings = <<>> THEN chosen ELSE file.theme
  BY DEF Crash
<1>2. file' \in Files /\ file'.theme # "missing"
  BY <1>1 DEF Inv, FileOK
<1>3. wanted' \subseteq Dirs /\ excuse' \in [Dirs -> Excuses] /\ DirsOf(file') = FileDirs
  BY <1>1, DirsOfFile DEF Inv, DirsOK
<1>4. FileDirs \subseteq wanted' \cup {Template}
  BY <1>1, <1>2, FileDirsType, DirsOfFile
<1>5. Due' \subseteq FileDirs
  <2>1. Due' \subseteq Due \cup FileDirs
    BY <1>1 DEF Due, Excused
  <2>2. CASE settings = <<>>
    BY <2>1, <2>2 DEF Inv, DirsOK, DirectoriesAreKept, Due
  <2>3. CASE settings # <<>>
    <3>1. phase \in Running
      BY <2>3 DEF Inv, FileOK, Running
    <3>2. Due \subseteq FileDirs \cup Excused("refused")
      BY <1>1, <3>1 DEF Inv, DirsOK, SearchedDirectoriesAreOnFile
    <3>3. Due \cap Excused("refused") = {}
      BY DEF Due, Excused
    <3> QED
      BY <2>1, <3>2, <3>3
  <2> QED
    BY <2>2, <2>3
<1>6. chosen' \in Themes \cup {None} /\ (chosen' # None => file'.theme = chosen')
  BY <1>1, <1>2 DEF Inv, ThemeOK, Files
<1> QED
  BY <1>1, <1>2, <1>3, <1>4, <1>5, <1>6, CrashedKeeps

\* One in the middle of writing leaves nothing.
LEMMA CrashWritingKeeps ==
  ASSUME Inv, CrashWriting
  PROVE  Inv'
<1>1. <<>> \in Seq(Entries)
  BY EmptySeq
<1>2. Truncated \in Files /\ Truncated.theme # "missing" /\ Truncated.dirs = <<>>
  BY <1>1 DEF Truncated, Files, None
<1>3. /\ Crashed /\ file' = Truncated /\ wanted' = {} /\ excuse' = NoExcuse /\ chosen' = None
  BY DEF CrashWriting
<1>4. DirsOf(file') = {} /\ Due' = {} /\ excuse' \in [Dirs -> Excuses]
  BY <1>2, <1>3, EmptyRange DEF DirsOf, Due, NoExcuse, Excuses
<1> QED
  BY <1>2, <1>3, <1>4, CrashedKeeps

LEMMA MountKeeps ==
  ASSUME Inv, NEW dir \in Dirs, Mount(dir)
  PROVE  Inv'
<1> USE DEF Inv
<1>1. /\ UNCHANGED <<file, gSearchDirectoriesGames, gTheme, lastGamePath, settings, phase,
                     linesRead, wanted, excuse, chosen, stale>>
      /\ mounted' \in {mounted \ {dir}, mounted \cup {dir}}
  BY DEF Mount, ram, history
<1>2. FileOK'
  BY <1>1 DEF FileOK
<1> QED
  BY <1>1, <1>2, DirsSame, ThemeKept, PathKept

-----------------------------------------------------------------------------
LEMMA StepInv == Inv /\ [Next]_vars => Inv'
<1> SUFFICES ASSUME Inv, [Next]_vars PROVE Inv'
  OBVIOUS
<1>1. CASE createTemplate \/ loadConfig \/ LoadDirectory \/ LoadEnds
  BY <1>1, createTemplateKeeps, loadConfigKeeps, LoadDirectoryKeeps, LoadEndsKeeps
<1>2. CASE MainScreen \/ LeaveSettings \/ DestroyMain \/ DestroySettings
  BY <1>2, MainScreenKeeps, LeaveSettingsKeeps, DestroyMainKeeps, DestroySettingsKeeps
<1>3. CASE ScreensEnd \/ Quit \/ Crash \/ CrashWriting
  BY <1>3, ScreensEndKeeps, QuitKeeps, CrashKeeps, CrashWritingKeeps
<1>4. ASSUME NEW n \in 1 .. MaxSettings, SettingsScreen(n) PROVE Inv'
  BY <1>4, SettingsScreenKeeps
<1>5. ASSUME NEW place \in Places, Browse(place) PROVE Inv'
  BY <1>5, BrowseKeeps
<1>6. ASSUME NEW theme \in Themes, OnThemeChanged(theme) PROVE Inv'
  BY <1>6, OnThemeChangedKeeps
<1>7. ASSUME NEW dir \in Dirs, NEW slash \in BOOLEAN, addSearchPathToConfigFile(dir, slash)
      PROVE  Inv'
  BY <1>7, AddKeeps
<1>8. ASSUME NEW i \in DOMAIN gSearchDirectoriesGames, OnDeleteSearchDirectories(i)
      PROVE  Inv'
  BY <1>8, DeleteKeeps
<1>9. ASSUME NEW dir \in Dirs, Mount(dir) PROVE Inv'
  BY <1>9, MountKeeps
<1>10. CASE UNCHANGED vars
  <2>1. UNCHANGED <<file, gSearchDirectoriesGames, gTheme, lastGamePath, settings, phase,
                    linesRead, mounted, wanted, excuse, chosen, stale>>
    BY <1>10 DEF vars, ram, history
  <2> QED
    BY <2>1, FileKept, DirsSame, ThemeKept, PathKept DEF Inv
<1>11. ASSUME NEW dir \in Dirs, NEW slash \in BOOLEAN, GamingFolder(dir, slash)
       PROVE  Inv'
  BY <1>11, GamingFolderKeeps
<1> QED
  BY <1>1, <1>2, <1>3, <1>4, <1>5, <1>6, <1>7, <1>8, <1>9, <1>10, <1>11 DEF Next

LEMMA AlwaysInv == Spec => []Inv
  BY InitInv, StepInv, PTL DEF Spec

\* The lines of the file, the copies of it and what is in memory keep their types through
\* every rewriting and every crash.
THEOREM ConfigTypeCorrect == Spec => []TypeOK
<1>1. Inv => TypeOK
  BY DEF Inv, FileOK, DirsOK, ThemeOK, PathOK, TypeOK, Files, Entries
<1> QED
  BY <1>1, AlwaysInv, PTL

\* A directory is searched once, whatever lines of it the file has: each with a slash or
\* without, added again after a crash, or while its disk was away (setPathToGames).
THEOREM DirectoriesOnce == Spec => []NoDirectoryTwice
<1>1. Inv => NoDirectoryTwice
  BY DEF Inv, DirsOK
<1> QED
  BY <1>1, AlwaysInv, PTL

\* What is searched is on file, unless its line was refused by a file without lines: no
\* destructor, of whichever screen and with however old a copy, takes it off.
THEOREM SearchedOnFile == Spec => []SearchedDirectoriesAreOnFile
<1>1. Inv => SearchedDirectoriesAreOnFile
  BY DEF Inv, DirsOK
<1> QED
  BY <1>1, AlwaysInv, PTL

\* The user loses no directory but one that was not there when it was to be searched, was
\* left unread by a start that was stopped, or whose line was refused as a duplicate.
THEOREM DirectoriesKept == Spec => []DirectoriesAreKept
<1>1. Inv => DirectoriesAreKept
  BY DEF Inv, DirsOK
<1> QED
  BY <1>1, AlwaysInv, PTL

\* The theme survives settings screens that are left, that are closed with the window, and
\* that remember another one.
THEOREM ThemeKeptOnFile == Spec => []ChosenThemeIsKept
<1>1. Inv => ChosenThemeIsKept
  BY DEF Inv, ThemeOK, ChosenThemeIsKept
<1> QED
  BY <1>1, AlwaysInv, PTL

\* The main screen finds its last directory on file, unless settings screens have outlived
\* it, whose copies are older.
THEOREM PathKeptOnFile == Spec => []LastPathIsKept
<1>1. Inv => LastPathIsKept
  BY DEF Inv, PathOK
<1> QED
  BY <1>1, AlwaysInv, PTL
=============================================================================

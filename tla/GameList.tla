------------------------------ MODULE GameList ------------------------------
(***************************************************************************)
(* The list of games (emu.cpp): the search through a directory and the     *)
(* ones in it, the removal of the files a cue file stands for, and the     *)
(* list the games of several searches are collected in.                    *)
(*                                                                         *)
(* One iteration of each loop of findAllFiles, stripList and finalizeList  *)
(* is one step.  The order of readdir is any order.                        *)
(***************************************************************************)
EXTENDS Integers, Sequences, SequencesExt, FiniteSets

CONSTANTS
  Root,           \* a directory that is searched
  Subdirs,        \* the directories in it
  Excluded,       \* those with "ps3", "xbox", "bios" or the like in their path
  Universe,       \* the files there may be: [dir, stem, ext]
  Contents,       \* what a cue file may hold: sequences of names
  InWorkingDir,   \* names of files in the directory Marley runs in
  MaxFiles        \* bound: files on disk

ASSUME DirsAssumption == Root \notin Subdirs /\ Excluded \subseteq Subdirs
ASSUME UniverseAssumption ==
  \A f \in Universe : /\ f.dir \in Subdirs \cup {Root}
                      /\ f.ext \in {"bin", "mdf", "cue", "iso", "txt"}
ASSUME FilesAssumption == Universe \cap (Subdirs \cup {Root}) = {}
ASSUME ContentsAssumption == \A refs \in Contents : refs \in Seq(STRING \X STRING)
ASSUME BoundAssumption == MaxFiles \in Nat

VARIABLES
  disk,           \* the files there are, with what each refers to
  phase,          \* "idle", or the loop of buildGameList that runs
  open,           \* directories being read: what is left of each
  stopSearching,
  recursive,      \* recursiveSearch: FALSE when the main screen lists a directory
  tmpList, toBeRemoved,
  i, j, at,       \* the counters of the loops and the position of iteratorTmpList
  gGame, gGamesFound,
  searched        \* history: the directories read since the list was empty

lists  == <<tmpList, toBeRemoved>>
loops  == <<i, j, at>>
result == <<gGame, gGamesFound, searched>>
vars   == <<disk, phase, open, stopSearching, recursive, lists, loops, result>>

Name(f)  == <<f.stem, f.ext>>
Files    == DOMAIN disk
FilesIn(dir) == {f \in Files : f.dir = dir}
Games    == {f \in Files : f.ext # "txt" /\ f.dir \notin Excluded}

\* A file name found from the directory of a cue file, or from the working directory.
Exists(dir, name) ==
  \/ name \in InWorkingDir
  \/ \E f \in FilesIn(dir) : Name(f) = name

\* The lines FILE "..." of a cue file up to the first that names no file.
GoodLines(cue) ==
  LET refs == disk[cue]
      Good(n) == \A k \in 1 .. n : Exists(cue.dir, refs[k])
  IN  SubSeq(refs, 1, CHOOSE n \in 0 .. Len(refs) :
                        Good(n) /\ (n = Len(refs) \/ ~Good(n + 1)))

ValidCue(cue) == disk[cue] # <<>> /\ GoodLines(cue) = disk[cue]

HasBin(mdf) == \E f \in FilesIn(mdf.dir) : f.stem = mdf.stem /\ f.ext = "bin"

\* A directory that has been opened; its subdirectories are left out when the main
\* screen lists it.
Directory(dir, all) ==
  [dir |-> dir, left |-> FilesIn(dir) \cup (IF dir = Root /\ all THEN Subdirs ELSE {})]
-----------------------------------------------------------------------------
Init ==
  /\ \E files \in {F \in SUBSET Universe : Cardinality(F) <= MaxFiles} :
       disk \in {d \in [files -> Contents \cup {<<>>}] :
                   \A f \in files : f.ext # "cue" => d[f] = <<>>}
  /\ phase = "idle" /\ open = <<>> /\ stopSearching = FALSE /\ recursive = TRUE
  /\ tmpList = <<>> /\ toBeRemoved = <<>> /\ i = 1 /\ j = 0 /\ at = 1
  /\ gGame = <<>> /\ gGamesFound = FALSE /\ searched = {}

\* A search begins, with stopSearching FALSE: buildGameList for a search directory,
\* Refresh of the main screen for the directory on show.
Search(dir, all) ==
  /\ phase = "idle"
  /\ stopSearching' \in BOOLEAN /\ recursive' = all
  /\ tmpList' = <<>> /\ toBeRemoved' = <<>>
  /\ open' = <<Directory(dir, all)>>
  /\ phase' = "find"
  /\ UNCHANGED <<disk, loops, result>>

\* resetSearch, called on its own when a search directory is deleted.
resetSearch ==
  /\ phase = "idle"
  /\ gGame' = <<>> /\ gGamesFound' = FALSE /\ searched' = {} /\ stopSearching' = FALSE
  /\ UNCHANGED <<disk, phase, open, recursive, lists, loops>>

-----------------------------------------------------------------------------
(* findAllFiles                                                            *)

Reading == phase = "find" /\ open # <<>>

\* The entry is not read again.
Read(entry) == [open EXCEPT ![Len(open)].left = @ \ {entry}]

\* Every so many directories the event loop runs before a directory is opened, and ESC
\* stops the search: here as in Search, stopSearching' is any.
OpenDirectory(dir) ==
  /\ Reading /\ ~stopSearching
  /\ dir \in Last(open).left
  /\ open' = Append(Read(dir), Directory(dir, TRUE))
  /\ stopSearching' \in BOOLEAN
  /\ UNCHANGED <<disk, phase, recursive, lists, loops, result>>

Take(f) == tmpList' = Append(tmpList, f)

\* Mutant of ReadFile: the name of an excluded directory is not looked at.
ReadAnyFile(f) ==
  /\ Reading /\ ~stopSearching
  /\ f \in Last(open).left
  /\ open' = Read(f)
  /\ toBeRemoved' = IF f.ext = "cue" THEN toBeRemoved \o GoodLines(f) ELSE toBeRemoved
  /\ IF (f.ext = "cue" => ValidCue(f)) /\ (f.ext = "mdf" => ~HasBin(f))
     THEN Take(f) ELSE UNCHANGED tmpList
  /\ UNCHANGED <<disk, phase, stopSearching, recursive, loops, result>>

\* A file: a cue file is a game if it is valid, and its files are noted to be removed
\* line by line; an mdf file if there is no bin file; any other game as it is.
ReadFile(f) ==
  /\ Reading /\ ~stopSearching
  /\ f \in Last(open).left
  /\ open' = Read(f)
  /\ toBeRemoved' = IF f \in Games /\ f.ext = "cue" THEN toBeRemoved \o GoodLines(f)
                    ELSE toBeRemoved
  /\ IF f \in Games /\ (f.ext = "cue" => ValidCue(f)) /\ (f.ext = "mdf" => ~HasBin(f))
     THEN Take(f) ELSE UNCHANGED tmpList
  /\ UNCHANGED <<disk, phase, stopSearching, recursive, loops, result>>

CloseDirectory ==
  /\ Reading /\ (stopSearching \/ Last(open).left = {})
  /\ open' = Front(open)
  /\ searched' = IF stopSearching THEN searched ELSE searched \cup {Last(open).dir}
  /\ UNCHANGED <<disk, phase, stopSearching, recursive, lists, loops, gGame, gGamesFound>>

AllFilesFound ==
  /\ phase = "find" /\ open = <<>>
  /\ phase' = "strip"
  /\ i' = 1 /\ j' = 0 /\ at' = 1
  /\ UNCHANGED <<disk, open, stopSearching, recursive, lists, result>>
-----------------------------------------------------------------------------
(* stripList                                                               *)

\* The file at the iterator: it is erased when its name is to be removed.
StripFile ==
  /\ phase = "strip" /\ i <= Len(toBeRemoved) /\ j < Len(tmpList)
  /\ IF Name(tmpList[at]) = toBeRemoved[i]
     THEN tmpList' = RemoveAt(tmpList, at) /\ UNCHANGED at
     ELSE at' = at + 1 /\ UNCHANGED tmpList
  /\ j' = j + 1
  /\ UNCHANGED <<disk, phase, open, stopSearching, recursive, toBeRemoved, i, result>>

\* Mutants of StripNext: the iterator stays where it is; it is put before the list; the
\* same name is removed again.
StripNextFromHere ==
  /\ phase = "strip" /\ i <= Len(toBeRemoved) /\ j >= Len(tmpList)
  /\ i' = i + 1 /\ j' = 0
  /\ UNCHANGED <<disk, phase, open, stopSearching, recursive, lists, at, result>>

StripNextFromZero ==
  /\ phase = "strip" /\ i <= Len(toBeRemoved) /\ j >= Len(tmpList)
  /\ i' = i + 1 /\ j' = 0 /\ at' = 0
  /\ UNCHANGED <<disk, phase, open, stopSearching, recursive, lists, result>>

StripNextAgain ==
  /\ phase = "strip" /\ i <= Len(toBeRemoved) /\ j >= Len(tmpList)
  /\ j' = 0 /\ at' = 1
  /\ UNCHANGED <<disk, phase, open, stopSearching, recursive, lists, i, result>>

\* The next name to be removed, from the start of the list.
StripNext ==
  /\ phase = "strip" /\ i <= Len(toBeRemoved) /\ j >= Len(tmpList)
  /\ i' = i + 1 /\ j' = 0 /\ at' = 1
  /\ UNCHANGED <<disk, phase, open, stopSearching, recursive, lists, result>>

Stripped ==
  /\ phase = "strip" /\ i > Len(toBeRemoved)
  /\ phase' = "finalize" /\ i' = 1
  /\ UNCHANGED <<disk, open, stopSearching, recursive, lists, j, at, result>>
-----------------------------------------------------------------------------
(* finalizeList                                                            *)

\* Mutants of FinalizeFile: the list is not looked at; a game is put in front of it.
FinalizeAnyFile ==
  /\ phase = "finalize" /\ i <= Len(tmpList)
  /\ gGame' = Append(gGame, tmpList[i])
  /\ i' = i + 1
  /\ UNCHANGED <<disk, phase, open, stopSearching, recursive, lists, j, at,
                 gGamesFound, searched>>

FinalizeFileInFront ==
  /\ phase = "finalize" /\ i <= Len(tmpList)
  /\ gGame' = IF tmpList[i] \in Range(gGame) THEN gGame ELSE <<tmpList[i]>> \o gGame
  /\ i' = i + 1
  /\ UNCHANGED <<disk, phase, open, stopSearching, recursive, lists, j, at,
                 gGamesFound, searched>>

\* One file: it is added unless it is in the list.
FinalizeFile ==
  /\ phase = "finalize" /\ i <= Len(tmpList)
  /\ gGame' = IF tmpList[i] \in Range(gGame) THEN gGame ELSE Append(gGame, tmpList[i])
  /\ i' = i + 1
  /\ UNCHANGED <<disk, phase, open, stopSearching, recursive, lists, j, at,
                 gGamesFound, searched>>

\* The end of the search: updateSearchPath, the menu and initEMU drop the list when a
\* search was stopped, the main screen keeps it.
Finalized ==
  /\ phase = "finalize" /\ i > Len(tmpList)
  /\ phase' = "idle"
  /\ IF stopSearching /\ recursive
     THEN gGame' = <<>> /\ gGamesFound' = FALSE /\ searched' = {}
     ELSE gGamesFound' = (gGame # <<>>) /\ UNCHANGED <<gGame, searched>>
  /\ UNCHANGED <<disk, open, stopSearching, recursive, lists, loops>>
-----------------------------------------------------------------------------
findAllFiles ==
  \/ \E dir \in Subdirs : OpenDirectory(dir)
  \/ \E f \in Files : ReadFile(f)
  \/ CloseDirectory \/ AllFilesFound

stripList == StripFile \/ StripNext \/ Stripped

finalizeList == FinalizeFile \/ Finalized

buildGameList == findAllFiles \/ stripList \/ finalizeList

Next ==
  \/ \E dir \in Subdirs \cup {Root}, all \in BOOLEAN : Search(dir, all)
  \/ resetSearch
  \/ buildGameList

Spec == Init /\ [][Next]_vars

\* The loops run to their ends.
FairSpec == Spec /\ WF_vars(buildGameList)
-----------------------------------------------------------------------------
Exts  == {"bin", "mdf", "cue", "iso", "txt"}
Names == {Name(f) : f \in Universe} \cup UNION {Range(refs) : refs \in Contents}

\* Every variable has a value of its type; only files that exist are collected.
TypeOK ==
  /\ Files \subseteq Universe
  /\ phase \in {"idle", "find", "strip", "finalize"}
  /\ open \in Seq([dir : Subdirs \cup {Root}, left : SUBSET (Files \cup Subdirs)])
  /\ stopSearching \in BOOLEAN /\ recursive \in BOOLEAN
  /\ tmpList \in Seq(Files) /\ toBeRemoved \in Seq(Names)
  /\ i \in Nat \ {0} /\ j \in Nat /\ at \in Nat \ {0}
  /\ gGame \in Seq(Files) /\ gGamesFound \in BOOLEAN /\ searched \subseteq Subdirs \cup {Root}

\* The iterator of stripList is at a file whenever it is read, though the loop counts
\* to a size that shrinks while it erases (emu.cpp:1037-1059).
IteratorInList == phase = "strip" /\ j < Len(tmpList) => at \in DOMAIN tmpList

\* Searches of a directory, of a directory above it and listings of it by the main
\* screen add each game once.
NoGameTwice == IsInjective(gGame)

\* A file a valid cue file in its directory stands for.
InACue(f) ==
  \E cue \in Games : /\ cue.ext = "cue" /\ ValidCue(cue) /\ cue.dir = f.dir
                     /\ Name(f) \in Range(disk[cue])

\* The comment of create_cue_file: the games are the valid cue files, and the bin, mdf
\* and other files that are in no valid cue file.
Listed == {f \in Games : /\ f.ext = "cue" => ValidCue(f)
                         /\ f.ext = "mdf" => ~HasBin(f)
                         /\ ~InACue(f)}

\* Files of one name in two directories, a cue file that is broken after a good line,
\* and one that names a file in the working directory are what the search gets wrong.
Plain ==
  /\ \A f, g \in Files : Name(f) = Name(g) => f = g
  /\ \A cue \in Games :
       /\ GoodLines(cue) \in {<<>>, disk[cue]}
       /\ \A name \in Range(GoodLines(cue)) : \E f \in FilesIn(cue.dir) : Name(f) = name

\* Else, whatever the order of readdir and of the searches, of which some were stopped,
\* the list has what it should have of the directories read, and nothing more.
SearchFindsTheGames ==
  phase = "idle" /\ Plain => Range(gGame) = {f \in Listed : f.dir \in searched}

\* The menu, its picture and the screens keep the position of a game (gCurrentGame): no
\* search moves a game that is in the list, adds one twice or takes one out alone, and
\* none makes the menu offer an empty list (emu.cpp:1216-1242).
Cat == INSTANCE Catalog WITH Games <- Universe, list <- gGame, offered <- gGamesFound
ImplementsCatalog == Cat!Spec

\* Every search comes to its end.
SearchEnds == phase = "find" ~> phase = "idle"

\* "In this case, only the cue file will show up in the game list. The "bin" or "mdf"
\* files are removed" (statemachine.cpp:125-127).
OnlyTheCueShows ==
  phase = "idle" => \A f \in Range(gGame) : f.ext \in {"bin", "mdf"} => ~InACue(f)
=============================================================================

----------------------------- MODULE ConfigFile -----------------------------
(***************************************************************************)
(* The configuration file marley.cfg and the copies of it that Marley      *)
(* keeps: the directories it searches, the theme, the directory the main   *)
(* screen was in, and the lines every settings screen remembers from its   *)
(* constructor and writes back in its destructor.                          *)
(*                                                                         *)
(* A file has the header lines that are only copied (version, comments,    *)
(* directories for firmware), at most one theme and one last directory,    *)
(* and its search_dir_games lines in order.  system_sounds is read and     *)
(* written where the theme is and left out.                                *)
(***************************************************************************)
EXTENDS Integers, Sequences, SequencesExt

CONSTANTS
  Dirs,             \* directories the user may have games in
  Template,         \* the directory named in the template of the file
  Removable,        \* those of Dirs that come and go
  Places,           \* directories the main screen can be in
  Home,             \* $HOME, one of Places
  MaxSettings,      \* bound: settings screens at a time
  Faults            \* subset of {"crash", "truncate", "cancel", "unplug"}

ASSUME NamesAssumption == Template \notin Dirs /\ Removable \subseteq Dirs /\ Home \in Places
ASSUME BoundAssumption == MaxSettings \in Nat \ {0}

None == "none"
Themes == {"PC", "Retro"}

VARIABLES
  file,             \* marley.cfg
  gSearchDirectoriesGames, gTheme,
  lastGamePath,
  settings,         \* marley_cfg_entries of the open settings screens
  phase,            \* what runs
  linesRead,        \* loadConfig: the search_dir_games lines read so far
  mounted,          \* the directories that exist
  wanted,           \* history: directories the user has asked for
  excuse,           \* history: why one of them may not be on file
  chosen,           \* history: the theme the user has chosen
  stale             \* history: settings screens outlived the main screen

ram     == <<gSearchDirectoriesGames, gTheme, lastGamePath>>
history == <<wanted, excuse, chosen, stale>>
vars    == <<file, ram, settings, phase, linesRead, mounted, history>>

\* Away: it was not there when it was to be searched.  Unread: a start was stopped before
\* its line.  Refused: addSettingToConfigFile took its line for a duplicate.
Excuses == {"none", "away", "unread", "refused"}
NoExcuse == [dir \in Dirs |-> "none"]
Excused(why) == {dir \in Dirs : excuse[dir] = why}

\* A line search_dir_games=<dir>, with or without a slash at its end.
Line(dir, slash) == [dir |-> dir, slash |-> slash]

Truncated == [head |-> FALSE, theme |-> None, last |-> None, dirs |-> <<>>]
Missing == [Truncated EXCEPT !.theme = "missing"]

FileDirs == {line.dir : line \in Range(file.dirs)}

HasLines == file.head \/ file.theme # None \/ file.last # None \/ file.dirs # <<>>

\* Mutants of setPathToGames: the directories are not compared; nor looked at.
SetPathTwice(dirs, dir) == IF dir \notin mounted THEN dirs ELSE Append(dirs, dir)
SetPathAnyway(dirs, dir) == IF dir \in Range(dirs) THEN dirs ELSE Append(dirs, dir)

\* setPathToGames: a directory is taken once, if it exists.
setPathToGames(dirs, dir) ==
  IF dir \in Range(dirs) \/ dir \notin mounted THEN dirs ELSE Append(dirs, dir)

-----------------------------------------------------------------------------
(* The start of the program.                                               *)

Init ==
  /\ file = Missing /\ phase = "off" /\ settings = <<>> /\ linesRead = 0
  /\ gSearchDirectoriesGames = <<>> /\ gTheme = "Retro" /\ lastGamePath = None
  /\ mounted \in {Dirs \ gone : gone \in SUBSET Removable}
  /\ wanted = {} /\ excuse = NoExcuse /\ chosen = None /\ stale = FALSE

\* checkConf without a file: the template is written, and not loaded.
createTemplate ==
  /\ phase = "off" /\ file = Missing
  /\ file' = [Truncated EXCEPT !.head = TRUE, !.dirs = <<Line(Template, TRUE)>>]
  /\ phase' = "games"
  /\ UNCHANGED <<ram, settings, linesRead, mounted, history>>

\* checkConf with a file.
loadConfig ==
  /\ phase = "off" /\ file # Missing
  /\ gTheme' = "Retro" /\ phase' = "load"
  /\ UNCHANGED <<file, gSearchDirectoriesGames, lastGamePath, settings, linesRead, mounted,
                 history>>

\* What becomes of a directory that setPathToGames was asked to take.
Looked(dir, dirs) ==
  [d \in Dirs |-> IF d # dir THEN excuse[d] ELSE IF d \in Range(dirs) THEN "none" ELSE "away"]

\* A line with a directory, which is then searched for games.
LoadDirectory ==
  /\ phase = "load" /\ linesRead < Len(file.dirs)
  /\ linesRead' = linesRead + 1
  /\ LET dir == file.dirs[linesRead + 1].dir
     IN  /\ gSearchDirectoriesGames' = setPathToGames(gSearchDirectoriesGames, dir)
         /\ excuse' = Looked(dir, gSearchDirectoriesGames')
  /\ UNCHANGED <<file, gTheme, lastGamePath, settings, phase, mounted, wanted, chosen, stale>>

\* The directories on the lines that have not been read.
LinesLeft == {file.dirs[i].dir : i \in linesRead + 1 .. Len(file.dirs)}

\* The file ends; or ESC in the search that follows a line stops the reading after it,
\* the line of the theme read or not.
LoadEnds ==
  /\ phase = "load"
  /\ \/ linesRead = Len(file.dirs) /\ file.theme = None /\ UNCHANGED gTheme
     \/ linesRead = Len(file.dirs) /\ file.theme # None /\ gTheme' = file.theme
     \/ "cancel" \in Faults /\ gTheme' \in {gTheme, file.theme} \cap Themes
  /\ excuse' = [dir \in Dirs |-> IF dir \in LinesLeft \ Range(gSearchDirectoriesGames)
                                THEN "unread" ELSE excuse[dir]]
  /\ phase' = "games" /\ linesRead' = 0
  /\ UNCHANGED <<file, gSearchDirectoriesGames, lastGamePath, settings, mounted, wanted,
                 chosen, stale>>

-----------------------------------------------------------------------------
(* The screens.                                                            *)

\* The constructor of the main screen; the directory may be gone.
MainScreen ==
  /\ phase = "games"
  /\ LET last == IF file.last # None THEN file.last ELSE lastGamePath
     IN  \/ lastGamePath' = IF last # None THEN last ELSE Home
         \/ "unplug" \in Faults /\ lastGamePath' = Home
  /\ phase' = "screens" /\ stale' = FALSE
  /\ UNCHANGED <<file, gSearchDirectoriesGames, gTheme, settings, linesRead, mounted, wanted,
                 excuse, chosen>>

\* Refresh of the browser of games.
Browse(place) ==
  /\ phase = "screens" /\ settings = <<>>
  /\ lastGamePath' = place
  /\ UNCHANGED <<file, gSearchDirectoriesGames, gTheme, settings, phase, linesRead, mounted, history>>

\* The constructor of a settings screen, n times for n clicks in a frame.  The
\* search_dir_games lines of the copy are never written and left out.
SettingsScreen(n) ==
  /\ phase = "screens" /\ settings = <<>>
  /\ gTheme' = IF file.theme # None THEN file.theme ELSE gTheme
  /\ settings' = [i \in 1 .. n |-> [file EXCEPT !.dirs = <<>>]]
  /\ UNCHANGED <<file, gSearchDirectoriesGames, lastGamePath, phase, linesRead, mounted, history>>

\* The choice of a theme.
OnThemeChanged(theme) ==
  /\ phase = "screens" /\ settings # <<>>
  /\ gTheme' = theme /\ chosen' = theme
  /\ UNCHANGED <<file, gSearchDirectoriesGames, lastGamePath, settings, phase, linesRead, mounted,
                 wanted, excuse, stale>>

\* addSettingToConfigFile's duplicate: not initialised when the file has no lines.
Duplicate(line) == IF HasLines THEN {line \in Range(file.dirs)} ELSE BOOLEAN

\* Mutant of addSearchPathToConfigFile: the file is not written.
AddToMemoryOnly(dir, slash) ==
  /\ phase = "screens" /\ settings # <<>>
  /\ gSearchDirectoriesGames' = setPathToGames(gSearchDirectoriesGames, dir)
  /\ UNCHANGED <<file, gTheme, lastGamePath, settings, phase, linesRead, mounted, history>>

\* START on a directory of the browser, which may have gone since it was listed; the
\* line ends with a slash for "..".  A directory whose line is on file is not searched,
\* even if it is not in memory: deleted before, or not read by loadConfig.
addSearchPathToConfigFile(dir, slash) ==
  /\ phase = "screens" /\ settings # <<>>
  /\ dir \in mounted \/ "unplug" \in Faults
  /\ \E duplicate \in Duplicate(Line(dir, slash)) :
       IF duplicate
       THEN /\ UNCHANGED <<file, gSearchDirectoriesGames>>
            /\ excuse' = IF dir \in Range(gSearchDirectoriesGames) THEN excuse
                         ELSE [excuse EXCEPT ![dir] = "refused"]
       ELSE /\ file' = [file EXCEPT !.dirs = Append(@, Line(dir, slash))]
            /\ gSearchDirectoriesGames' = setPathToGames(gSearchDirectoriesGames, dir)
            /\ excuse' = Looked(dir, gSearchDirectoriesGames')
  /\ wanted' = wanted \cup {dir}
  /\ UNCHANGED <<gTheme, lastGamePath, settings, phase, linesRead, mounted, chosen, stale>>

\* RETURN in the menu's field for a directory of games, before the screens or in the event
\* loop inside a search.  Memory comes first, and has it whether or not the line is added.
GamingFolder(dir, slash) ==
  /\ phase \in {"load", "games", "screens"} /\ (phase = "load" => file.head \/ linesRead > 0)
  /\ dir \in mounted /\ dir \notin Range(gSearchDirectoriesGames)
  /\ gSearchDirectoriesGames' = setPathToGames(gSearchDirectoriesGames, dir)
  /\ \E duplicate \in Duplicate(Line(dir, slash)) :
       file' = IF duplicate THEN file ELSE [file EXCEPT !.dirs = Append(@, Line(dir, slash))]
  /\ wanted' = wanted \cup {dir}
  /\ excuse' = [excuse EXCEPT ![dir] = IF Line(dir, slash) \in Range(file'.dirs)
                                       THEN "none" ELSE "refused"]
  /\ UNCHANGED <<gTheme, lastGamePath, settings, phase, linesRead, mounted, chosen, stale>>

\* The lines of the copy are not written again anyway.
OnDeleteSearchDirectories(i) ==
  /\ phase = "screens" /\ settings # <<>>
  /\ gSearchDirectoriesGames' = RemoveAt(gSearchDirectoriesGames, i)
  /\ wanted' = wanted \ {gSearchDirectoriesGames[i]}
  /\ excuse' = [excuse EXCEPT ![gSearchDirectoriesGames[i]] = "none"]
  /\ UNCHANGED <<file, gTheme, lastGamePath, settings, phase, linesRead, mounted, chosen, stale>>

\* Mutants of Saved: a theme line of the copy is kept; the last directory is forgotten.
SavedOldTheme(copy) ==
  [copy EXCEPT !.theme = IF @ = None THEN gTheme ELSE @,
               !.dirs = [i \in DOMAIN gSearchDirectoriesGames |->
                           Line(gSearchDirectoriesGames[i], TRUE)]]
SavedOneLess(copy) ==
  [copy EXCEPT !.theme = gTheme,
               !.dirs = [i \in 1 .. Len(gSearchDirectoriesGames) - 1 |->
                           Line(gSearchDirectoriesGames[i], TRUE)]]

\* What the destructor of a settings screen writes: its copy with the present theme
\* and the present search directories.
Saved(copy) ==
  [copy EXCEPT !.theme = gTheme,
               !.dirs = [i \in DOMAIN gSearchDirectoriesGames |->
                           Line(gSearchDirectoriesGames[i], TRUE)]]

\* The destructor: what is in memory is then on file.
Write(copy) ==
  /\ file' = Saved(copy)
  /\ excuse' = [dir \in Dirs |-> IF dir \in Range(gSearchDirectoriesGames) THEN "none"
                                 ELSE excuse[dir]]
  /\ UNCHANGED <<ram, phase, linesRead, mounted, wanted, chosen, stale>>

\* The settings screen on top is left.
LeaveSettings ==
  /\ phase = "screens" /\ settings # <<>>
  /\ Write(settings[Len(settings)])
  /\ settings' = Front(settings)

\* Mutant of DestroyMain: the line is added when it is missing, and never replaced.
DestroyMainAdding ==
  /\ phase = "screens"
  /\ file' = [file EXCEPT !.last = IF @ = None THEN lastGamePath ELSE @]
  /\ phase' = "shutdown" /\ stale' = (settings # <<>>)
  /\ UNCHANGED <<ram, settings, linesRead, mounted, wanted, excuse, chosen>>

\* The screens end, the lowest is destroyed first: the destructor of the main screen.
DestroyMain ==
  /\ phase = "screens"
  /\ file' = [file EXCEPT !.last = lastGamePath]
  /\ phase' = "shutdown" /\ stale' = (settings # <<>>)
  /\ UNCHANGED <<ram, settings, linesRead, mounted, wanted, excuse, chosen>>

DestroySettings ==
  /\ phase = "shutdown" /\ settings # <<>>
  /\ Write(Head(settings))
  /\ settings' = Tail(settings)

\* All screens are destroyed: a game is launched and the screens come back, or
\* Marley ends.
ScreensEnd ==
  /\ phase = "shutdown" /\ settings = <<>>
  /\ phase' = "games"
  /\ UNCHANGED <<file, ram, settings, linesRead, mounted, history>>

Quit ==
  /\ phase = "games"
  /\ phase' = "off"
  /\ gSearchDirectoriesGames' = <<>> /\ lastGamePath' = None
  /\ UNCHANGED <<file, gTheme, settings, linesRead, mounted, history>>

-----------------------------------------------------------------------------
(* Faults.                                                                 *)

\* What is in memory is gone.
Crashed ==
  /\ phase' = "off" /\ settings' = <<>> /\ linesRead' = 0
  /\ gSearchDirectoriesGames' = <<>> /\ lastGamePath' = None /\ stale' = FALSE
  /\ UNCHANGED <<gTheme, mounted>>

\* Between two operations, a game takes Marley with it.  The file is what it was: the user
\* has lost the deletions and the theme of a settings screen that is open, no more.
Crash ==
  /\ "crash" \in Faults /\ phase # "off"
  /\ Crashed
  /\ wanted' = wanted \cup (FileDirs \cap Dirs)
  /\ chosen' = IF settings = <<>> THEN chosen ELSE file.theme
  /\ UNCHANGED <<file, excuse>>

\* In a destructor, when the file was opened for writing and not yet written.  All that
\* was on file is lost: the user starts again with nothing.
CrashWriting ==
  /\ "truncate" \in Faults
  /\ \/ phase = "screens"
     \/ phase = "shutdown" /\ settings # <<>>
  /\ file' = Truncated
  /\ Crashed
  /\ wanted' = {} /\ excuse' = NoExcuse /\ chosen' = None

\* A disk is plugged in or unplugged.
Mount(dir) ==
  /\ dir \in Removable
  /\ mounted' = IF dir \in mounted THEN mounted \ {dir} ELSE mounted \cup {dir}
  /\ UNCHANGED <<file, ram, settings, phase, linesRead, history>>

-----------------------------------------------------------------------------

Next ==
  \/ createTemplate \/ loadConfig \/ LoadDirectory \/ LoadEnds \/ MainScreen
  \/ LeaveSettings
  \/ DestroyMain \/ DestroySettings \/ ScreensEnd \/ Quit \/ Crash \/ CrashWriting
  \/ \E n \in 1 .. MaxSettings : SettingsScreen(n)
  \/ \E place \in Places : Browse(place)
  \/ \E theme \in Themes : OnThemeChanged(theme)
  \/ \E dir \in Dirs, slash \in BOOLEAN : addSearchPathToConfigFile(dir, slash)
  \/ \E dir \in Dirs, slash \in BOOLEAN : GamingFolder(dir, slash)
  \/ \E i \in DOMAIN gSearchDirectoriesGames : OnDeleteSearchDirectories(i)
  \/ \E dir \in Dirs : Mount(dir)

Spec == Init /\ [][Next]_vars

-----------------------------------------------------------------------------
(* Properties.                                                             *)

\* Every variable has a value of its type; a file has no line of its own kind twice.
TypeOK ==
  /\ file.head \in BOOLEAN /\ file.theme \in Themes \cup {None, "missing"}
  /\ file.last \in Places \cup {None}
  /\ file.dirs \in Seq([dir : Dirs \cup {Template}, slash : BOOLEAN])
  /\ gSearchDirectoriesGames \in Seq(Dirs) /\ gTheme \in Themes
  /\ linesRead \in Nat
  /\ lastGamePath \in Places \cup {None} /\ Len(settings) <= MaxSettings
  /\ phase \in {"off", "load", "games", "screens", "shutdown"} /\ mounted \subseteq Dirs
  /\ wanted \subseteq Dirs /\ excuse \in [Dirs -> Excuses] /\ chosen \in Themes \cup {None}
  /\ stale \in BOOLEAN

\* Whatever lines the file has, with or without a slash, a directory is searched once.
NoDirectoryTwice == IsInjective(gSearchDirectoriesGames)

\* No step takes a directory off the file that Marley is searching: not a destructor
\* that writes an old copy, not the deletion of another directory.  One that was typed in
\* the menu may be missing, if the file had no lines (duplicate, marley.cpp:965), until a
\* settings screen is closed.
SearchedDirectoriesAreOnFile ==
  phase # "off" => Range(gSearchDirectoriesGames) \subseteq FileDirs \cup Excused("refused")

\* With no settings screen open, a directory the user asked for is on file, unless it was
\* not there when it was to be searched, a start was stopped before its line was read, or
\* its line was refused as a duplicate: closing a settings screen then takes it off the
\* file (SettingsScreen.cpp:728, 757), though Marley was never told to.  One that the user
\* deleted is not on file.
DirectoriesAreKept ==
  settings = <<>> => /\ wanted \cap Excused("none") \subseteq FileDirs
                     /\ FileDirs \subseteq wanted \cup {Template}

\* A directory that is there when it is added in the settings is searched from then on: the
\* settings show "Search path for bios files added" (SettingsScreen.cpp:2184).
AddedDirectoriesAreSearched ==
  [][\A dir \in mounted, slash \in BOOLEAN :
       addSearchPathToConfigFile(dir, slash) => dir \in Range(gSearchDirectoriesGames')]_vars

\* The theme chosen in the settings is on file once they are closed, also when they are
\* closed with the window, after the main screen has written the file.
ChosenThemeIsKept == settings = <<>> /\ chosen # None => file.theme = chosen

\* The next run of the screens starts where this one ended, unless the window was
\* closed over the settings.
LastPathIsKept == phase = "games" /\ lastGamePath # None /\ ~stale => file.last = lastGamePath

=============================================================================

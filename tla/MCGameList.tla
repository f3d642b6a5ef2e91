----------------------------- MODULE MCGameList -----------------------------
(* Instances of GameList: two directories and an excluded one in another.  *)
EXTENDS GameList

CONSTANTS root, a, b, bios

File(dir, stem, ext) == [dir |-> dir, stem |-> stem, ext |-> ext]

\* Two files of one name, two cue files, an mdf file with and without its bin file.
MCUniverse ==
  {File(a, "x", "cue"), File(a, "x", "bin"), File(b, "x", "bin"), File(a, "y", "bin"),
   File(a, "y", "mdf"), File(bios, "z", "iso"), File(b, "u", "cue"), File(root, "r", "txt")}

MCContents == {<<<<"x", "bin">>>>, <<<<"x", "bin">>, <<"y", "bin">>>>, <<<<"w", "bin">>>>}

MCInWorkingDir == {<<"w", "bin">>}
=============================================================================

------------------------------ MODULE MCGlobMatch ------------------------------
(***************************************************************************)
(* Small instances of GlobMatch for TLC: every pattern of up to three      *)
(* characters on every string of up to four.                               *)
(***************************************************************************)
EXTENDS GlobMatch, SequencesExt

(* An ordinary character, one that means something in a regex, one in a    *)
(* glob, and one no wildcard of the regex takes                            *)
CharactersOfKeys  == {"a", ".", "*", "\n"}
PatternCharacters == {"a", ".", "*", "?"}

ShortPatterns == SeqOf(PatternCharacters, 3)
ShortSubjects == SeqOf(Characters, 4)
===============================================================================

------------------------------- MODULE GlobMatch -------------------------------
(***************************************************************************)
(* The two glob matchers of the server: UtilityFunctions::matchPattern     *)
(* (utils/utility_functions.cpp), a loop that goes back to the last star   *)
(* when it is stuck, and the translation to a std::regex that KEYS uses    *)
(* (RedisDatabase::getMatchingKeys).  A step is one turn of a loop.        *)
(*                                                                         *)
(* Strings are sequences of characters.  Patterns with a backslash are     *)
(* left out: KEYS hands it on to std::regex, matchPattern takes it as it   *)
(* is, and nothing in the repository says what it means.                   *)
(***************************************************************************)
EXTENDS Integers, Sequences

CONSTANTS
  Characters,
  Patterns,         \* the patterns matched
  Subjects          \* the strings they are matched against

ASSUME GlobAssumption ==
  /\ Patterns \subseteq Seq(Characters \cup {"*", "?"})
  /\ Subjects \subseteq Seq(Characters)

VARIABLES
  pattern, str,     \* the arguments
  p, s,             \* how much of each has been matched
  star_p, star_s,   \* the last star met, and how much of str came before what
                    \* the rest of the pattern is tried on
  result            \* "pending", "true" or "false"

arguments == <<pattern, str>>
vars == <<arguments, p, s, star_p, star_s, result>>

npos == -1

Init ==
  /\ pattern \in Patterns /\ str \in Subjects
  /\ p = 0 /\ s = 0
  /\ star_p = npos /\ star_s = 0
  /\ result = "pending"

returns(r) == result' = r /\ UNCHANGED <<arguments, p, s, star_p, star_s>>

scanning == result = "pending" /\ pattern # <<"*">> /\ s < Len(str)

next(c) == p < Len(pattern) /\ pattern[p + 1] = c

fitsHere == next("?") \/ next(str[s + 1])

-----------------------------------------------------------------------------
StarAlone == result = "pending" /\ pattern = <<"*">> /\ returns("true")

MatchOne ==
  /\ scanning /\ fitsHere
  /\ p' = p + 1 /\ s' = s + 1
  /\ UNCHANGED <<arguments, star_p, star_s, result>>

(* Mutant: star_p = ++p                                                    *)
MeetStarPastIt ==
  /\ scanning /\ ~fitsHere /\ next("*")
  /\ star_p' = p + 1 /\ p' = p + 1
  /\ star_s' = s
  /\ UNCHANGED <<arguments, s, result>>

MeetStar ==
  /\ scanning /\ ~fitsHere /\ next("*")
  /\ star_p' = p /\ p' = p + 1
  /\ star_s' = s
  /\ UNCHANGED <<arguments, s, result>>

(* Mutant: the star takes no character more than before                    *)
GoBackToStarOnly ==
  /\ scanning /\ ~fitsHere /\ ~next("*") /\ star_p # npos
  /\ p' = star_p + 1
  /\ s' = star_s
  /\ UNCHANGED <<arguments, star_p, star_s, result>>

(* Mutant: the star takes what has been tried without success              *)
GoOnFromHere ==
  /\ scanning /\ ~fitsHere /\ ~next("*") /\ star_p # npos
  /\ p' = star_p + 1
  /\ star_s' = s + 1 /\ s' = s + 1
  /\ UNCHANGED <<arguments, star_p, result>>

GoBack ==
  /\ scanning /\ ~fitsHere /\ ~next("*") /\ star_p # npos
  /\ p' = star_p + 1
  /\ star_s' = star_s + 1 /\ s' = star_s + 1
  /\ UNCHANGED <<arguments, star_p, result>>

Stuck == scanning /\ ~fitsHere /\ ~next("*") /\ star_p = npos /\ returns("false")

finishing == result = "pending" /\ pattern # <<"*">> /\ s >= Len(str)

SkipStar ==
  /\ finishing /\ next("*")
  /\ p' = p + 1
  /\ UNCHANGED <<arguments, s, star_p, star_s, result>>

(* Mutant: what is left of the pattern is not looked at                    *)
FinishAnyway ==
  /\ finishing /\ ~next("*")
  /\ returns("true")

Finish ==
  /\ finishing /\ ~next("*")
  /\ returns(IF p = Len(pattern) THEN "true" ELSE "false")

Next == StarAlone \/ MatchOne \/ MeetStar \/ GoBack \/ Stuck \/ SkipStar \/ Finish

Spec == Init /\ [][Next]_vars

FairSpec == Spec /\ WF_vars(Next)

-----------------------------------------------------------------------------
(* What a glob means: the string can be cut into pieces, one for each      *)
(* character of the pattern, so that a star has any piece, a question mark *)
(* a piece of one character, and any other character itself.               *)
pieceFits(m, from, to) ==
  IF pattern[m] = "*" THEN from <= to
  ELSE to = from + 1 /\ pattern[m] \in {"?", str[to]}

fits(i, j) ==                  \* the first i of pattern match the first j of str
  \E cut \in [0 .. i -> 0 .. j] :
    /\ cut[0] = 0 /\ cut[i] = j
    /\ \A m \in 1 .. i : pieceFits(m, cut[m - 1], cut[m])

matches == fits(Len(pattern), Len(str))

(* std::regex: the star becomes ".*", the question mark ".", any character *)
(* with a meaning of its own gets a backslash.  "." is no line terminator. *)
lineTerminators == {"\n", "\r"}

(* Mutant: the dot of the pattern is not escaped                           *)
regexPieceFitsUnescaped(m, from, to) ==
  LET taken == {str[n] : n \in from + 1 .. to}
  IN  CASE pattern[m] = "*" -> from <= to /\ taken \cap lineTerminators = {}
        [] pattern[m] \in {"?", "."} -> to = from + 1 /\ taken \cap lineTerminators = {}
        [] OTHER -> to = from + 1 /\ str[to] = pattern[m]

regexPieceFits(m, from, to) ==
  LET taken == {str[n] : n \in from + 1 .. to}
  IN  CASE pattern[m] = "*" -> from <= to /\ taken \cap lineTerminators = {}
        [] pattern[m] = "?" -> to = from + 1 /\ taken \cap lineTerminators = {}
        [] OTHER -> to = from + 1 /\ str[to] = pattern[m]

regexMatches ==
  \E cut \in [0 .. Len(pattern) -> 0 .. Len(str)] :
    /\ cut[0] = 0 /\ cut[Len(pattern)] = Len(str)
    /\ \A m \in 1 .. Len(pattern) : regexPieceFits(m, cut[m - 1], cut[m])

-----------------------------------------------------------------------------
TypeOK ==
  /\ pattern \in Seq(Characters \cup {"*", "?"})
  /\ str \in Seq(Characters)
  /\ p \in 0 .. Len(pattern) /\ s \in 0 .. Len(str)
  /\ star_p \in {npos} \cup 0 .. Len(pattern) - 1
  /\ star_s \in 0 .. Len(str)
  /\ result \in {"pending", "true", "false"}

(* matchPattern accepts only strings the pattern matches, whatever they    *)
(* hold: no way of going back skips a piece of either.                     *)
AcceptsOnlyMatches == result = "true" => matches

(* The loop comes to an end: going back starts further on each time.       *)
Terminates == <>(result # "pending")

(* matchPattern accepts every string the pattern matches, as long as there *)
(* is no star in the string: only the last star is ever gone back to, and  *)
(* that is enough.  A star in the string is taken by the star of the       *)
(* pattern as an ordinary character: "*a" does not accept "*aa".           *)
AcceptsEveryMatch ==
  result = "false" /\ (\A n \in 1 .. Len(str) : str[n] # "*") => ~matches

(* KEYS lists keys the pattern matches, whatever they hold, and all of     *)
(* them that have no line terminator, which no wildcard of the regex takes.*)
KeysListsMatches ==
  /\ regexMatches => matches
  /\ matches /\ (\A n \in 1 .. Len(str) : str[n] \notin lineTerminators) => regexMatches
===============================================================================

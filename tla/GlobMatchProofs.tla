---------------------------- MODULE GlobMatchProofs ----------------------------
(***************************************************************************)
(* Proofs about GlobMatch, for patterns and strings of any length over any *)
(* characters: the loop of matchPattern accepts only what the pattern      *)
(* matches, and all of it if the string has no star in it; and the regex   *)
(* of KEYS matches what the pattern does, line terminators left aside.     *)
(*                                                                         *)
(* For soundness the invariant keeps a cut of what has been matched, up to *)
(* here and up to the last star.  For completeness it speaks of every cut  *)
(* of the whole string: each gives the last star at least what the loop    *)
(* has given it, and goes on from there as the loop does, so that one that *)
(* gives the star no more is refuted where the loop is stuck.              *)
(***************************************************************************)
EXTENDS GlobMatch, TLAPS

StarBehind ==
  IF star_p = npos
  THEN star_s = 0
  ELSE star_p < p /\ star_s <= s /\ pattern[star_p + 1] = "*"

(* A cut of the first j characters of str, as fits wants it                *)
cutsTo(cut, i, j) ==
  /\ cut \in [0 .. i -> 0 .. j]
  /\ cut[0] = 0 /\ cut[i] = j
  /\ \A m \in 1 .. i : pieceFits(m, cut[m - 1], cut[m])

wholeCut(cut) == cutsTo(cut, Len(pattern), Len(str))

MatchedSoFar ==
  /\ fits(p, s)
  /\ star_p # npos => fits(star_p + 1, star_s)

noStarIn(string) == \A n \in 1 .. Len(string) : string[n] # "*"

(* A cut gives the last star what the loop has given it, or more, and goes *)
(* on from there as the loop does, or the loop has come to the end of str  *)
followed(cut) ==
  \/ /\ cut[star_p + 1] >= star_s
     /\ cut[p] - cut[star_p + 1] = s - star_s
  \/ s = Len(str) /\ cut[p] = Len(str)

CutsFollowed ==
  noStarIn(str) => \A cut : wholeCut(cut) => followed(cut)

Inv ==
  /\ TypeOK
  /\ StarBehind
  /\ MatchedSoFar
  /\ AcceptsOnlyMatches
  /\ CutsFollowed
  /\ AcceptsEveryMatch

-----------------------------------------------------------------------------
(* Cuts                                                                    *)

LEMMA FitsIsCut == \A i, j : fits(i, j) <=> \E cut : cutsTo(cut, i, j)
  BY DEF fits, cutsTo

LEMMA EmptyFits == fits(0, 0)
<1> DEFINE cut == [m \in 0 .. 0 |-> 0]
<1>1. cutsTo(cut, 0, 0)
  BY DEF cutsTo
<1> QED BY <1>1, FitsIsCut

(* A piece more                                                            *)
LEMMA FitsOneMore ==
  ASSUME NEW i \in Nat, NEW j \in Nat, NEW k \in Nat, j <= k, fits(i, j),
         pieceFits(i + 1, j, k)
  PROVE  fits(i + 1, k)
<1>1. PICK cut : cutsTo(cut, i, j)
  BY FitsIsCut
<1> DEFINE more == [m \in 0 .. i + 1 |-> IF m = i + 1 THEN k ELSE cut[m]]
<1>2. \A m \in 0 .. i : m \in 0 .. i + 1 /\ m # i + 1 /\ cut[m] \in 0 .. j
  BY <1>1 DEF cutsTo
<1>3. more \in [0 .. i + 1 -> 0 .. k]
  BY <1>2
<1>4. more[0] = 0 /\ more[i + 1] = k
  BY <1>1 DEF cutsTo
<1>5. ASSUME NEW m \in 1 .. i + 1
      PROVE  pieceFits(m, more[m - 1], more[m])
  <2>1. CASE m = i + 1
    <3>1. more[m - 1] = j /\ more[m] = k
      BY <1>1, <2>1 DEF cutsTo
    <3> QED BY <2>1, <3>1
  <2>2. CASE m # i + 1
    <3>1. m \in 1 .. i /\ more[m - 1] = cut[m - 1] /\ more[m] = cut[m]
      BY <1>5, <2>2
    <3> QED BY <1>1, <3>1 DEF cutsTo
  <2> QED BY <2>1, <2>2
<1>6. cutsTo(more, i + 1, k)
  BY <1>3, <1>4, <1>5 DEF cutsTo
<1> QED BY <1>6, FitsIsCut

(* A star takes one character more                                         *)
LEMMA StarTakesMore ==
  ASSUME NEW i \in Nat, NEW j \in Nat, fits(i + 1, j), pattern[i + 1] = "*"
  PROVE  fits(i + 1, j + 1)
<1>1. PICK cut : cutsTo(cut, i + 1, j)
  BY FitsIsCut
<1> DEFINE more == [m \in 0 .. i + 1 |-> IF m = i + 1 THEN j + 1 ELSE cut[m]]
<1>2. \A m \in 0 .. i + 1 : cut[m] \in 0 .. j
  BY <1>1 DEF cutsTo
<1>3. more \in [0 .. i + 1 -> 0 .. j + 1]
  BY <1>2
<1>4. more[0] = 0 /\ more[i + 1] = j + 1
  BY <1>1 DEF cutsTo
<1>5. ASSUME NEW m \in 1 .. i + 1
      PROVE  pieceFits(m, more[m - 1], more[m])
  <2>1. CASE m = i + 1
    <3>1. more[m - 1] = cut[i] /\ more[m] = j + 1 /\ cut[i] \in 0 .. j
      BY <1>2, <2>1
    <3> QED BY <2>1, <3>1 DEF pieceFits
  <2>2. CASE m # i + 1
    <3>1. more[m - 1] = cut[m - 1] /\ more[m] = cut[m]
      BY <1>5, <2>2
    <3> QED BY <1>1, <3>1 DEF cutsTo
  <2> QED BY <2>1, <2>2
<1>6. cutsTo(more, i + 1, j + 1)
  BY <1>3, <1>4, <1>5 DEF cutsTo
<1> QED BY <1>6, FitsIsCut

(* The piece of a character that is no star is one character, itself       *)
LEMMA CharacterPiece ==
  ASSUME NEW cut, wholeCut(cut), NEW i \in Nat, i < Len(pattern), pattern[i + 1] # "*",
         pattern \in Seq(Characters \cup {"*", "?"}), str \in Seq(Characters)
  PROVE  /\ cut[i + 1] = cut[i] + 1
         /\ pattern[i + 1] \in {"?", str[cut[i] + 1]}
<1>1. i + 1 \in 1 .. Len(pattern) /\ i + 1 - 1 = i
  OBVIOUS
<1>2. pieceFits(i + 1, cut[i], cut[i + 1])
  BY <1>1 DEF wholeCut, cutsTo
<1> QED BY <1>2 DEF pieceFits

LEMMA StarPiece ==
  ASSUME NEW cut, wholeCut(cut), NEW i \in Nat, i < Len(pattern), pattern[i + 1] = "*",
         pattern \in Seq(Characters \cup {"*", "?"}), str \in Seq(Characters)
  PROVE  cut[i] <= cut[i + 1]
<1>1. i + 1 \in 1 .. Len(pattern) /\ i + 1 - 1 = i
  OBVIOUS
<1>2. pieceFits(i + 1, cut[i], cut[i + 1])
  BY <1>1 DEF wholeCut, cutsTo
<1> QED BY <1>2 DEF pieceFits

LEMMA CutEnds ==
  ASSUME NEW cut, wholeCut(cut)
  PROVE  /\ cut[0] = 0 /\ cut[Len(pattern)] = Len(str)
         /\ \A i \in 0 .. Len(pattern) : cut[i] \in 0 .. Len(str)
  BY DEF wholeCut, cutsTo

(* Where the loop is stuck, so is every cut that goes on as it does        *)
LEMMA CutIsStuck ==
  ASSUME Inv, scanning, ~fitsHere, ~next("*"), NEW cut, wholeCut(cut)
  PROVE  cut[p] # s
<1> SUFFICES ASSUME cut[p] = s PROVE FALSE
  OBVIOUS
<1>1. /\ pattern \in Seq(Characters \cup {"*", "?"}) /\ str \in Seq(Characters)
      /\ p \in 0 .. Len(pattern) /\ s < Len(str)
  BY DEF Inv, TypeOK, scanning
<1>2. p # Len(pattern)
  BY <1>1, CutEnds
<1>3. p \in Nat /\ p < Len(pattern)
  BY <1>1, <1>2
<1>4. pattern[p + 1] # "*"
  BY <1>3 DEF next
<1>5. pattern[p + 1] \in {"?", str[s + 1]}
  BY <1>1, <1>3, <1>4, CharacterPiece
<1> QED BY <1>3, <1>5 DEF fitsHere, next

-----------------------------------------------------------------------------
(* The invariant                                                           *)

(* What a turn of the loop finds, and that the arguments stay the same     *)
LEMMA Turn ==
  ASSUME Inv
  PROVE  /\ pattern \in Seq(Characters \cup {"*", "?"}) /\ str \in Seq(Characters)
         /\ Len(pattern) \in Nat /\ Len(str) \in Nat
         /\ p \in Nat /\ p <= Len(pattern) /\ s \in Nat /\ s <= Len(str)
         /\ star_p = npos \/ (star_p \in Nat /\ star_p < Len(pattern))
         /\ star_s \in Nat /\ star_s <= Len(str)
         /\ star_p + 1 \in Nat /\ star_p + 1 <= p /\ star_s <= s
  BY DEF Inv, TypeOK, StarBehind, npos

LEMMA SameArguments ==
  ASSUME UNCHANGED arguments
  PROVE  /\ \A i, j : fits(i, j)' <=> fits(i, j)
         /\ \A cut : wholeCut(cut)' <=> wholeCut(cut)
         /\ matches' <=> matches
  BY DEF arguments, fits, matches, wholeCut, cutsTo, pieceFits

(* A turn that does not return leaves the result to be decided             *)
LEMMA Undecided ==
  ASSUME Inv, result = "pending", UNCHANGED result
  PROVE  AcceptsOnlyMatches' /\ AcceptsEveryMatch'
  BY DEF AcceptsOnlyMatches, AcceptsEveryMatch

LEMMA InitInv == Init => Inv
<1> SUFFICES ASSUME Init PROVE Inv
  OBVIOUS
<1>1. TypeOK
  BY GlobAssumption DEF Init, TypeOK, npos
<1>2. CutsFollowed
  <2> SUFFICES ASSUME NEW cut, wholeCut(cut) PROVE followed(cut)
    BY DEF CutsFollowed
  <2>1. cut[0] = 0
    BY CutEnds
  <2> QED BY <2>1 DEF Init, followed, npos
<1> QED BY <1>1, <1>2, EmptyFits
        DEF Init, Inv, StarBehind, MatchedSoFar, AcceptsOnlyMatches, AcceptsEveryMatch

LEMMA MatchOneInv == Inv /\ MatchOne => Inv'
<1> SUFFICES ASSUME Inv, MatchOne PROVE Inv'
  OBVIOUS
<1>0. /\ pattern' = pattern /\ str' = str /\ p' = p + 1 /\ s' = s + 1
      /\ star_p' = star_p /\ star_s' = star_s /\ result' = result
      /\ result = "pending" /\ s < Len(str) /\ p < Len(pattern)
      /\ pattern[p + 1] \in {"?", str[s + 1]}
  BY DEF MatchOne, scanning, fitsHere, next, arguments
<1>1. TypeOK'
  BY <1>0, Turn DEF Inv, TypeOK
<1>2. StarBehind'
  BY <1>0, Turn DEF Inv, StarBehind, npos
<1>3. MatchedSoFar'
  <2>1. pieceFits(p + 1, s, s + 1)
    BY <1>0, Turn DEF pieceFits
  <2>2. fits(p + 1, s + 1)
    BY <2>1, Turn, FitsOneMore DEF Inv, MatchedSoFar
  <2> QED BY <1>0, <2>2, SameArguments DEF Inv, MatchedSoFar, arguments
<1>4. CutsFollowed'
  <2> SUFFICES ASSUME noStarIn(str), NEW cut, wholeCut(cut) PROVE followed(cut)'
    BY <1>0, SameArguments DEF CutsFollowed, noStarIn, arguments
  <2>1. pattern[p + 1] # "*"
    BY <1>0, Turn DEF noStarIn
  <2>2. cut[p + 1] = cut[p] + 1
    BY <1>0, <2>1, Turn, CharacterPiece
  <2>3. cut[star_p + 1] >= star_s /\ cut[p] - cut[star_p + 1] = s - star_s
    BY <1>0, Turn DEF Inv, CutsFollowed, followed
  <2>4. cut[p] \in Int /\ cut[star_p + 1] \in Int
    BY Turn, CutEnds
  <2>5. cut[p + 1] - cut[star_p + 1] = (s + 1) - star_s
    <3>1. \A a, b, x, y \in Int : a - b = x - y => (a + 1) - b = (x + 1) - y
      OBVIOUS
    <3>2. s \in Int /\ star_s \in Int
      BY Turn
    <3>3. (cut[p] + 1) - cut[star_p + 1] = (s + 1) - star_s
      BY <2>3, <2>4, <3>1, <3>2
    <3> QED BY <2>2, <3>3
  <2> QED BY <1>0, <2>3, <2>5 DEF followed
<1> QED BY <1>0, <1>1, <1>2, <1>3, <1>4, Undecided DEF Inv

LEMMA MeetStarInv == Inv /\ MeetStar => Inv'
<1> SUFFICES ASSUME Inv, MeetStar PROVE Inv'
  OBVIOUS
<1>0. /\ pattern' = pattern /\ str' = str /\ p' = p + 1 /\ s' = s
      /\ star_p' = p /\ star_s' = s /\ result' = result
      /\ result = "pending" /\ s < Len(str) /\ p < Len(pattern) /\ pattern[p + 1] = "*"
  BY DEF MeetStar, scanning, next, arguments
<1>1. TypeOK'
  BY <1>0, Turn DEF Inv, TypeOK
<1>2. StarBehind'
  BY <1>0, Turn DEF StarBehind, npos
<1>3. MatchedSoFar'
  <2>1. pieceFits(p + 1, s, s)
    BY <1>0, Turn DEF pieceFits
  <2>2. fits(p + 1, s)
    BY <2>1, Turn, FitsOneMore DEF Inv, MatchedSoFar
  <2> QED BY <1>0, <2>2, SameArguments DEF MatchedSoFar, arguments
<1>4. CutsFollowed'
  <2> SUFFICES ASSUME noStarIn(str), NEW cut, wholeCut(cut) PROVE followed(cut)'
    BY <1>0, SameArguments DEF CutsFollowed, noStarIn, arguments
  <2>1. cut[p] <= cut[p + 1]
    BY <1>0, Turn, StarPiece
  <2>2. cut[star_p + 1] >= star_s /\ cut[p] - cut[star_p + 1] = s - star_s
    BY <1>0, Turn DEF Inv, CutsFollowed, followed
  <2>3. cut[p] \in Int /\ cut[p + 1] \in Int /\ cut[star_p + 1] \in Int
    BY <1>0, Turn, CutEnds
  <2>4. cut[p + 1] >= s
    BY <2>1, <2>2, <2>3, Turn
  <2> QED BY <1>0, <2>3, <2>4, Turn DEF followed
<1> QED BY <1>0, <1>1, <1>2, <1>3, <1>4, Undecided DEF Inv

LEMMA GoBackInv == Inv /\ GoBack => Inv'
<1> SUFFICES ASSUME Inv, GoBack PROVE Inv'
  OBVIOUS
<1>0. /\ pattern' = pattern /\ str' = str /\ p' = star_p + 1 /\ s' = star_s + 1
      /\ star_p' = star_p /\ star_s' = star_s + 1 /\ result' = result
      /\ result = "pending" /\ s < Len(str) /\ star_p # npos
  BY DEF GoBack, scanning, arguments
<1>1. TypeOK'
  BY <1>0, Turn DEF Inv, TypeOK
<1>2. StarBehind'
  BY <1>0, Turn DEF Inv, StarBehind
<1>3. MatchedSoFar'
  <2>1. fits(star_p + 1, star_s + 1)
    BY <1>0, Turn, StarTakesMore DEF Inv, MatchedSoFar, StarBehind
  <2> QED BY <1>0, <2>1, SameArguments DEF MatchedSoFar, arguments
<1>4. CutsFollowed'
  <2> SUFFICES ASSUME noStarIn(str), NEW cut, wholeCut(cut) PROVE followed(cut)'
    BY <1>0, SameArguments DEF CutsFollowed, noStarIn, arguments
  <2>1. cut[p] # s
    BY CutIsStuck DEF GoBack
  <2>2. cut[star_p + 1] >= star_s /\ cut[p] - cut[star_p + 1] = s - star_s
    BY <1>0, Turn DEF Inv, CutsFollowed, followed
  <2>3. cut[p] \in Int /\ cut[star_p + 1] \in Int
    BY Turn, CutEnds
  <2>4. cut[star_p + 1] >= star_s + 1
    BY <2>1, <2>2, <2>3, Turn
  <2> QED BY <1>0, <2>3, <2>4, Turn DEF followed
<1> QED BY <1>0, <1>1, <1>2, <1>3, <1>4, Undecided DEF Inv

LEMMA SkipStarInv == Inv /\ SkipStar => Inv'
<1> SUFFICES ASSUME Inv, SkipStar PROVE Inv'
  OBVIOUS
<1>0. /\ pattern' = pattern /\ str' = str /\ p' = p + 1 /\ s' = s
      /\ star_p' = star_p /\ star_s' = star_s /\ result' = result
      /\ result = "pending" /\ s >= Len(str) /\ p < Len(pattern) /\ pattern[p + 1] = "*"
  BY DEF SkipStar, finishing, next, arguments
<1>1. TypeOK'
  BY <1>0, Turn DEF Inv, TypeOK
<1>2. StarBehind'
  BY <1>0, Turn DEF Inv, StarBehind
<1>3. MatchedSoFar'
  <2>1. pieceFits(p + 1, s, s)
    BY <1>0, Turn DEF pieceFits
  <2>2. fits(p + 1, s)
    BY <2>1, Turn, FitsOneMore DEF Inv, MatchedSoFar
  <2> QED BY <1>0, <2>2, SameArguments DEF Inv, MatchedSoFar, arguments
<1>4. CutsFollowed'
  <2> SUFFICES ASSUME noStarIn(str), NEW cut, wholeCut(cut) PROVE followed(cut)'
    BY <1>0, SameArguments DEF CutsFollowed, noStarIn, arguments
  <2>1. cut[p] <= cut[p + 1]
    BY <1>0, Turn, StarPiece
  <2>2. followed(cut)
    BY DEF Inv, CutsFollowed
  <2>3. /\ cut[p] \in Int /\ cut[star_p + 1] \in Int
        /\ cut[p + 1] \in Int /\ cut[p + 1] <= Len(str)
    BY <1>0, Turn, CutEnds
  <2>4. cut[p + 1] = Len(str)
    BY <1>0, <2>1, <2>2, <2>3, Turn DEF followed
  <2> QED BY <1>0, <2>4, Turn DEF followed
<1> QED BY <1>0, <1>1, <1>2, <1>3, <1>4, Undecided DEF Inv

(* What a turn that returns has to show                                    *)
LEMMA ReturnInv ==
  ASSUME Inv, NEW r \in {"true", "false"}, returns(r),
         r = "true" => matches,
         r = "false" /\ noStarIn(str) => ~matches
  PROVE  Inv'
<1>1. /\ UNCHANGED <<pattern, str, p, s, star_p, star_s>>
      /\ result' = r
  BY DEF returns, arguments
<1>2. AcceptsOnlyMatches' /\ AcceptsEveryMatch'
  BY <1>1, SameArguments DEF AcceptsOnlyMatches, AcceptsEveryMatch, noStarIn, arguments
<1>3. TypeOK' /\ StarBehind'
  BY <1>1 DEF Inv, TypeOK, StarBehind
<1>4. MatchedSoFar' /\ CutsFollowed'
  BY <1>1, SameArguments DEF Inv, MatchedSoFar, CutsFollowed, followed, noStarIn, arguments
<1> QED BY <1>2, <1>3, <1>4 DEF Inv

LEMMA StarAloneInv == Inv /\ StarAlone => Inv'
<1> SUFFICES ASSUME Inv, StarAlone PROVE Inv'
  OBVIOUS
<1>1. pattern = <<"*">> /\ returns("true")
  BY DEF StarAlone
<1>2. Len(pattern) = 1 /\ pattern[1] = "*" /\ Len(str) \in Nat
  BY <1>1, Turn
<1>3. pieceFits(0 + 1, 0, Len(str))
  BY <1>2 DEF pieceFits
<1>4. fits(0 + 1, Len(str))
  BY <1>2, <1>3, EmptyFits, FitsOneMore
<1>5. matches
  BY <1>2, <1>4 DEF matches
<1> QED BY <1>1, <1>5, ReturnInv

LEMMA MatchesIsCut == matches <=> \E cut : wholeCut(cut)
  BY FitsIsCut DEF matches, wholeCut

LEMMA StuckInv == Inv /\ Stuck => Inv'
<1> SUFFICES ASSUME Inv, Stuck PROVE Inv'
  OBVIOUS
<1>1. s < Len(str) /\ star_p = npos /\ returns("false")
  BY DEF Stuck, scanning
<1>2. ASSUME noStarIn(str), NEW cut, wholeCut(cut)
      PROVE  FALSE
  <2>1. cut[p] # s
    BY <1>2, CutIsStuck DEF Stuck
  <2>2. cut[star_p + 1] >= star_s /\ cut[p] - cut[star_p + 1] = s - star_s
    BY <1>1, <1>2, Turn DEF Inv, CutsFollowed, followed
  <2>3. cut[star_p + 1] = 0 /\ star_s = 0
    BY <1>1, <1>2, CutEnds DEF npos, Inv, StarBehind
  <2>4. cut[p] \in Int
    BY <1>2, Turn, CutEnds
  <2> QED BY <2>1, <2>2, <2>3, <2>4, Turn
<1> QED BY <1>1, <1>2, MatchesIsCut, ReturnInv

LEMMA FinishInv == Inv /\ Finish => Inv'
<1> SUFFICES ASSUME Inv, Finish PROVE Inv'
  OBVIOUS
<1>1. s = Len(str) /\ ~next("*")
      /\ returns(IF p = Len(pattern) THEN "true" ELSE "false")
  BY Turn DEF Finish, finishing
<1>2. CASE p = Len(pattern)
  <2>1. matches
    BY <1>1, <1>2 DEF Inv, MatchedSoFar, matches
  <2> QED BY <1>1, <1>2, <2>1, ReturnInv
<1>3. CASE p # Len(pattern)
  <2>1. p < Len(pattern) /\ pattern[p + 1] # "*"
    BY <1>1, <1>3, Turn DEF next
  <2>2. ASSUME noStarIn(str), NEW cut, wholeCut(cut)
        PROVE  FALSE
    <3>1. cut[p + 1] = cut[p] + 1
      BY <2>1, <2>2, Turn, CharacterPiece
    <3>2. /\ cut[p] \in Int /\ cut[star_p + 1] \in Int
          /\ cut[p + 1] \in Int /\ cut[p + 1] <= Len(str)
      BY <2>1, <2>2, Turn, CutEnds
    <3>3. followed(cut)
      BY <2>2 DEF Inv, CutsFollowed
    <3> QED BY <1>1, <3>1, <3>2, <3>3, Turn DEF followed
  <2> QED BY <1>1, <1>3, <2>2, MatchesIsCut, ReturnInv
<1> QED BY <1>2, <1>3

LEMMA NextInv == Inv /\ [Next]_vars => Inv'
<1>1. Inv /\ UNCHANGED vars => Inv'
  <2> SUFFICES ASSUME Inv, UNCHANGED vars PROVE Inv'
    OBVIOUS
  <2>1. UNCHANGED <<pattern, str, p, s, star_p, star_s, result, arguments>>
    BY DEF vars, arguments
  <2>2. TypeOK' /\ StarBehind'
    BY <2>1 DEF Inv, TypeOK, StarBehind
  <2>3. MatchedSoFar' /\ CutsFollowed'
    BY <2>1, SameArguments DEF Inv, MatchedSoFar, CutsFollowed, followed, noStarIn
  <2>4. AcceptsOnlyMatches' /\ AcceptsEveryMatch'
    BY <2>1, SameArguments DEF Inv, AcceptsOnlyMatches, AcceptsEveryMatch
  <2> QED BY <2>2, <2>3, <2>4 DEF Inv
<1> QED BY <1>1, MatchOneInv, MeetStarInv, GoBackInv, SkipStarInv, StarAloneInv, StuckInv,
           FinishInv
        DEF Next

LEMMA Invariant == Spec => []Inv
  BY InitInv, NextInv, PTL DEF Spec

(* The positions of the loop of matchPattern stay in the pattern and in    *)
(* the string, so that it reads neither beyond its end.                    *)
THEOREM PositionsInBounds == Spec => []TypeOK
  BY Invariant, PTL DEF Inv

(* matchPattern accepts only strings the pattern matches.                  *)
THEOREM AcceptedMatch == Spec => []AcceptsOnlyMatches
  BY Invariant, PTL DEF Inv

(* matchPattern accepts every string without a star that the pattern       *)
(* matches, though it never goes back further than the last star it met.   *)
THEOREM MatchesAreAccepted == Spec => []AcceptsEveryMatch
  BY Invariant, PTL DEF Inv

-----------------------------------------------------------------------------
(* KEYS                                                                    *)

LEMMA TakenFrom ==
  ASSUME TypeOK, NEW cut \in [0 .. Len(pattern) -> 0 .. Len(str)],
         NEW m \in 1 .. Len(pattern)
  PROVE  /\ cut[m - 1] \in 0 .. Len(str) /\ cut[m] \in 0 .. Len(str)
         /\ cut[m - 1] + 1 .. cut[m] \subseteq 1 .. Len(str)
<1>1. Len(str) \in Nat /\ Len(pattern) \in Nat
  BY DEF TypeOK
<1>2. cut[m - 1] \in 0 .. Len(str) /\ cut[m] \in 0 .. Len(str)
  BY <1>1
<1> QED BY <1>1, <1>2

LEMMA RegexPieceIsPiece ==
  ASSUME NEW m, NEW from, NEW to, regexPieceFits(m, from, to)
  PROVE  pieceFits(m, from, to)
  BY DEF regexPieceFits, pieceFits

LEMMA PieceIsRegexPiece ==
  ASSUME NEW m, NEW from \in Int, NEW to \in Int, pieceFits(m, from, to),
         \A n \in from + 1 .. to : str[n] \notin lineTerminators
  PROVE  regexPieceFits(m, from, to)
<1>1. {str[n] : n \in from + 1 .. to} \cap lineTerminators = {}
  OBVIOUS
<1> QED BY <1>1 DEF regexPieceFits, pieceFits

(* KEYS lists only keys the pattern matches, and every one of them that    *)
(* has no line terminator, for patterns and keys of any length.            *)
THEOREM RegexesAgree == Spec => []KeysListsMatches
<1>1. TypeOK => KeysListsMatches
  <2> SUFFICES ASSUME TypeOK PROVE KeysListsMatches
    OBVIOUS
  <2>1. regexMatches => matches
    BY RegexPieceIsPiece DEF regexMatches, matches, fits
  <2>2. ASSUME matches, \A n \in 1 .. Len(str) : str[n] \notin lineTerminators
        PROVE  regexMatches
    <3>1. PICK cut \in [0 .. Len(pattern) -> 0 .. Len(str)] :
            /\ cut[0] = 0 /\ cut[Len(pattern)] = Len(str)
            /\ \A m \in 1 .. Len(pattern) : pieceFits(m, cut[m - 1], cut[m])
      BY <2>2 DEF matches, fits
    <3>2. ASSUME NEW m \in 1 .. Len(pattern)
          PROVE  regexPieceFits(m, cut[m - 1], cut[m])
      <4>1. /\ cut[m - 1] \in Int /\ cut[m] \in Int
            /\ \A n \in cut[m - 1] + 1 .. cut[m] : n \in 1 .. Len(str)
        BY TakenFrom
      <4>2. pieceFits(m, cut[m - 1], cut[m])
        BY <3>1
      <4> QED BY <2>2, <4>1, <4>2, PieceIsRegexPiece
    <3> QED BY <3>1, <3>2 DEF regexMatches
  <2> QED BY <2>1, <2>2 DEF KeysListsMatches
<1> QED BY <1>1, PositionsInBounds, PTL
===============================================================================

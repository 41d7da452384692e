------------------------------ MODULE FnMatch ------------------------------
(***************************************************************************)
(* common/blacklist/match.go: fnMatch and its helpers, on sequences of      *)
(* one-byte characters, and beside them the language of a pattern as the    *)
(* comment on fnMatch defines it.  A slice of the code is a pair of         *)
(* positions here: the pattern p and the name s stay whole, a chunk is what *)
(* lies from i to before e.  The loops are recursive functions of where     *)
(* they are.                                                                *)
(***************************************************************************)
EXTENDS Naturals, Sequences

CONSTANT Code  \* the code of each character

Char == DOMAIN Code

\* A character is a byte: no two of them have the same code.
ASSUME CodeAssumption == /\ Code \in [Char -> Nat]
                         /\ \A c, d \in Char : Code[c] = Code[d] => c = d

Between(lo, hi) == {c \in Char : Code[lo] <= Code[c] /\ Code[c] <= Code[hi]}

\* Where a sequence ends.
End(p) == Len(p) + 1

-----------------------------------------------------------------------------
(* The code *)

\* scanChunk's loop: where the chunk ends, from round i on.
ScanRound(p, scan, i) ==
    [inrange \in BOOLEAN |->
        IF i > Len(p) \/ (p[i] = "*" /\ ~inrange) THEN i
        ELSE scan[IF p[i] = "\\" /\ i < Len(p) THEN i + 2 ELSE i + 1]
                 [p[i] = "[" \/ (inrange /\ p[i] # "]")]]

ChunkEnds(p) ==
    LET scan[i \in 1..End(p)] == ScanRound(p, scan, i) IN scan

ChunkEnd(p, i) == ChunkEnds(p)[i][FALSE]

\* Where the stars end that p has at i.
AfterStars(p, i) ==
    CHOOSE b \in i..End(p) : /\ \A k \in i..(b - 1) : p[k] = "*"
                             /\ b <= Len(p) => p[b] # "*"

\* getEsc: the character of a class at i, possibly escaped, after which the
\* class goes on.
GetEsc(p, i, e) ==
    LET k == IF i < e /\ p[i] = "\\" THEN i + 1 ELSE i
    IN  [err |-> i >= e \/ p[i] \in {"-", "]"} \/ k + 1 >= e, at |-> k, rest |-> k + 1]

BadTerm == [err |-> TRUE, match |-> FALSE, rest |-> 0]

\* The last character of a range, or the only one.
RangeHi(p, i, e) ==
    LET lo == GetEsc(p, i, e)
    IN  IF ~lo.err /\ p[lo.rest] = "-" THEN GetEsc(p, lo.rest + 1, e) ELSE lo

\* The loop over the ranges of a class that may end here, for the character r
\* of the name: what it finds from round i on.
RangeRound(p, e, r, class, i) ==
    LET lo == GetEsc(p, i, e)
        hi == RangeHi(p, i, e)
    IN  IF i < e /\ p[i] = "]" THEN [err |-> FALSE, match |-> FALSE, rest |-> i + 1]
        ELSE IF hi.err THEN BadTerm
        ELSE [err   |-> class[hi.rest].err,
              match |-> class[hi.rest].match \/ r \in Between(p[lo.at], p[hi.at]),
              rest  |-> class[hi.rest].rest]

MatchRanges(p, e, r) ==
    LET class[i \in 1..e] == RangeRound(p, e, r, class, i) IN class

Literal(p, k, c) == [err |-> FALSE, match |-> p[k] = c, rest |-> k + 1]

\* All of a class has been read, unless it is malformed.
AfterClass(class, negated) ==
    IF class.err THEN BadTerm
    ELSE [err |-> FALSE, match |-> ~(class.match <=> negated), rest |-> class.rest]

\* A class without ranges is malformed: getEsc refuses its bracket.
MatchClass(p, i, e, c) ==
    LET negated == i + 1 < e /\ p[i + 1] = "!"
        first == IF negated THEN i + 2 ELSE i + 1
    IN  IF first >= e \/ p[first] = "]" THEN BadTerm
        ELSE AfterClass(MatchRanges(p, e, c)[first], negated)

\* A round of matchChunk's loop: the term at i against the character c.
MatchTerm(p, i, e, c) ==
    IF p[i] = "[" THEN MatchClass(p, i, e, c)
    ELSE IF p[i] = "?" THEN [err |-> FALSE, match |-> TRUE, rest |-> i + 1]
    ELSE IF p[i] # "\\" THEN Literal(p, i, c)
    ELSE IF i + 1 = e THEN BadTerm ELSE Literal(p, i + 1, c)

NoMatch  == [ok |-> FALSE, err |-> FALSE, rest |-> 0]
BadChunk == [ok |-> FALSE, err |-> TRUE, rest |-> 0]

\* The term t has been tried on character j of the name: the next is at t.rest,
\* if it matches.
AfterTerm(chunk, t, j) ==
    IF t.err THEN BadChunk ELSE IF t.match THEN chunk[t.rest][j + 1] ELSE NoMatch

\* Whether the chunk that ends before e matches, from round i on, a beginning of
\* what s has from j on, and where that ends.
ChunkRound(p, e, s, chunk, i) ==
    [j \in 1..End(s) |->
        IF i = e THEN [ok |-> TRUE, err |-> FALSE, rest |-> j]
        ELSE IF j = End(s) THEN NoMatch
        ELSE AfterTerm(chunk, MatchTerm(p, i, e, s[j]), j)]

MatchChunk(p, e, s) ==
    LET chunk[i \in 1..e] == ChunkRound(p, e, s, chunk, i) IN chunk

\* Mutant: the last chunk may leave a part of the name unmatched.
Fits_Anywhere(m, p, e, s) == m.ok

\* The last chunk has to match all that is left of the name.
Fits(m, p, e, s) == m.ok /\ (m.rest = End(s) \/ e # End(p))

\* The search after a star ends at what is malformed, or fits.
EndsSearch(m, p, e, s) == m.err \/ Fits(m, p, e, s)

\* The positions from j on, if a star allows it, at which the search for the
\* chunk after the stars at i ends.
Stops(p, s, i, j) ==
    LET b == AfterStars(p, i)
        e == ChunkEnd(p, b)
    IN  {k \in j..(IF p[i] = "*" THEN End(s) ELSE j) :
           EndsSearch(MatchChunk(p, e, s)[b][k], p, e, s)}

FirstStop(stops) == CHOOSE k \in stops : \A l \in stops : k <= l

\* The search for the chunk that ends before e has ended, at m.
AfterChunk(m, fn, e) == IF m.err THEN "bad" ELSE fn[e][m.rest]

\* The loop of fnMatch from the chunk that begins, with its stars, at i:
\* "match", "no", or "bad" for ErrBadPattern.
FnMatchRound(p, s, fn, i) ==
    LET b == AfterStars(p, i)
        e == ChunkEnd(p, b)
    IN  [j \in 1..End(s) |->
            LET stops == Stops(p, s, i, j)
            IN  IF i = End(p) THEN IF j = End(s) THEN "match" ELSE "no"
                ELSE IF p[i] = "*" /\ b = e THEN "match"
                ELSE IF stops = {} THEN "no"
                ELSE AfterChunk(MatchChunk(p, e, s)[b][FirstStop(stops)], fn, e)]

FnMatchFrom(p, s) ==
    LET fn[i \in 1..End(p)] == FnMatchRound(p, s, fn, i) IN fn

FnMatch(p, s) == FnMatchFrom(p, s)[1][1]

-----------------------------------------------------------------------------
(* The language of a pattern, from the grammar in the comment on fnMatch:   *)
(* a sequence of terms, each of them a star or a set of characters.         *)

\* A character of a class lies from i to before k.
IsChar(p, i, k) == /\ k <= End(p)
                   /\ \/ k = i + 1 /\ p[i] \notin {"\\", "-", "]"}
                      \/ k = i + 2 /\ p[i] = "\\"

\* character-range: what a range or a single character from i to k stands for.
RangeSets(p, i, k) ==
    (IF IsChar(p, i, k) THEN {{p[k - 1]}} ELSE {})
    \union {Between(p[m - 1], p[k - 1]) :
               m \in {n \in i..(k - 1) : /\ p[n] = "-"
                                         /\ IsChar(p, i, n) /\ IsChar(p, n + 1, k)}}

\* { character-range }, at least one, from i to k: the union of its ranges.
ClassTail(p, k, sets, i) ==
    RangeSets(p, i, k) \union
    UNION {{a \union b : a \in RangeSets(p, i, m), b \in sets[m]} : m \in (i + 1)..(k - 1)}

ClassSets(p, k) ==
    LET sets[i \in 1..k] == ClassTail(p, k, sets, i) IN sets

\* The sets of characters a term other than a star may stand for: none if
\* there is no such term from i to k.
TermSets(p, i, k) ==
    IF k = i + 1 /\ p[i] \notin {"*", "?", "\\", "["} THEN {{p[i]}}
    ELSE IF k = i + 1 /\ p[i] = "?" THEN {Char}
    ELSE IF k = i + 2 /\ p[i] = "\\" THEN {{p[i + 1]}}
    ELSE IF k > i + 2 /\ p[i] = "[" /\ p[k - 1] = "]"
         THEN IF p[i + 1] = "!" THEN {Char \ a : a \in ClassSets(p, k - 1)[i + 2]}
                                ELSE ClassSets(p, k - 1)[i + 1]
         ELSE {}

\* What p has from i on is a sequence of terms.
TermTail(p, wf, i) ==
    \/ i = End(p)
    \/ \E k \in (i + 1)..End(p) : /\ (p[i] = "*" /\ k = i + 1) \/ TermSets(p, i, k) # {}
                                  /\ wf[k]

WellFormedFrom(p) ==
    LET wf[i \in 1..End(p)] == TermTail(p, wf, i) IN wf

WellFormed(p) == WellFormedFrom(p)[1]

\* What s has from j on is in the language of what p has from i on.
LanguageTail(p, s, lang, i) ==
    [j \in 1..End(s) |->
        \/ i = End(p) /\ j = End(s)
        \/ i < End(p) /\ p[i] = "*" /\ \E k \in j..End(s) : lang[i + 1][k]
        \/ j < End(s) /\ \E k \in (i + 1)..End(p) :
                             /\ \E a \in TermSets(p, i, k) : s[j] \in a
                             /\ lang[k][j + 1]]

InLanguage(p, s) ==
    LET lang[i \in 1..End(p)] == LanguageTail(p, s, lang, i) IN lang

\* s is in the language of the pattern p.
Listed(s, p) == InLanguage(p, s)[1][1]

=============================================================================

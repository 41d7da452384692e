----------------------------- MODULE Blacklist -----------------------------
(***************************************************************************)
(* common/blacklist/blacklist.go: RemoveBlacklistedFiles walks the tree,    *)
(* collects the paths that match an entry of the blacklist, and removes     *)
(* them, directories with all they hold.  The tree belongs to the tool      *)
(* alone while it runs; looking at a path and removing one may fail.        *)
(***************************************************************************)
EXTENDS FnMatch, SequencesExt

CONSTANTS Tree,      \* the tree in the order of filepath.Walk: relative paths
          Dirs,      \* those of Tree that are directories, the root among them
          Links,     \* for each symbolic link of Tree, the paths that following it
                     \* takes; one that is not in Tree is missing
          Blacklists \* the blacklists to consider: sequences of patterns

VARIABLES config,  \* what the project's file says
          pc,      \* where RemoveBlacklistedFiles is
          at,      \* the path it visits, or the match it removes
          matches, \* as in the code
          present, \* the paths that are still there
          err      \* what it has returned

vars == <<config, pc, at, matches, present, err>>

Root == Tree[1]
Paths == Range(Tree)

\* path lies in dir or is dir; every path lies in the root.
Within(path, dir) ==
    path = dir \/ dir = Root \/ IsPrefix(dir \o <<"/">>, path)

\* It is a tree: nothing lies in what is no directory, as filepath.Walk, which
\* does not follow links, sees it.
ASSUME BlacklistAssumption ==
    /\ Tree \in Seq(Seq(Char)) /\ Tree # <<>>
    /\ Dirs \subseteq Paths /\ Root \in Dirs
    /\ \A path, dir \in Paths : Within(path, dir) => path = dir \/ dir \in Dirs
    /\ DOMAIN Links \subseteq Paths \ Dirs
    /\ Blacklists \subseteq Seq(Seq(Char))

\* The file does not exist, cannot be read, or turns the removal on or off.
Init == /\ config \in [file : {"ok"}, remove : {TRUE}, entries : Blacklists]
                      \union [file : {"absent", "broken"}, remove : {FALSE}, entries : {<<>>}]
                      \union [file : {"ok"}, remove : {FALSE}, entries : Blacklists]
        /\ pc = "start" /\ at = 1 /\ matches = <<>> /\ present = Paths /\ err = "none"

Return(e) == pc' = "returned" /\ err' = e

-----------------------------------------------------------------------------
(* newMatcher and Match *)

\* Mutant: a question mark counts as plain.
PlainPrefix_NoQuestion(entry) ==
    LET ends == {n \in 0..Len(entry) : \A i \in 1..n : entry[i] \notin {"*", "[", "\\"}}
    IN  SubSeq(entry, 1, CHOOSE n \in ends : \A m \in ends : m <= n)

\* The entry up to its first meta-character.
PlainPrefix(entry) ==
    LET ends == {n \in 0..Len(entry) : \A i \in 1..n : entry[i] \notin {"*", "[", "?", "\\"}}
    IN  SubSeq(entry, 1, CHOOSE n \in ends : \A m \in ends : m <= n)

\* The verdict of the first entry that has one, of those whose prefix fits.
Match(path) ==
    LET entries == config.entries
        Verdict(k) == IF IsPrefix(PlainPrefix(entries[k]), path)
                      THEN FnMatch(entries[k], path) ELSE "no"
        decided == {k \in DOMAIN entries : Verdict(k) # "no"}
    IN  IF decided = {} THEN "no"
                        ELSE Verdict(CHOOSE k \in decided : \A j \in decided : k <= j)

-----------------------------------------------------------------------------
(* RemoveBlacklistedFiles *)

\* The file is looked at and parsed; without entries there is nothing to do.
ReadConfig ==
    /\ pc = "start"
    /\ \/ config.file = "broken" /\ Return("config")
       \/ /\ config.file = "absent" \/ (config.file = "ok" /\ ~config.remove)
          /\ Return("nil")
       \/ /\ config.file = "ok" /\ config.remove
          /\ IF config.entries = <<>> THEN Return("nil")
                                      ELSE pc' = "walk" /\ UNCHANGED err
    /\ UNCHANGED <<config, at, matches, present>>

\* The walk comes to a path, unless it cannot look at it.
Visit ==
    /\ pc = "walk" /\ at <= Len(Tree)
    /\ \E verdict \in {Match(Tree[at])} :
       \/ Return("walk") /\ UNCHANGED <<at, matches>>
       \/ verdict = "bad" /\ Return("pattern") /\ UNCHANGED <<at, matches>>
       \/ /\ verdict # "bad"
          /\ matches' = IF verdict = "match" THEN Append(matches, Tree[at]) ELSE matches
          /\ at' = at + 1 /\ UNCHANGED <<pc, err>>
    /\ UNCHANGED <<config, present>>

EndWalk == /\ pc = "walk" /\ at > Len(Tree)
           /\ pc' = "remove" /\ at' = 1
           /\ UNCHANGED <<config, matches, present, err>>

\* os.Stat follows links: it finds a link only if it finds what the link leads to.
Found(path) ==
    path \in present /\ (path \in DOMAIN Links => Links[path] \subseteq present)

\* The next match is removed, a link without what it leads to, unless Stat does
\* not find it: it is gone already with its directory, or a link that leads
\* nowhere any more, which stays.  What fails in a directory may have removed a
\* part of it.
RemoveMatch ==
    /\ pc = "remove" /\ at <= Len(matches)
    /\ LET path == matches[at]
           gone == {q \in present : Within(q, path)}
       IN  \/ /\ present' = IF Found(path) THEN present \ gone ELSE present
              /\ at' = at + 1 /\ UNCHANGED <<pc, err>>
           \/ /\ path \in present
              /\ \E some \in SUBSET (gone \ {path}) : present' = present \ some
              /\ Return("remove") /\ UNCHANGED at
    /\ UNCHANGED <<config, matches>>

Success == /\ pc = "remove" /\ at > Len(matches) /\ Return("nil")
           /\ UNCHANGED <<config, at, matches, present>>

Terminated == pc = "returned" /\ UNCHANGED vars

Next == ReadConfig \/ Visit \/ EndWalk \/ RemoveMatch \/ Success \/ Terminated

Spec == Init /\ [][Next]_vars

-----------------------------------------------------------------------------
\* fnMatch decides the language that its comment defines: "match" exactly for
\* the names in it, and an error only for a pattern that is malformed.
MatchIsGlob ==
    pc = "start" =>
        \A entry \in Range(config.entries), name \in Paths :
            LET verdict == FnMatch(entry, name) IN
            /\ verdict = "match" <=> Listed(name, entry)
            /\ verdict = "bad" => ~WellFormed(entry)

Blacklisted(path) == \E entry \in Range(config.entries) : Listed(path, entry)

\* Only what is blacklisted, or lies in a directory that is, is ever removed;
\* nothing is when the walk fails, which it does over a pattern only if one is
\* malformed; and when the tool reports success and was asked to remove, all that
\* is left of what is blacklisted are links that lead to nothing, in the tree or
\* outside, or no longer do: the test for what is gone already, Stat, takes these
\* for gone.
RemovalIsExact ==
    /\ \A q \in Paths \ present :
          config.remove /\ \E d \in Dirs \union {q} : Within(q, d) /\ Blacklisted(d)
    /\ err \in {"config", "walk", "pattern"} => present = Paths
    /\ err = "pattern" => \E entry \in Range(config.entries) : ~WellFormed(entry)
    /\ err = "nil" /\ config.remove =>
          \A q \in present : Blacklisted(q) => q \in DOMAIN Links /\ ~Found(q)

=============================================================================

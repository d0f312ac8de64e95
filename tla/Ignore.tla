-------------------------------- MODULE Ignore --------------------------------
(***************************************************************************)
(* The matcher of ignore patterns: the file of patterns on disk, which comes *)
(* and goes and changes; when it is loaded again; which pattern decides      *)
(* about a path, with the cache of results; and whether a directory that is  *)
(* ignored can be skipped without a look at what is in it.                   *)
(* Paths are sequences of names; a pattern is a sequence of names, "*" (any   *)
(* name) and "**" (any number of names, but at least one).                    *)
(***************************************************************************)
EXTENDS Naturals, Sequences, SequencesExt, FiniteSets

CONSTANTS
  Paths,
  Asked,        \* those that are matched, and cached
  Contents,     \* what the file may contain: sequences of lines without repetitions
  Bad,          \* a content that cannot be parsed
  MovedBack,    \* whether a file that was moved away comes back as it was
  MaxEdits

VARIABLES
  file,         \* the file on disk: its content, or none
  mtime,        \* its time of modification, each edit has one of its own
  aside,        \* what was moved away
  patterns,     \* of the matcher
  remembered,   \* modification times of the change detector: one or none
  matches,      \* the cache: pairs of path and result
  skipIgnoredDirs,
  loaded        \* the last Load had no error, and the file is still what it was then

vars == <<file, mtime, aside, patterns, remembered, matches, skipIgnoredDirs, loaded>>
disk == <<file, mtime, aside>>
matcher == <<patterns, remembered, matches, skipIgnoredDirs>>

-----------------------------------------------------------------------------
(* Patterns *)

\* parseLine: a pattern that is not rooted also holds further down.
ParseLine(line, segs) ==
  LET p(s) == [include |-> line.include, rooted |-> line.rooted, segs |-> s]
  IN  IF line.rooted THEN <<p(segs)>>
      ELSE IF Len(segs) > 1 /\ segs[1] = "**" THEN <<p(segs), p(Tail(segs))>>
      ELSE <<p(segs), p(<<"**">> \o segs)>>

\* What is ignored is ignored with all that is in it; a line that ends in a slash or in /** is
\* about what is in a directory only.
ParsedLine(line) ==
  LET below == ParseLine(line, line.segs \o <<"**">>)
  IN  IF line.inside THEN below ELSE ParseLine(line, line.segs) \o below

Parsed(content) ==
  IF content = Bad THEN <<>> ELSE FlattenSeq([i \in DOMAIN content |-> ParsedLine(content[i])])

\* Every name of the path is matched by a part of the pattern, in order, and every part is used;
\* only "**" takes several names.
Matches(segs, path) ==
  \E at \in [DOMAIN path -> DOMAIN segs] :
    /\ \A i \in DOMAIN segs : \E j \in DOMAIN path : at[j] = i
    /\ \A j \in DOMAIN path : segs[at[j]] \in {path[j], "*", "**"}
    /\ \A j \in 2..Len(path) : at[j] > at[j-1] \/ (at[j] = at[j-1] /\ segs[at[j]] = "**")

\* Match: the first pattern that matches decides.
Ignored(ps, path) ==
  \E i \in DOMAIN ps : /\ Matches(ps[i].segs, path) /\ ps[i].include
                       /\ \A j \in 1..(i-1) : ~Matches(ps[j].segs, path)

AllowsSkipping_Rooted(p) == p.include \/ p.rooted
AllowsSkipping(p) == p.include \/ (p.rooted /\ Len(p.segs) = 1)

\* The loop over the patterns leaves out one that extends the last one it has looked at by /**,
\* as those do that ParsedLine adds. (The code compares without the last three characters, whatever
\* they are: it may then decide against skipping where it could skip.)
Extends(p, previous) == previous # <<>> /\ p.segs = previous \o <<"**">>
Previous(ps) ==
  LET previous[n \in 0..Len(ps)] ==
        IF n = 0 THEN <<>>
        ELSE IF Extends(ps[n], previous[n - 1]) THEN previous[n - 1] ELSE ps[n].segs
  IN  previous
Skip(ps) == \A i \in DOMAIN ps : Extends(ps[i], Previous(ps)[i - 1]) \/ AllowsSkipping(ps[i])

-----------------------------------------------------------------------------

Init ==
  /\ file \in {{}} \cup {{c} : c \in Contents}
  /\ mtime = 0 /\ aside = {}
  /\ patterns = <<>> /\ remembered = {} /\ matches = {}
  /\ skipIgnoredDirs = TRUE
  /\ loaded = FALSE

\* The user writes the file (WriteIgnores, or by other means).
Edit ==
  /\ mtime < MaxEdits
  /\ \E c \in Contents : file' = {c}
  /\ mtime' = mtime + 1
  /\ aside' = {}
  /\ loaded' = FALSE
  /\ UNCHANGED matcher

MoveAway ==
  /\ file # {} /\ mtime < MaxEdits
  /\ aside' = file
  /\ file' = {}
  /\ loaded' = FALSE
  /\ UNCHANGED <<mtime, matcher>>

\* It comes back with its old modification time, or with a new one.
MoveBack ==
  /\ aside # {}
  /\ file' = aside
  /\ aside' = {}
  /\ mtime' \in IF MovedBack THEN {mtime, mtime + 1} ELSE {mtime + 1}
  /\ loaded' = FALSE
  /\ UNCHANGED matcher

\* parseLocked: other patterns begin a new cache.
NewCache_Kept(ps) == matches
NewCache(ps) == IF ps = patterns THEN matches ELSE {}
UsePatterns(ps) ==
  /\ patterns' = ps
  /\ matches' = NewCache(ps)
  /\ skipIgnoredDirs' = IF ps = patterns THEN skipIgnoredDirs ELSE Skip(ps)

\* Load: a file that was seen and has not changed is not read again; one that is not there, or
\* cannot be read, leaves no patterns; one that cannot be parsed leaves none and is not remembered.
LoadAgain == remembered = {} \/ file = {} \/ mtime \notin remembered
Load ==
  /\ IF ~LoadAgain THEN UNCHANGED matcher
     ELSE IF file = {} THEN UsePatterns(<<>>) /\ UNCHANGED remembered
     ELSE \E content \in file : /\ UsePatterns(Parsed(content))
                                /\ remembered' = IF content = Bad THEN {} ELSE {mtime}
  /\ loaded' = (file # {} /\ file # {Bad})
  /\ UNCHANGED disk

Match ==
  /\ patterns # <<>>
  /\ \E path \in Asked : /\ \A m \in matches : m.path # path
                         /\ matches' = matches \cup {[path |-> path, ignored |-> Ignored(patterns, path)]}
  /\ UNCHANGED <<disk, patterns, remembered, skipIgnoredDirs, loaded>>

\* Entries that were not asked for in a long time go.
Clean ==
  /\ matches # {}
  /\ \E some \in SUBSET matches : some # matches /\ matches' = some
  /\ UNCHANGED <<disk, patterns, remembered, skipIgnoredDirs, loaded>>

Next == Edit \/ MoveAway \/ MoveBack \/ Load \/ Match \/ Clean

Spec == Init /\ [][Next]_vars

-----------------------------------------------------------------------------
(* Properties *)

\* After a Load without an error the patterns are those of the file.
PatternsFollow == loaded => \A content \in file : patterns = Parsed(content)

\* The cache says what the patterns say.
CacheRight == \A m \in matches : m.ignored = Ignored(patterns, m.path)

\* If ignored directories are skipped, all that is in one is ignored.
SkipRight ==
  skipIgnoredDirs => \A dir, path \in Paths : IsStrictPrefix(dir, path) /\ Ignored(patterns, dir) => Ignored(patterns, path)

IgnoreRight == PatternsFollow /\ CacheRight /\ SkipRight
=============================================================================

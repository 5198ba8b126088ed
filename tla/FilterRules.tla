---------------------------- MODULE FilterRules ----------------------------
(***************************************************************************)
(* The filter rules of a root (client/scheduler.h): compileRule() turns a  *)
(* pattern of the command line into a rule, keep() asks the rules in order.*)
(*                                                                         *)
(* A path is the sequence of its names, relative to the root.  A pattern   *)
(* is [include, anchored, dirOnly, glob]: whether it stands behind         *)
(* --include or --exclude, starts with "/", ends with "/", and the parts   *)
(* between the slashes.  A part is a name, "*" for the ones whose `*' and  *)
(* `?' match any name at hand, or "**".  The pattern a/**/b becomes the    *)
(* regular expression a/.*/b, so that a part "**" stands for one or more   *)
(* names: a path has no empty one.                                         *)
(***************************************************************************)
EXTENDS Naturals, Sequences, FiniteSets

Name(p) == p[Len(p)]

\* The leading slash is gone when the code looks for one in the pattern: /a is
\* matched by name, below the root as well.
compileRule(fr) ==
  [include |-> fr.include, dirOnly |-> fr.dirOnly, anchored |-> fr.anchored, glob |-> fr.glob,
   basenameOnly |-> Len(fr.glob) = 1 /\ fr.glob[1] # "**"]

\* std::regex_match of the whole path: s[i] .. s[i + 1] - 1 are the names that
\* part i of the glob stands for.
GlobMatch(glob, p) ==
  \E s \in [1 .. Len(glob) + 1 -> 1 .. Len(p) + 1] :
    /\ s[1] = 1 /\ s[Len(glob) + 1] = Len(p) + 1
    /\ \A i \in DOMAIN glob :
         IF glob[i] = "**" THEN s[i] < s[i + 1]
         ELSE s[i + 1] = s[i] + 1 /\ glob[i] \in {"*", p[s[i]]}

\* A pattern that is not anchored may start at any name of the path.
Matches(r, p) ==
  IF r.basenameOnly THEN GlobMatch(r.glob, <<Name(p)>>)
  ELSE \E i \in 1 .. Len(p) : (r.anchored => i = 1) /\ GlobMatch(r.glob, SubSeq(p, i, Len(p)))

\* The first rule that matches decides; a path that none matches is kept.
keep(rules, p, isDir) ==
  LET hits == {i \in DOMAIN rules : (rules[i].dirOnly => isDir) /\ Matches(rules[i], p)}
  IN  hits = {} \/ \E i \in hits : rules[i].include /\ \A j \in hits : i <= j
=============================================================================

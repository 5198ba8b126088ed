---------------------------- MODULE MCScheduler ----------------------------
(* Model values of the scheduler for TLC; see the .cfg files. *)
EXTENDS Scheduler

Rule(include, anchored, dirOnly, glob) ==
  [include |-> include, anchored |-> anchored, dirOnly |-> dirOnly, glob |-> glob]

\* A directory that is excluded; one whose file is asked for and that is dropped
\* itself by the rule for the rest; a pattern for the whole of a directory, and
\* a pattern that reads as one for the root alone.
ExcludeDir  == <<Rule(FALSE, FALSE, TRUE, <<"d">>)>>
OnlyNested  == <<Rule(TRUE, FALSE, FALSE, <<"d", "f">>), Rule(FALSE, FALSE, FALSE, <<"*">>)>>
ExcludeTree == <<Rule(TRUE, TRUE, FALSE, <<"*", "f">>), Rule(FALSE, FALSE, FALSE, <<"d", "**">>)>>
ExcludeRoot == <<Rule(FALSE, TRUE, FALSE, <<"f">>)>>
MCRuleLists == {<<ExcludeDir, ExcludeTree>>, <<OnlyNested, ExcludeRoot>>}

MCEntries == {[path |-> <<"d">>, kind |-> "dir"], [path |-> <<"d", "f">>, kind |-> "file"],
              [path |-> <<"f">>, kind |-> "file"]}
FlatEntries == {[path |-> <<x>>, kind |-> "file"] : x \in {"f", "g", "h", "i", "j"}}
NoRules == {<<<<>>>>}
MCSizes == {0, 3}
EmptyFiles == {0}
=============================================================================

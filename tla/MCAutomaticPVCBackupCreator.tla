--------------------- MODULE MCAutomaticPVCBackupCreator ---------------------
(***************************************************************************)
(* Small instances of AutomaticPVCBackupCreator for TLC.                   *)
(***************************************************************************)
EXTENDS AutomaticPVCBackupCreator

CONSTANTS c1

OneClaim == [p \in Claims |-> "a"]

\* "a,", "b," and all namespaces but "a".
SomeFlags == {[namespaces |-> {"a", ""}, exclude |-> {""}],
              [namespaces |-> {"b", ""}, exclude |-> {""}],
              [namespaces |-> {""},      exclude |-> {"a"}]}

\* With a tolerance of 60%, one second before a time of each schedule is within it.
Annotations == {Empty, Invalid, 4}

Behind == {-1, 0}
=============================================================================

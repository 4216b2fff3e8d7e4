------------------------------- MODULE Rollout -------------------------------
(***************************************************************************)
(* What a migration runner promises: a database takes the files of a       *)
(* release one at a time, in order of version, each at most once; a        *)
(* release another version of a file disagrees with goes no further.       *)
(***************************************************************************)
EXTENDS Naturals

CONSTANTS
  Versions,     \* file numbers
  Files,        \* file contents: two files of one version differ in content
  Version,      \* the number of a file
  Releases,     \* the sets of files that are shipped together
  None

VARIABLES
  schema,       \* the file each version was taken from
  runs          \* how often the body of a file has taken effect

Init ==
  /\ schema = [v \in Versions |-> None]
  /\ runs = [f \in Files |-> 0]

\* f is the first file of the release R that the database lacks.
Due(f, R) ==
  /\ schema[Version[f]] = None
  /\ \A g \in R : Version[g] < Version[f] => schema[Version[g]] = g

Take(f) ==
  /\ \E R \in Releases : f \in R /\ Due(f, R)
  /\ schema' = [schema EXCEPT ![Version[f]] = f]
  /\ runs' = [runs EXCEPT ![f] = @ + 1]

Next == \E f \in Files : Take(f)

Spec == Init /\ [][Next]_<<schema, runs>>
=============================================================================

------------------------------ MODULE MCConfig ------------------------------
(***************************************************************************)
(* Small metabases for the model checker: a site with its root application *)
(* and one below it, and two or three application pools.                   *)
(***************************************************************************)
EXTENDS ConfigManager, TLC

CONSTANTS p1, p2, p3, s1, v1, v2

MCUrl == {"/", "/sub"}
Root == RootOf(s1)
Sub == <<s1, "/sub">>

\* Both applications, and the site itself, in the first pool.
MCMetabase ==
  [k \in Key |-> [val |-> IF k \in Pool THEN v1 ELSE p1, cmd |-> 0]]

\* What administrators do, run by run.
SomeKeys == {p3, W3SVC, s1, Root}
SomeObjects == {p3, s1, Root}
SomeSiteValues == {p2, Inherit}
SomeAppValues == {p1, p3}
CrashKeys == {p2, Sub}
SubOnly == {Sub}
=============================================================================

---- MODULE MCQaRunner ----
(***************************************************************************)
(* Instances of QaRunner for TLC: two entries the registry has and one it  *)
(* has not, in logs of one or two.                                         *)
(***************************************************************************)
EXTENDS QaRunner

CONSTANTS idle, done, other

SampleLogs == {<<idle>>, <<other>>, <<done, other>>, <<other, idle>>}
SampleFallback == <<idle, done>>
====

-------------------------- MODULE MCFrameSampling --------------------------
(* TLC instances of FrameSampling. *)
EXTENDS FrameSampling, TLC

\* A method with line numbers and one without, of a class in scope, and a method with
\* line numbers of a class that is not.
CONSTANTS run, helper, lib

MCMethods == {run, helper, lib}
MCLineTables == {run, lib}
MCClasses == {{run, helper}}
MCTraces == {<<lib, run>>, <<helper, run>>}

\* One method, for liveness.
OneMethod == {run}
OneClass == {{run}}
OneTrace == {<<run>>}

\* The threads are interchangeable in the safety properties.
ThreadSymmetry == Permutations(Threads)

=============================================================================

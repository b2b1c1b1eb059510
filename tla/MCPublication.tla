--------------------------- MODULE MCPublication ---------------------------
(* Instances of Publication for TLC. *)
EXTENDS Publication, TLC

CONSTANTS a, b, x, aPartial, bPartial, r1, r2, f

AB == [o \in {a, b} |-> IF o = a THEN aPartial ELSE bPartial]

Job(inputs, output, replace) == [inputs |-> inputs, output |-> output, replace |-> replace]

\* Transforms of one file into another in both directions, of two files and of a
\* partial file, and collections.
AllJobs ==
    {Job(<<a>>, b, TRUE), Job(<<b>>, a, TRUE), Job(<<a, x>>, b, TRUE),
     Job(<<bPartial>>, b, TRUE), Job(<<>>, b, FALSE), Job(<<>>, a, FALSE)}

RunSymmetry == Permutations(Runs)
=============================================================================

------------------------------ MODULE MCBuilder ------------------------------
EXTENDS Builder, TLC

\* Invocations are interchangeable, and so are plans.
BuilderSymmetry == Permutations(Invocations) \cup Permutations(Plans)
=============================================================================

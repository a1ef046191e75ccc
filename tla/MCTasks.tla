------------------------------ MODULE MCTasks -------------------------------
\* The tasks of all providers, over a system that holds nothing, one item or up to four.
EXTENDS ProviderTasks

\* A definition of this module is evaluated once, one of ProviderTasks at every step.
MCPrograms == AllPrograms
SomeStores == {<<>>, <<1>>, <<2>>, <<2, 4, 1>>, <<3, 2, 1, 4>>}
Symmetric == Permutations(Keys) \cup Permutations(Rests)
=============================================================================

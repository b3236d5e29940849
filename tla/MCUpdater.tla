----------------------------- MODULE MCUpdater -----------------------------
\* Two clicks and three versions that order differently as text, as numbers
\* and part by part.
EXTENDS Updater, TLC

MCVersions == {<<0, 9, 1>>, <<0, 10, 0>>, <<1, 0, 0>>}

AnyClick == Permutations(Clicks)
=============================================================================

------------------------- MODULE MCNotesRepository -------------------------
EXTENDS NotesRepository

\* Two batches that lock the same titles in opposite orders; the second one repeats a title.
MCTitles  == {1, 2}
MCBatches == {<<1, 2>>, <<2, 1, 2>>}
=============================================================================

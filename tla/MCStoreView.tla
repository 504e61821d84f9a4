---------------------------- MODULE MCStoreView -----------------------------
EXTENDS StoreView
\* Two columns, two rows a line, a screen of three rows; one letter and the
\* space.  The last store is refused: it has no terminator.
MCTexts == { <<>>, <<"a", Space, "a", CR, CR>>, <<"a">> }
=============================================================================

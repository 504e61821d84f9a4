---------------------------- MODULE MCLineStore ----------------------------
(* Instances of LineStore for TLC. *)
EXTENDS LineStore

\* Texts SAVE-TEXT writes, shorter than the store and as long as it, one that
\* ends in a blank line, an empty one, one with no CR at its end and one too long.
SavedTexts == {<< >>, <<"tape">>, <<"tape", CR, "tape", CR>>,
               <<"tape", "tape", CR, CR>>, <<"tape", "tape", CR, "tape", CR>>}

=============================================================================

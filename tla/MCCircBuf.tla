------------------------------- MODULE MCCircBuf -------------------------------
EXTENDS CircBuf, TLC

CONSTANTS A, B, C, Off

\* One system with a section of one word: a point of nine words.
OneSystem == <<5, 7, 8, 9>>

\* Two systems, with sections of three words and of six words: twice as long, so
\* that a point of nine words behind it begins where one did before, and so that
\* the end of the buffer falls into its first section.
TwoSystems == <<5, 7, 8, 11, 12, 18>>

\* A point when no system is active.
NoSystem == <<5, 7>>

MCPoints == {A, B, C, Off}

\* Two points of one size with different contents, a longer one, and an empty one.
MCCuts == A :> OneSystem @@ B :> OneSystem @@ C :> TwoSystems @@ Off :> NoSystem
===============================================================================

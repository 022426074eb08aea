------------------------------ MODULE MCTakes ------------------------------
(* Instances of Takes.                                                     *)
EXTENDS Takes

Opt(timed, chapter, clip) == [timed |-> timed, chapter |-> chapter, clip |-> clip]

Timed    == {Opt(TRUE, FALSE, FALSE)}
Clips    == {Opt(FALSE, FALSE, TRUE)}
Chapters == {Opt(FALSE, TRUE, FALSE)}
Plain    == {Opt(FALSE, FALSE, FALSE)}
ChaptersAndClips == Chapters \cup Clips
=============================================================================

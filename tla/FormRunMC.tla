----------------------------- MODULE FormRunMC -----------------------------
(* Two pages: a choice that reveals a second question, and the resume.      *)
EXTENDS ReviewDesk

MCForm == <<<<"degree", "major">>, <<"resume">>>>
MCChild == {"major"}
MCFile == "resume"
MCOpen == {"major"}
=============================================================================

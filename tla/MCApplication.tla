--------------------------- MODULE MCApplication ---------------------------
(* The application over three frames of three pixels.  Between the first   *)
(* two the scene only brightens, with some noise; between the first and    *)
(* the third something moves, and between the second and the third the     *)
(* whole frame changes.                                                    *)
EXTENDS Application

MCFrames == {<<5, 5, 5>>, <<7, 6, 6>>, <<12, 12, 4>>}

\* Nothing, motion over a preview somebody starts, and everything.
MCSettings == {{}, {"preview", "camera", "motion"}, Parts}
Everything == {Parts}
=============================================================================

---------------------------- MODULE MCCaptureWriter ---------------------------
EXTENDS CaptureWriter

\* Four events with content in two workspaces, and one without either.
MCContext == [e \in Events |-> CASE e <= 2 -> "w1" [] e <= 4 -> "w2"
                                 [] OTHER -> "none"]
MCSize == [e \in Events |-> IF e <= 4 THEN 2 ELSE 1]
MCBareSize == [e \in Events |-> 1]
===============================================================================

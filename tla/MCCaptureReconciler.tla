-------------------------- MODULE MCCaptureReconciler --------------------------
(***************************************************************************)
(* Instances of CaptureReconciler: a tool's start, its completion and a    *)
(* message.                                                                *)
(***************************************************************************)
EXTENDS CaptureReconciler

MCCompletes == <<0, 1, 0>>
===============================================================================

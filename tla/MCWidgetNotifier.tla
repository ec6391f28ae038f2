-------------------------- MODULE MCWidgetNotifier --------------------------
(***************************************************************************)
(* WidgetNotifier for the model checker: callers are alike, and so are     *)
(* devices.                                                                *)
(***************************************************************************)
EXTENDS WidgetNotifier, TLC

Alike == Permutations(Notifiers) \cup Permutations(Devices)
=============================================================================

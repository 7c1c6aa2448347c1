----------------------------- MODULE MCSession -----------------------------
(* Values for the constants of Session that a cfg cannot write. *)
EXTENDS Session

(* Status pages only. *)
StatusOnly == [t \in Tabs |-> {"status"}]
=============================================================================

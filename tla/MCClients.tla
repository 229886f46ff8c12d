----------------------------- MODULE MCClients -----------------------------
(* Two trays, whose connections and messages can merge and cross.  One     *)
(* change and one move of a slider can come in either order, before or     *)
(* after the reply that a tray waits for.                                  *)
EXTENDS Clients

CONSTANTS t1, t2

MCTrays == {t1, t2}
MCWatched == {t1}
=============================================================================

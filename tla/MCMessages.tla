----------------------------- MODULE MCMessages -----------------------------
(* Messages on three workers: broadcasts of one, a message of another to the
   third, and a line of the access log. *)
EXTENDS Messages

MCSends == {<<0, "websocket", ALL>>, <<1, "app", 2>>, <<0, "accesslog", PARENT>>}
=============================================================================

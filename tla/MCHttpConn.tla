------------------------------ MODULE MCHttpConn -------------------------------
(* HttpConn with two services for one agent, and an agent without any. *)
EXTENDS HttpConn

Services == {<<"GET", "app">>, <<"POST", "app">>}
==============================================================================

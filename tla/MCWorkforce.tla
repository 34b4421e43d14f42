---------------------------- MODULE MCWorkforce ----------------------------
(* Workforce on two evidence desks, an operator desk and one that only the graphs know. *)
EXTENDS Workforce, TLC

MCNodes == <<"conductor", "mufti", "oracle", "scout">>
MCDesks == {"conductor", "mufti", "oracle"}
MCAnalysts == {"mufti", "oracle"}
Edges(f) == f @@ NoDeps
MCGraphs ==
    {Edges("mufti" :> {"oracle"} @@ "conductor" :> {"mufti"}),
     Edges("mufti" :> {"conductor"} @@ "conductor" :> {"mufti"})}
=============================================================================

------------------------------- MODULE MCServer -------------------------------
(* Server with a working directory of each kind. *)
EXTENDS Server

Workdir(text) == <<"workdir", "=">> \o text \o <<"\n">>
MCFile == {Workdir(<<"/", "w">>), Workdir(<<"/", "home", "/", "w">>), Workdir(<<"/", "x", "/", "w">>),
           Workdir(<<"w">>), Workdir(<<"/">>), Workdir(<<>>), <<"#", "\n">>,
           Workdir(<<"/", "home", "/", "u", "/">>)}
MCDefault == [option \in {"workdir"} |-> <<"/", "t">>]
\* The array of workdir holds four characters; a longer text may run over it.
MCRoom == "workdir" :> 4
MCDamage == {<<"/", "home">>}
MCStart == <<"home", "u">>
===============================================================================

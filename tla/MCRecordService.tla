---------------------------- MODULE MCRecordService ---------------------------
(* RecordService on small files and a small service. *)
EXTENDS RecordService

\* The line `option = text`, without its newline.
Line(option, text) == <<option, "=">> \o text
Ended(line) == line \o <<"\n">>

\* A buffer of seven characters and a list of three entries tell these apart.
SizeTwo == Ended(Line("url_record_size", <<"2">>))
UrlOn == Ended(Line("record_url", <<"o", "n">>))
UrlOff == Ended(Line("record_url", <<"o", "f">>))
MCFile ==
  {SizeTwo \o Ended(<<>>) \o Ended(<<"#", "o", "=", "n">>) \o UrlOn,
   Ended(<<" ", "url_record_size", " ", "=", " ", "1">>)
     \o Ended(<<"o", "n">>) \o SizeTwo \o Line("record_word", <<"o", "n">>),
   UrlOff \o Ended(Line("record_word", <<"o", "n">>))
     \o Line("url_record_size", <<"1", "2">>),
   UrlOn \o Line("url_record_size", <<"2">>),
   SizeTwo \o UrlOn \o UrlOff \o SizeTwo,
   Ended(Line("record_url", <<" ", " ", " ", " ", "o", "n">>)) \o SizeTwo,
   Ended(Line("except_url", <<"o", "n", "e">>)) \o UrlOff \o SizeTwo}
MCUnterminated == {UrlOn \o Line("record_word", <<"o", "n">>)}
MCDefault == [option \in {"url_record_size", "record_url", "record_word", "except_url"} |->
                IF option = "url_record_size" THEN <<"2">> ELSE <<"o", "n">>]

\* except_url is an array of two characters; a longer text may run over the rest.
MCRoom == "except_url" :> 2
MCDamage == {<<"o", "n">>}
MCNumber == (<<"1">> :> 1) @@ (<<"2">> :> 2) @@ (<<"1", "2">> :> 12)

Browse == [named |-> TRUE, checked |-> TRUE, asksHtml |-> TRUE,
           except |-> FALSE, html |-> TRUE, timed |-> TRUE, engines |-> {1}]
MCRequest == {Browse, [Browse EXCEPT !.except = TRUE], [Browse EXCEPT !.timed = FALSE]}

Symmetry == Permutations(Worker) \cup Permutations(Entry)
===============================================================================

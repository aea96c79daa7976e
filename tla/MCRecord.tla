------------------------------ MODULE MCRecord ------------------------------
(* Record on small instances. *)
EXTENDS Record

\* Requests that are recorded, with a search word for no engine.
MCRequestBrowse ==
  {[named |-> TRUE, checked |-> TRUE, asksHtml |-> TRUE,
    except |-> FALSE, html |-> TRUE, timed |-> TRUE, engines |-> {}]}

\* Everything is recorded, in batches of two; or only the URLs.
MCRecordAll == {[url_record_size |-> 2, record_url |-> TRUE, record_word |-> TRUE]}
MCRecordUrls == {[url_record_size |-> 2, record_url |-> TRUE, record_word |-> FALSE]}
=============================================================================

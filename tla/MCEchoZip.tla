------------------------------- MODULE MCEchoZip ------------------------------
(* EchoZip on small instances. *)
EXTENDS EchoZip

\* A page of three units whose head tag ends at the first, as it is and
\* compressed.
Page ==
  [respmod |-> TRUE, hasbody |-> TRUE, html |-> TRUE, encoding |-> "none", known |-> TRUE,
   size |-> 3, intact |-> FALSE, plain |-> 0, head |-> 1, frames |-> 0]
Zipped == [Page EXCEPT !.encoding = "gzip", !.intact = TRUE, !.size = 2, !.plain = 4]

\* One response for each branch of the handlers, with and without a length.  The
\* first block of http_zip_decompress has twelve units for a body of two and,
\* counted modulo Word, two for a body of three: it is large enough for the text,
\* it is not, or half of Word is produced before the end.
MCResponses ==
  LET pages ==
        {Page, [Page EXCEPT !.head = 0], [Page EXCEPT !.head = 3], [Page EXCEPT !.frames = 2],
         [Page EXCEPT !.size = 1], [Page EXCEPT !.size = 0, !.head = 0],
         [Page EXCEPT !.encoding = "other"],
         [Page EXCEPT !.html = FALSE], [Page EXCEPT !.respmod = FALSE],
         [Page EXCEPT !.hasbody = FALSE, !.size = 0],
         Zipped, [Zipped EXCEPT !.encoding = "deflate"], [Zipped EXCEPT !.head = 0],
         [Zipped EXCEPT !.head = 3],
         [Zipped EXCEPT !.frames = 2], [Zipped EXCEPT !.size = 1],
         [Zipped EXCEPT !.intact = FALSE], [Zipped EXCEPT !.plain = 1],
         [Zipped EXCEPT !.size = 3, !.plain = 7], [Zipped EXCEPT !.size = 3, !.plain = 9]} IN
  pages \cup {[p EXCEPT !.known = FALSE] : p \in pages}
===============================================================================

-------------------------------- MODULE MCEcho --------------------------------
(* Echo on its own, for a body that decompresses to nothing. *)
EXTENDS Echo

MCEmpty ==
  {[respmod |-> TRUE, hasbody |-> TRUE, html |-> TRUE, encoding |-> "gzip", known |-> TRUE,
    size |-> 2, intact |-> TRUE, plain |-> 0, head |-> 0, frames |-> 0]}
===============================================================================

----------------------------- MODULE MCParsers -------------------------------
(***************************************************************************)
(* The inputs for TLC: one header line with every class of character; a    *)
(* Content-Length that is no number, zero, two, minus one or past the      *)
(* limit, with a body.                                                     *)
(***************************************************************************)
EXTENDS Parsers

OneHeader ==
    [symbols |-> {"GET", "PUT", "HTTP/1.1", "/", "%", "ctl", ":", "SP", "CR", "LF"},
     length |-> 16, token |-> 2]

OneBody ==
    [symbols |-> {"POST", "HTTP/1.1", "/", "Content-Length", "0", "2", "-1", "9999",
                  ":", "SP", "CR", "LF"},
     length |-> 17, token |-> 1]

MCInputs == {OneHeader, OneBody}

==============================================================================

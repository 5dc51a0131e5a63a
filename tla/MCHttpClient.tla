---------------------------- MODULE MCHttpClient ----------------------------
(***************************************************************************)
(* A stream of events that fit the buffer beside a fragment, one with       *)
(* events that do not, a body that fits response_body, one that is too     *)
(* large for it, and an error answer.                                      *)
(***************************************************************************)
EXTENDS HttpClient

MCAnswers ==
  {[status |-> 200, sse |-> TRUE,  sizes |-> <<1, 3>>],
   [status |-> 200, sse |-> TRUE,  sizes |-> <<4, 6>>],
   [status |-> 200, sse |-> FALSE, sizes |-> <<3>>],
   [status |-> 200, sse |-> FALSE, sizes |-> <<5>>],
   [status |-> 500, sse |-> FALSE, sizes |-> <<2>>]}
=============================================================================

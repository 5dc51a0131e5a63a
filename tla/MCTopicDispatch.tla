--------------------------- MODULE MCTopicDispatch ---------------------------
(* TopicDispatch with two custom topics, one a textual prefix of the other,  *)
(* and a custom wildcard.                                                    *)
EXTENDS TopicDispatch

MCSuffixes == { <<"get">>, <<"get", "All">>, <<"+">> }
=============================================================================

----------------------------- MODULE MCThingModel -----------------------------
(* ThingModel with two custom topics, one a textual prefix of the other, and *)
(* a custom wildcard.                                                        *)
EXTENDS ThingModel

MCSuffixes == { <<"get">>, <<"get", "All">>, <<"+">> }
=============================================================================

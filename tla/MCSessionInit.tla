----------------------------- MODULE MCSessionInit -----------------------------
(* TLC instances of SessionInit; the bounds are in the .cfg files. *)
EXTENDS SessionInit

CONSTANTS s1, p1

MCSessions == {s1}
MCPrewarms == {p1}
MCRegions  == {"us-west", "eu"}
MCDefault  == "us-west"
MCAnswers  == {"eu", "auto"}

Cfg(r, c, i) == [region |-> r, console |-> c, ingress |-> i]

(* Scheduled; partly explicit; explicit; a concrete region. *)
MCConfigs == { Cfg("auto", "", ""), Cfg("auto", "own", ""), Cfg("auto", "own", "own"), Cfg("eu", "", "own") }

MCLifetimes == {2, 3}
================================================================================

------------------------------- MODULE MCAgent -------------------------------
(* Agent on instances TLC can explore.                                     *)
EXTENDS Agent

CONSTANTS w1, w2

\* RateLimit 1, the default, and 2.
mcOne  == {{w1}}
mcBoth == {{w1}, {w1, w2}}
=============================================================================

------------------------------ MODULE MCBridges ------------------------------
(* Instances of Bridges for TLC. *)
EXTENDS Bridges

CONSTANTS m1, m2, x, y, low, high, t1, t2

F(code, says) == [code |-> code, says |-> says]

\* Each way through the retries and the classifiers.
SomeFailures ==
  {F(NoRoute, {}), F(Dropped, {}), F(200, {}), F(400, {"field"}), F(400, {"auth"}), F(400, {}), F(401, {}), F(402, {}),
   F(403, {"flagged"}), F(404, {"model"}), F(429, {}), F(500, {}), F(503, {"rate"})}
==============================================================================

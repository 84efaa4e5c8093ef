--------------------------- MODULE MCEventImport ---------------------------
(***************************************************************************)
(* Instances of EventImport for TLC.  Rows and import requests are         *)
(* interchangeable.                                                        *)
(***************************************************************************)
EXTENDS EventImport, TLC

\* The channel by name, from a stored source and as a free input.
Channel ==
  {[site |-> "name", explicit |-> "auto", post |-> 1, sourced |-> s] : s \in BOOLEAN}

\* One input for each way through the parsers.
EveryWay ==
  {[site |-> "name", explicit |-> "auto", post |-> 1, sourced |-> TRUE],
   [site |-> "post", explicit |-> "telegram", post |-> 2, sourced |-> FALSE],
   [site |-> "vk", explicit |-> "auto", post |-> 1, sourced |-> FALSE],
   [site |-> "channel", explicit |-> "web", post |-> 1, sourced |-> FALSE],
   [site |-> "words", explicit |-> "auto", post |-> 1, sourced |-> FALSE]}

Symmetry == Permutations(Rows) \cup Permutations(Imports)
=============================================================================

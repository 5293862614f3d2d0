------------------------- MODULE MCBroadcastFanout -------------------------
(* Instances of BroadcastFanout: the system plane with the subscriptions it   *)
(* really declares, a second decoder, and a plane that does not decode.       *)
EXTENDS BroadcastFanout

CONSTANTS system, solar, heating, energy, ident

MCSubscriptions ==
  [p \in {system, solar, heating} |->
    CASE p = system  -> <<energy, energy, ident>>
      [] p = solar   -> <<energy>>
      [] p = heating -> <<ident, energy>>]

MCPlaneList == {<<system, solar>>, <<solar, heating, system>>}
Alone       == {<<system>>}
=============================================================================

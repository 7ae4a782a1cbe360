---------------------------- MODULE MCCampaigns -----------------------------
(* One campaign that may run twice, for a user with an enabled device who    *)
(* may turn pushes off, and whose app may be installed anew, under a new id.*)
EXTENDS Campaigns, TLC

CONSTANTS c1, r1, r2, u1, u2, d1, d2, t1, t2

MCNotices == {c1} \X {r1, r2} \X {u1, u2}
MCUserOf == [n \in MCNotices |-> n[3]]
MCFirstDevices ==
  [d \in Devices |->
     IF d = d1 THEN [user |-> u1, token |-> t1, on |-> TRUE]
               ELSE [user |-> Nobody, token |-> NoToken, on |-> FALSE]]
MCFirstPreferences == [u \in {u1, u2} |-> [push |-> u = u1, inapp |-> TRUE]]
MCSettings == {u1} \X [push : {FALSE}, inapp : {TRUE}]
Reinstalled == {<<d2, u1, t1>>}

Symmetry == Permutations(Workers) \cup Permutations(Runs)
=============================================================================

--------------------------- MODULE MCDdosControl ---------------------------
(* Values for the constants of DdosControl.                                *)
EXTENDS DdosControl

CONSTANTS a1, a2, p1, p2, p3, err, k1, k2, k3

MCKeyOf == [p \in Packet |->
    ((p1 :> k1) @@ (p2 :> k2) @@ (p3 :> k3) @@ (err :> NoKey))[p]]

\* Option records: <<ban time, window, single limit, total limit>>
Opt(ban, window, single, total) ==
    [e_ban_suresi |-> ban, e_paket_cache_suresi |-> window,
     e_teksefer_limit |-> single, e_toplam_limit |-> total,
     check_total_flood |-> TRUE, check_single_flood |-> TRUE]

OneOption == {Opt(2, 2, 2, 4)}

Symmetry == Permutations({a1, a2})
=============================================================================

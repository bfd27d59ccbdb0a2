------------------------------ MODULE MCDesktop ------------------------------
(* Two commands at a time, two hosts, one user, few subscriptions. *)
EXTENDS Desktop

CONSTANTS c1, c2, k1, k2, h1, h2, u1, p1

MCSlots == {c1, c2}
MCCookies == {k1, k2}
MCHosts == {h1, h2}
MCProgIDs == {p1}
MCUses == {{"plain"}, {"data", "fusion"}}
=============================================================================

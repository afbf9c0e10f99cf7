------------------------------ MODULE MCListings ------------------------------
(* Two deployers, three items, pages of one or two.                        *)
EXTENDS Listings

MCItems == 1..3
MCLimits == {1, 2}
=============================================================================

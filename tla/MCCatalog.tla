------------------------------ MODULE MCCatalog ------------------------------
(* Two workers, a seeded venue and room for two more, so that a name may be *)
(* asked for a second time after its suffix was given away.                 *)
EXTENDS Catalog, TLC

CONSTANTS oracle, head1

MCWords == {oracle, head1}
MCHeads == {head1}
MCSeedSlug == <<oracle>>
MCSlugs == {MCSeedSlug, <<oracle, head1>>}

Symmetry ==
    UNION {Permutations(S) : S \in {Workers, VenueIds, ItemIds, SectionIds, Codes}}
==============================================================================

---------------------------- MODULE MCTourBooking ----------------------------
EXTENDS TourBookingProperties, TLC, FiniteSets

Symmetry == Permutations(Slot) \union Permutations(Tour) \union Permutations(Lead)
            \union Permutations(Link) \union Permutations(Clerk)
=============================================================================

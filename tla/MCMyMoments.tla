---------------------------- MODULE MCMyMoments ----------------------------
(* MyMoments with two accounts and two moments, of which a behaviour mixes *)
(* only some: two moments for an import that fails half-way, two accounts  *)
(* for what one keeps and the other must not get.                          *)
EXTENDS MyMoments
CONSTANTS ada, bob, m1, m2
SomeMixes ==
  {{"save", "import", ada, m1, m2},
   {"save", "import", ada, bob, m1},
   {"save", "import", "edit", ada, m1},
   {"import", "backup", "switch", ada, m1},
   {"save", "unsave", "unsaveDevice", "edit", "load", ada, m1},
   {"status", "clear", "switch", "history", ada},
   {"status", "clear", "history", ada, bob}}
=============================================================================

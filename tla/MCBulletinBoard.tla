--------------------------- MODULE MCBulletinBoard ---------------------------
(***************************************************************************)
(* Instances of BulletinBoard: one board has two posts with the number 0  *)
(* and one with 1, the other a post 0.  A PageLimit of 2 reaches all of    *)
(* them, one of 1 a page each.                                            *)
(***************************************************************************)
EXTENDS BulletinBoard

CONSTANTS d1

Numbered(key, board, number) ==
    [id |-> <<"console", key>>, data |-> [ID |-> board, PostNumber |-> number]]

MCSeeded ==
    {Numbered(1, "akul", 0), Numbered(2, "akul", 1), Numbered(3, "library", 0),
     Numbered(4, "akul", 0)}

\* A device that has missed the latest post of one board.
MCCached == MCSeeded \ {Numbered(2, "akul", 1)}

Scope(patient, pages, visits, loads, new) ==
    [patient |-> patient, pages |-> pages, visits |-> visits, loads |-> loads, posts |-> new]

\* Users who leave boards or write posts while a page loads; users who wait for two pages.
MCAll == {Scope(FALSE, 1, 2, 2, 0), Scope(FALSE, 1, 1, 2, 1), Scope(TRUE, 2, 2, 3, 2)}
MCTwice == {Scope(FALSE, 2, 1, 2, 0)}
MCReload == {Scope(TRUE, 2, 2, 2, 1)}
=============================================================================
